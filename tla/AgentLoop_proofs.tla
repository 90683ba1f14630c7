-------------------------- MODULE AgentLoop_proofs --------------------------
(***************************************************************************)
(* Safety of the agent loop for any messages, modes and bounds: its types, *)
(* at most one run under way, the order and delivery of queued messages,   *)
(* the bookkeeping of tool calls, what the transcript holds, and the last  *)
(* event of a run.                                                         *)
(***************************************************************************)
EXTENDS AgentLoop, TLAPS

\* What a run does, its provider and its exceptions included.
RunStep(r) == Loop(r) \/ Provider(r) \/ Fail(r) \/ FailAgain(r)

\* The counters of a batch stay within it.
CountersInv ==
  \A r \in Runs : reported[r] <= announced[r] /\ announced[r] <= Len(batch[r])

IInv == TypeOK /\ CountersInv

-----------------------------------------------------------------------------
(* The operators.                                                          *)

\* drain() returns messages of the queue and leaves messages of the queue.
LEMMA DrainType ==
  ASSUME NEW q \in Seq(Msgs), NEW m \in QueueModes
  PROVE  Taken(q, m) \in Seq(Msgs) /\ Left(q, m) \in Seq(Msgs)
BY DEF Taken, Left

\* What clearing a queue discards are messages.
LEMMA ToSetType ==
  ASSUME NEW q \in Seq(Msgs)
  PROVE  ToSet(q) \in SUBSET Msgs
BY DEF ToSet

\* The entries of the transcript are well typed.
LEMMA EntryTypes ==
  /\ \A m \in Msgs : User(m) \in Entries
  /\ \A c \in Calls : ResultOf(c) \in Entries
  /\ \A r \in Runs, s \in {"stop", "toolUse", "error", "aborted"}, cs \in Seq(Calls) :
       Answer(r, s, cs) \in Entries
BY DEF User, ResultOf, Answer, Entries

\* The calls the model makes next are calls.
LEMMA FreshCalls ==
  ASSUME nextCall \in 1 .. MaxCalls + 1, NEW n \in 1 .. MaxCalls, nextCall + n <= MaxCalls + 1
  PROVE  /\ [i \in 1 .. n |-> nextCall + i - 1] \in Seq(Calls)
         /\ Len([i \in 1 .. n |-> nextCall + i - 1]) = n
BY BoundsAssumption DEF Calls

-----------------------------------------------------------------------------
(* Types.                                                                  *)

\* The initial state is well typed.
LEMMA InitType == Init => IInv
<1> SUFFICES ASSUME Init PROVE IInv
  OBVIOUS
<1>1. TypeOK
  <2>1. /\ transcript \in Seq(Entries) /\ delivered \in Seq(Msgs)
        /\ steeringQueue \in Seq(Msgs) /\ followUpQueue \in Seq(Msgs)
        /\ pending \in [Runs -> Seq(Msgs)]
        /\ context \in [Runs -> Seq(Entries)]
        /\ batch \in [Runs -> Seq(Calls)]
    BY DEF Init
  <2>2. /\ pc \in [Runs -> PCs] /\ skipPoll \in [Runs -> BOOLEAN]
        /\ mode \in [Runs -> {"none", "sequential", "parallel"}]
        /\ announced \in [Runs -> Nat] /\ reported \in [Runs -> Nat]
        /\ hasMoreToolCalls \in [Runs -> BOOLEAN]
        /\ owner \in [Calls -> {0} \cup Runs]
        /\ callState \in [Calls -> {"none", "immediate", "prepared", "executing", "crashed",
                                   "finalized"}]
    BY DEF Init, PCs
  <2>3. /\ runs \in 0 .. MaxRuns /\ nextCall \in 1 .. MaxCalls + 1
        /\ failures \in 0 .. MaxFailures /\ resets \in 0 .. MaxResets /\ accepted \in Nat
    BY BoundsAssumption DEF Init
  <2>4. /\ isStreaming \in BOOLEAN /\ activeRun \in {0} \cup Runs
        /\ pendingToolCalls \in SUBSET Calls /\ aborted \in SUBSET Runs
        /\ lane \in [Msgs -> {"none", "prompt", "steering", "followUp"}]
        /\ acceptedAt \in [Msgs -> Nat]
        /\ discarded \in SUBSET Msgs /\ failedRuns \in SUBSET Runs
    BY DEF Init
  <2> QED BY <2>1, <2>2, <2>3, <2>4 DEF TypeOK
<1>2. CountersInv
  BY DEF Init, CountersInv
<1> QED BY <1>1, <1>2 DEF IInv

\* Starting a run, from a prompt or from drained messages, keeps the types.
LEMMA StartRunType ==
  ASSUME IInv, NEW msgs \in Seq(Msgs), NEW skip \in BOOLEAN, StartRun(msgs, skip),
         steeringQueue' \in Seq(Msgs), followUpQueue' \in Seq(Msgs),
         lane' \in [Msgs -> {"none", "prompt", "steering", "followUp"}],
         acceptedAt' \in [Msgs -> Nat], accepted' \in Nat
  PROVE  IInv'
<1>1. TypeOK'
  <2>1. /\ runs' \in 0 .. MaxRuns /\ runs' \in Runs /\ activeRun' \in {0} \cup Runs
        /\ pc' \in [Runs -> PCs]
    BY BoundsAssumption DEF IInv, TypeOK, StartRun, PCs, Runs
  <2>2. /\ isStreaming' \in BOOLEAN
        /\ pending' \in [Runs -> Seq(Msgs)]
        /\ context' \in [Runs -> Seq(Entries)]
        /\ skipPoll' \in [Runs -> BOOLEAN]
    BY DEF IInv, TypeOK, StartRun
  <2> QED BY <2>1, <2>2 DEF IInv, TypeOK, StartRun, batchVars, callVars
<1>2. CountersInv'
  BY DEF IInv, CountersInv, StartRun, batchVars
<1> QED BY <1>1, <1>2 DEF IInv

\* The calls of the owner keep the types.
LEMMA OwnerType == IInv /\ Owner => IInv'
<1> SUFFICES ASSUME IInv, Owner PROVE IInv'
  OBVIOUS
<1> USE ModesAssumption, BoundsAssumption
<1>1. ASSUME NEW m \in Msgs, Steer(m) PROVE IInv'
  <2>1. /\ lane' \in [Msgs -> {"none", "prompt", "steering", "followUp"}]
        /\ acceptedAt' \in [Msgs -> Nat] /\ accepted' \in Nat
    BY <1>1 DEF Steer, Accepted, IInv, TypeOK
  <2>2. steeringQueue' \in Seq(Msgs)
    BY <1>1 DEF Steer, IInv, TypeOK
  <2> QED BY <1>1, <2>1, <2>2
          DEF Steer, IInv, TypeOK, CountersInv, agentVars, loopVars, batchVars, callVars
<1>2. ASSUME NEW m \in Msgs, FollowUp(m) PROVE IInv'
  <2>1. /\ lane' \in [Msgs -> {"none", "prompt", "steering", "followUp"}]
        /\ acceptedAt' \in [Msgs -> Nat] /\ accepted' \in Nat
    BY <1>2 DEF FollowUp, Accepted, IInv, TypeOK
  <2>2. followUpQueue' \in Seq(Msgs)
    BY <1>2 DEF FollowUp, IInv, TypeOK
  <2> QED BY <1>2, <2>1, <2>2
          DEF FollowUp, IInv, TypeOK, CountersInv, agentVars, loopVars, batchVars, callVars
<1>3. ASSUME NEW m \in Msgs, Prompt(m) PROVE IInv'
  <2>1. <<m>> \in Seq(Msgs)
    OBVIOUS
  <2>2. /\ lane' \in [Msgs -> {"none", "prompt", "steering", "followUp"}]
        /\ acceptedAt' \in [Msgs -> Nat] /\ accepted' \in Nat
        /\ steeringQueue' \in Seq(Msgs) /\ followUpQueue' \in Seq(Msgs)
    BY <1>3 DEF Prompt, Accepted, IInv, TypeOK, queueVars
  <2> QED BY <1>3, <2>1, <2>2, StartRunType DEF Prompt
<1>4. CASE ClearSteeringQueue
  <2>1. steeringQueue' \in Seq(Msgs) /\ discarded' \in SUBSET Msgs
    BY <1>4, ToSetType DEF ClearSteeringQueue, IInv, TypeOK
  <2> QED BY <1>4, <2>1
          DEF ClearSteeringQueue, IInv, TypeOK, CountersInv, agentVars, loopVars, batchVars, callVars, acceptVars
<1>5. CASE ClearFollowUpQueue
  <2>1. followUpQueue' \in Seq(Msgs) /\ discarded' \in SUBSET Msgs
    BY <1>5, ToSetType DEF ClearFollowUpQueue, IInv, TypeOK
  <2> QED BY <1>5, <2>1
          DEF ClearFollowUpQueue, IInv, TypeOK, CountersInv, agentVars, loopVars, batchVars, callVars, acceptVars
<1>6. CASE Continue
  <2>1. /\ lane' \in [Msgs -> {"none", "prompt", "steering", "followUp"}]
        /\ acceptedAt' \in [Msgs -> Nat] /\ accepted' \in Nat
    BY <1>6 DEF Continue, acceptVars, IInv, TypeOK
  <2>2. /\ Taken(steeringQueue, SteeringMode) \in Seq(Msgs)
        /\ Left(steeringQueue, SteeringMode) \in Seq(Msgs)
        /\ Taken(followUpQueue, FollowUpMode) \in Seq(Msgs)
        /\ Left(followUpQueue, FollowUpMode) \in Seq(Msgs)
        /\ <<>> \in Seq(Msgs) /\ steeringQueue \in Seq(Msgs) /\ followUpQueue \in Seq(Msgs)
    BY DrainType DEF IInv, TypeOK
  <2>3. CASE StartRun(<<>>, FALSE) /\ UNCHANGED queueVars
    BY <2>1, <2>2, <2>3, StartRunType DEF queueVars
  <2>4. CASE /\ StartRun(Taken(steeringQueue, SteeringMode), TRUE)
             /\ steeringQueue' = Left(steeringQueue, SteeringMode)
             /\ UNCHANGED followUpQueue
    BY <2>1, <2>2, <2>4, StartRunType
  <2>5. CASE /\ StartRun(Taken(followUpQueue, FollowUpMode), FALSE)
             /\ followUpQueue' = Left(followUpQueue, FollowUpMode)
             /\ UNCHANGED steeringQueue
    BY <2>1, <2>2, <2>5, StartRunType
  <2> QED BY <1>6, <2>3, <2>4, <2>5 DEF Continue
<1>7. CASE Abort
  BY <1>7 DEF Abort, IInv, TypeOK, CountersInv, agentVars, queueVars, loopVars, batchVars, callVars,
              acceptVars
<1>8. CASE Reset
  <2>1. /\ steeringQueue' \in Seq(Msgs) /\ followUpQueue' \in Seq(Msgs)
        /\ transcript' \in Seq(Entries) /\ discarded' \in SUBSET Msgs
    BY <1>8, ToSetType DEF Reset, IInv, TypeOK
  <2>2. resets' \in 0 .. MaxResets
    BY <1>8 DEF Reset, IInv, TypeOK
  <2>3. isStreaming' \in BOOLEAN /\ pendingToolCalls' \in SUBSET Calls
    BY <1>8 DEF Reset
  <2> QED BY <1>8, <2>1, <2>2, <2>3
          DEF Reset, IInv, TypeOK, CountersInv, loopVars, batchVars, callVars, acceptVars
<1> QED BY <1>1, <1>2, <1>3, <1>4, <1>5, <1>6, <1>7, <1>8 DEF Owner

\* The steps of a run up to the answer of the model keep the types.
LEMMA TurnType ==
  ASSUME IInv, NEW r \in Runs,
         Inject(r) \/ FirstPoll(r) \/ CallProvider(r) \/ AnswerFails(r) \/ AnswerText(r)
  PROVE  IInv'
<1> USE ModesAssumption, BoundsAssumption
<1>1. CASE Inject(r)
  <2>1. pending[r] \in Seq(Msgs) /\ pending[r] # <<>>
    BY <1>1 DEF Inject, IInv, TypeOK
  <2>2. Head(pending[r]) \in Msgs /\ Tail(pending[r]) \in Seq(Msgs)
    BY <2>1
  <2>3. User(Head(pending[r])) \in Entries
    BY <2>2, EntryTypes
  <2>4. transcript' \in Seq(Entries) /\ delivered' \in Seq(Msgs)
    BY <1>1, <2>2, <2>3 DEF Inject, IInv, TypeOK
  <2>5. pending' \in [Runs -> Seq(Msgs)]
    BY <1>1, <2>2 DEF Inject, IInv, TypeOK
  <2>6. Append(context[r], User(Head(pending[r]))) \in Seq(Entries)
    BY <2>3 DEF IInv, TypeOK
  <2>7. context' \in [Runs -> Seq(Entries)]
    BY <1>1, <2>6 DEF Inject, IInv, TypeOK
  <2> QED BY <1>1, <2>4, <2>5, <2>7
          DEF Inject, IInv, TypeOK, CountersInv, queueVars, batchVars, callVars, acceptVars
<1>2. CASE FirstPoll(r)
  <2>1. /\ Taken(steeringQueue, SteeringMode) \in Seq(Msgs)
        /\ Left(steeringQueue, SteeringMode) \in Seq(Msgs)
    BY DrainType DEF IInv, TypeOK
  <2>2. pending' \in [Runs -> Seq(Msgs)] /\ steeringQueue' \in Seq(Msgs)
    <3>1. CASE skipPoll[r]
      BY <1>2, <3>1 DEF FirstPoll, IInv, TypeOK
    <3>2. CASE ~ skipPoll[r]
      <4>1. /\ pending' = [pending EXCEPT ![r] = Taken(steeringQueue, SteeringMode)]
            /\ steeringQueue' = Left(steeringQueue, SteeringMode)
        BY <1>2, <3>2 DEF FirstPoll
      <4> QED BY <4>1, <2>1 DEF IInv, TypeOK
    <3> QED BY <3>1, <3>2
  <2>3. pc' \in [Runs -> PCs]
    BY <1>2 DEF FirstPoll, IInv, TypeOK, PCs
  <2> QED BY <1>2, <2>2, <2>3
          DEF FirstPoll, IInv, TypeOK, CountersInv, agentVars, batchVars, callVars, acceptVars
<1>3. CASE CallProvider(r)
  <2>1. pc' \in [Runs -> PCs]
    BY <1>3 DEF CallProvider, IInv, TypeOK, PCs
  <2> QED BY <1>3, <2>1
          DEF CallProvider, IInv, TypeOK, CountersInv, agentVars, queueVars, loopVars, batchVars,
              callVars, acceptVars
<1>4. ASSUME NEW s \in {"stop", "error", "aborted"}, AddAnswer(r, Answer(r, s, <<>>)),
             AnswerFails(r) \/ AnswerText(r)
      PROVE  IInv'
  <2>1. Answer(r, s, <<>>) \in Entries
    <3>1. <<>> \in Seq(Calls) /\ s \in {"stop", "toolUse", "error", "aborted"}
      OBVIOUS
    <3> QED BY <3>1, EntryTypes
  <2>2. transcript' \in Seq(Entries) /\ context' \in [Runs -> Seq(Entries)]
    BY <1>4, <2>1 DEF AddAnswer, IInv, TypeOK
  <2>3. pc' \in [Runs -> PCs] /\ hasMoreToolCalls' \in [Runs -> BOOLEAN]
    BY <1>4 DEF AnswerFails, AnswerText, IInv, TypeOK, PCs
  <2> QED BY <1>4, <2>2, <2>3
          DEF AnswerFails, AnswerText, IInv, TypeOK, CountersInv, queueVars, batchVars, callVars,
              acceptVars
<1>5. CASE AnswerFails(r)
  BY <1>4, <1>5 DEF AnswerFails
<1>6. CASE AnswerText(r)
  BY <1>4, <1>6 DEF AnswerText
<1> QED BY <1>1, <1>2, <1>3, <1>5, <1>6

\* An answer with tool calls keeps the types: its calls are new ones.
LEMMA AnswerCallsType ==
  ASSUME IInv, NEW r \in Runs, NEW n \in 1 .. MaxCalls, NEW m \in ExecutionModes,
         AnswerCalls(r, n, m)
  PROVE  IInv'
<1> USE ModesAssumption, BoundsAssumption
<1> DEFINE cs == [i \in 1 .. n |-> nextCall + i - 1]
<1>1. cs \in Seq(Calls) /\ Len(cs) = n
  BY FreshCalls DEF AnswerCalls, IInv, TypeOK
<1>2. Answer(r, "toolUse", cs) \in Entries
  BY <1>1, EntryTypes
<1>3. AddAnswer(r, Answer(r, "toolUse", cs)) /\ batch' = [batch EXCEPT ![r] = cs]
  BY DEF AnswerCalls
<1> HIDE DEF cs
<1>4. transcript' \in Seq(Entries) /\ context' \in [Runs -> Seq(Entries)]
  BY <1>2, <1>3 DEF AddAnswer, IInv, TypeOK
<1>5. /\ batch' \in [Runs -> Seq(Calls)]
      /\ announced' \in [Runs -> Nat] /\ reported' \in [Runs -> Nat]
      /\ mode' \in [Runs -> {"none", "sequential", "parallel"}] /\ pc' \in [Runs -> PCs]
  <2>1. batch' \in [Runs -> Seq(Calls)]
    BY <1>1, <1>3 DEF IInv, TypeOK
  <2>2. announced' \in [Runs -> Nat] /\ reported' \in [Runs -> Nat] /\ pc' \in [Runs -> PCs]
    BY DEF AnswerCalls, IInv, TypeOK, PCs
  <2>3. m \in {"none", "sequential", "parallel"}
    OBVIOUS
  <2>4. mode' \in [Runs -> {"none", "sequential", "parallel"}]
    BY <2>3 DEF AnswerCalls, IInv, TypeOK
  <2> QED BY <2>1, <2>2, <2>4
<1>6. owner' \in [Calls -> {0} \cup Runs] /\ nextCall' \in 1 .. MaxCalls + 1
  BY DEF AnswerCalls, IInv, TypeOK
<1>7. CountersInv'
  BY <1>1, <1>3 DEF AnswerCalls, IInv, TypeOK, CountersInv
<1>8. TypeOK'
  BY <1>4, <1>5, <1>6 DEF AnswerCalls, IInv, TypeOK, queueVars, acceptVars
<1> QED BY <1>7, <1>8 DEF IInv

\* The steps of a batch keep the types.
LEMMA BatchType ==
  ASSUME IInv, NEW r \in Runs,
         PrepareCall(r) \/ LaunchAll(r) \/ Join(r) \/ Report(r) \/ CloseBatch(r)
  PROVE  IInv'
<1> DEFINE States == {"none", "immediate", "prepared", "executing", "crashed", "finalized"}
<1>1. CASE PrepareCall(r)
  <2>1. batch[r] \in Seq(Calls) /\ announced[r] \in Nat /\ announced[r] < Len(batch[r])
    BY <1>1 DEF PrepareCall, IInv, TypeOK
  <2>2. batch[r][announced[r] + 1] \in Calls
    BY <2>1
  <2>3. callState' \in [Calls -> States] /\ pc' \in [Runs -> PCs]
    BY <1>1, <2>2 DEF PrepareCall, IInv, TypeOK, PCs
  <2>4. pendingToolCalls' \in SUBSET Calls
    BY <1>1, <2>2 DEF PrepareCall, IInv, TypeOK
  <2>5. announced' \in [Runs -> Nat]
    BY <1>1 DEF PrepareCall, IInv, TypeOK
  <2>6. CountersInv'
    BY <1>1, <2>1 DEF PrepareCall, IInv, TypeOK, CountersInv
  <2>7. TypeOK'
    BY <1>1, <2>3, <2>4, <2>5 DEF PrepareCall, IInv, TypeOK, queueVars, loopVars, acceptVars
  <2> QED BY <2>6, <2>7 DEF IInv
<1>2. CASE LaunchAll(r)
  <2>1. callState' \in [Calls -> States]
    BY <1>2 DEF LaunchAll, IInv, TypeOK
  <2>2. pc' \in [Runs -> PCs]
    BY <1>2 DEF LaunchAll, IInv, TypeOK, PCs
  <2> QED BY <1>2, <2>1, <2>2
          DEF LaunchAll, IInv, TypeOK, CountersInv, agentVars, queueVars, loopVars, batchVars,
              acceptVars
<1>3. CASE Join(r)
  <2>1. pc' \in [Runs -> PCs]
    BY <1>3 DEF Join, IInv, TypeOK, PCs
  <2> QED BY <1>3, <2>1
          DEF Join, IInv, TypeOK, CountersInv, agentVars, queueVars, loopVars, batchVars, callVars,
              acceptVars
<1>4. CASE Report(r)
  <2>1. /\ batch[r] \in Seq(Calls) /\ reported[r] \in Nat /\ announced[r] \in Nat
        /\ reported[r] < announced[r] /\ announced[r] <= Len(batch[r])
    BY <1>4 DEF Report, IInv, TypeOK, CountersInv
  <2>2. ReportedNext(r) \in Calls
    BY <2>1 DEF ReportedNext
  <2>3. ResultOf(ReportedNext(r)) \in Entries
    BY <2>2, EntryTypes
  <2>4. transcript' \in Seq(Entries)
    BY <1>4, <2>3 DEF Report, IInv, TypeOK
  <2>5. reported' \in [Runs -> Nat]
    BY <1>4 DEF Report, IInv, TypeOK
  <2>6. CountersInv'
    BY <1>4, <2>1 DEF Report, IInv, TypeOK, CountersInv
  <2>7. TypeOK'
    BY <1>4, <2>4, <2>5 DEF Report, IInv, TypeOK, queueVars, loopVars, callVars, acceptVars
  <2> QED BY <2>6, <2>7 DEF IInv
<1>5. CASE CloseBatch(r)
  <2>1. /\ batch[r] \in Seq(Calls) /\ reported[r] \in Nat /\ announced[r] \in Nat
        /\ reported[r] <= Len(batch[r])
    BY DEF IInv, TypeOK, CountersInv
  <2>2. \A i \in 1 .. reported[r] : batch[r][i] \in Calls
    BY <2>1
  <2>3. \A i \in 1 .. reported[r] : ResultOf(batch[r][i]) \in Entries
    BY <2>2, EntryTypes
  <2>4. Results(r) \in Seq(Entries)
    BY <2>1, <2>3 DEF Results
  <2>5. context[r] \o Results(r) \in Seq(Entries)
    BY <2>4 DEF IInv, TypeOK
  <2>6. context' \in [Runs -> Seq(Entries)]
    BY <1>5, <2>5 DEF CloseBatch, IInv, TypeOK
  <2>7. hasMoreToolCalls' \in [Runs -> BOOLEAN]
    BY <1>5 DEF CloseBatch, IInv, TypeOK
  <2>8. /\ announced' \in [Runs -> Nat] /\ reported' \in [Runs -> Nat] /\ pc' \in [Runs -> PCs]
        /\ mode' \in [Runs -> {"none", "sequential", "parallel"}]
    BY <1>5 DEF CloseBatch, IInv, TypeOK, PCs
  <2>9. batch' \in [Runs -> Seq(Calls)]
    BY <1>5 DEF CloseBatch, IInv, TypeOK
  <2>10. CountersInv'
    BY <1>5 DEF CloseBatch, IInv, TypeOK, CountersInv
  <2>11. TypeOK'
    BY <1>5, <2>6, <2>7, <2>8, <2>9
    DEF CloseBatch, IInv, TypeOK, agentVars, queueVars, callVars, acceptVars
  <2> QED BY <2>10, <2>11 DEF IInv
<1> QED BY <1>1, <1>2, <1>3, <1>4, <1>5

\* Polls, exceptions, the end of a run and the end of a tool keep the types.
LEMMA EndType ==
  ASSUME IInv,
         \/ \E r \in Runs : Poll(r) \/ Fail(r) \/ EmitFailure(r) \/ FailAgain(r) \/ FinishRun(r)
         \/ \E c \in Calls : ToolEnds(c)
  PROVE  IInv'
<1> USE ModesAssumption, BoundsAssumption
<1> DEFINE States == {"none", "immediate", "prepared", "executing", "crashed", "finalized"}
<1>1. ASSUME NEW r \in Runs, Poll(r) PROVE IInv'
  <2>1. /\ Taken(steeringQueue, SteeringMode) \in Seq(Msgs)
        /\ Left(steeringQueue, SteeringMode) \in Seq(Msgs)
        /\ Taken(followUpQueue, FollowUpMode) \in Seq(Msgs)
        /\ Left(followUpQueue, FollowUpMode) \in Seq(Msgs)
    BY DrainType DEF IInv, TypeOK
  <2>2. steeringQueue' \in Seq(Msgs) /\ followUpQueue' \in Seq(Msgs)
    BY <1>1, <2>1 DEF Poll, IInv, TypeOK
  <2>3. pending' \in [Runs -> Seq(Msgs)]
    BY <1>1, <2>1 DEF Poll, IInv, TypeOK
  <2>4. pc' \in [Runs -> PCs]
    <3>1. "inject" \in PCs /\ "ending" \in PCs
      BY DEF PCs
    <3>2. \E p \in {"inject", "ending"} : pc' = [pc EXCEPT ![r] = p]
      BY <1>1 DEF Poll
    <3> QED BY <3>1, <3>2 DEF IInv, TypeOK
  <2> QED BY <1>1, <2>2, <2>3, <2>4
          DEF Poll, IInv, TypeOK, CountersInv, agentVars, batchVars, callVars, acceptVars
<1>2. ASSUME NEW r \in Runs, Fail(r) PROVE IInv'
  <2>3. pending[r] \in Seq(Msgs)
    BY DEF IInv, TypeOK
  <2>4. discarded' \in SUBSET Msgs
    BY <1>2, <2>3, ToSetType DEF Fail, IInv, TypeOK
  <2>5. pending' \in [Runs -> Seq(Msgs)]
    BY <1>2 DEF Fail, IInv, TypeOK
  <2>6. pc' \in [Runs -> PCs] /\ failedRuns' \in SUBSET Runs
    BY <1>2 DEF Fail, IInv, TypeOK, PCs, FailurePCs
  <2>7. failures' \in 0 .. MaxFailures
    BY <1>2 DEF Fail, IInv, TypeOK
  <2>8. callState' \in [Calls -> States]
    BY <1>2 DEF Fail, Throws, IInv, TypeOK
  <2> QED BY <1>2, <2>4, <2>5, <2>6, <2>7, <2>8
          DEF Fail, IInv, TypeOK, CountersInv, queueVars, batchVars, acceptVars
<1>3. ASSUME NEW r \in Runs, FinishRun(r) PROVE IInv'
  <2>1. /\ pending' \in [Runs -> Seq(Msgs)] /\ context' \in [Runs -> Seq(Entries)]
        /\ batch' \in [Runs -> Seq(Calls)]
    <3>1. <<>> \in Seq(Msgs) /\ <<>> \in Seq(Entries) /\ <<>> \in Seq(Calls)
      OBVIOUS
    <3>2. /\ pending' = [pending EXCEPT ![r] = <<>>] /\ context' = [context EXCEPT ![r] = <<>>]
          /\ batch' = [batch EXCEPT ![r] = <<>>]
      BY <1>3 DEF FinishRun
    <3> QED BY <3>1, <3>2 DEF IInv, TypeOK
  <2>2. /\ announced' \in [Runs -> Nat] /\ reported' \in [Runs -> Nat] /\ pc' \in [Runs -> PCs]
        /\ mode' \in [Runs -> {"none", "sequential", "parallel"}]
    BY <1>3 DEF FinishRun, IInv, TypeOK, PCs
  <2>3. isStreaming' \in BOOLEAN /\ pendingToolCalls' \in SUBSET Calls /\ activeRun' \in {0} \cup Runs
    BY <1>3 DEF FinishRun, ClearedToolCalls
  <2>4. CountersInv'
    BY <1>3 DEF FinishRun, IInv, TypeOK, CountersInv
  <2>5. TypeOK'
    BY <1>3, <2>1, <2>2, <2>3 DEF FinishRun, IInv, TypeOK, queueVars, callVars, acceptVars
  <2> QED BY <2>4, <2>5 DEF IInv
<1>4. ASSUME NEW c \in Calls, ToolEnds(c) PROVE IInv'
  <2>1. callState' \in [Calls -> States]
    BY <1>4 DEF ToolEnds, IInv, TypeOK
  <2>2. pendingToolCalls' \in SUBSET Calls
    BY <1>4 DEF ToolEnds, IInv, TypeOK
  <2> QED BY <1>4, <2>1, <2>2
          DEF ToolEnds, IInv, TypeOK, CountersInv, queueVars, loopVars, batchVars, acceptVars
<1>5. ASSUME NEW r \in Runs, EmitFailure(r) PROVE IInv'
  <2>1. transcript \in Seq(Entries) /\ \A x \in Entries : Append(transcript, x) \in Seq(Entries)
    BY DEF IInv, TypeOK
  <2>2. pc[r] \in {"error", "aborted"} => Answer(r, pc[r], <<>>) \in Entries
    <3>1. <<>> \in Seq(Calls)
      OBVIOUS
    <3> QED BY <3>1, EntryTypes
  <2>3. transcript' \in Seq(Entries)
    BY <1>5, <2>1, <2>2 DEF EmitFailure
  <2>4. pc' \in [Runs -> PCs]
    <3>1. {"failureMessage", "failureTurn", "failed"} \subseteq PCs
      BY DEF PCs, FailurePCs
    <3>2. \E p \in {"failureMessage", "failureTurn", "failed"} : pc' = [pc EXCEPT ![r] = p]
      BY <1>5 DEF EmitFailure
    <3> QED BY <3>1, <3>2 DEF IInv, TypeOK
  <2> QED BY <1>5, <2>3, <2>4
          DEF EmitFailure, IInv, TypeOK, CountersInv, queueVars, loopVars, batchVars, callVars,
              acceptVars
<1>6. ASSUME NEW r \in Runs, FailAgain(r) PROVE IInv'
  <2>1. pc' \in [Runs -> PCs]
    BY <1>6 DEF FailAgain, IInv, TypeOK, PCs
  <2> QED BY <1>6, <2>1
          DEF FailAgain, IInv, TypeOK, CountersInv, agentVars, queueVars, loopVars, batchVars,
              callVars, acceptVars
<1> QED BY <1>1, <1>2, <1>3, <1>4, <1>5, <1>6

\* Every step keeps the types.
LEMMA TypeInductive == IInv /\ [Next]_vars => IInv'
<1> SUFFICES ASSUME IInv, [Next]_vars PROVE IInv'
  OBVIOUS
<1>1. CASE Owner
  BY <1>1, OwnerType
<1>2. ASSUME NEW r \in Runs, RunStep(r) PROVE IInv'
  BY <1>2, TurnType, AnswerCallsType, BatchType, EndType DEF RunStep, Loop, Provider
<1>3. ASSUME NEW c \in Calls, ToolEnds(c) PROVE IInv'
  BY <1>3, EndType
<1>4. CASE UNCHANGED vars
  BY <1>4 DEF vars, IInv, TypeOK, CountersInv, agentVars, queueVars, loopVars, batchVars, callVars,
              acceptVars
<1> QED BY <1>1, <1>2, <1>3, <1>4 DEF Next, RunStep

\* The agent's state is well typed whatever the owner, the provider, the tools
\* and the listeners do.
THEOREM TypeCorrect == Spec => []TypeOK
<1>1. IInv => TypeOK
  BY DEF IInv
<1> QED BY <1>1, InitType, TypeInductive, PTL DEF Spec

-----------------------------------------------------------------------------
(* One run at a time.                                                      *)

\* Every step keeps the correspondence of activeRun and the runs under way:
\* only prompt() and continue() start a run, when none is active.
LEMMA SingleRunInductive == TypeOK /\ SingleRun /\ [Next]_vars => SingleRun'
<1> SUFFICES ASSUME TypeOK, SingleRun, [Next]_vars PROVE SingleRun'
  OBVIOUS
<1>1. ASSUME NEW msgs, NEW skip, StartRun(msgs, skip) PROVE SingleRun'
  BY <1>1 DEF StartRun, Idle, TypeOK, SingleRun, Runs
<1>2. CASE Owner
  <2>1. CASE (\E m \in Msgs : Prompt(m)) \/ Continue
    BY <1>1, <2>1 DEF Prompt, Continue
  <2>2. CASE UNCHANGED <<activeRun, pc>>
    BY <2>2 DEF SingleRun
  <2> QED BY <1>2, <2>1, <2>2
          DEF Owner, Steer, FollowUp, ClearSteeringQueue, ClearFollowUpQueue, Abort, Reset
<1>3. ASSUME NEW r \in Runs, RunStep(r), ~ FinishRun(r) PROVE SingleRun'
  <2>1. pc[r] # "off" /\ activeRun' = activeRun
    BY <1>3 DEF RunStep, Loop, Provider, Inject, FirstPoll, CallProvider, PrepareCall, BetweenCalls,
                LaunchAll, Join, Report, CloseBatch, Poll, AnswerFails, AnswerText, AnswerCalls,
                Fail, EmitFailure, FailAgain, FailurePCs
  <2>2. pc' = [pc EXCEPT ![r] = pc'[r]] /\ pc'[r] # "off"
    BY <1>3, <2>1
    DEF TypeOK, RunStep, Loop, Provider, Inject, FirstPoll, CallProvider, PrepareCall, LaunchAll,
        Join, Report, CloseBatch, Poll, AnswerFails, AnswerText, AnswerCalls, Fail, EmitFailure,
        FailAgain
  <2> QED BY <2>1, <2>2 DEF SingleRun, TypeOK
<1>4. ASSUME NEW r \in Runs, FinishRun(r) PROVE SingleRun'
  BY <1>4 DEF FinishRun, SingleRun, TypeOK, Runs
<1>5. ASSUME NEW c \in Calls, ToolEnds(c) PROVE SingleRun'
  BY <1>5 DEF ToolEnds, SingleRun
<1>6. CASE UNCHANGED vars
  BY <1>6 DEF vars, SingleRun
<1> QED BY <1>2, <1>3, <1>4, <1>5, <1>6 DEF Next, RunStep

\* prompt() and continue() never start a second loop while a run is under way,
\* its agent_end listeners included.
THEOREM SingleRunHolds == Spec => []SingleRun
<1>1. Init => SingleRun
  BY DEF Init, SingleRun, Runs
<1> QED BY <1>1, TypeCorrect, SingleRunInductive, PTL DEF Spec

-----------------------------------------------------------------------------
(* The order of messages.                                                  *)
(*                                                                         *)
(* l gives each message its lane, a its place in the order of acceptance.  *)

\* The messages of s that share a lane stand in the order of acceptance.
InOrder(l, a, s) == \A i, j \in DOMAIN s : i < j /\ l[s[i]] = l[s[j]] => a[s[i]] < a[s[j]]

\* Each message of s was accepted before the messages of t in its lane.
Before(l, a, s, t) == \A i \in DOMAIN s, j \in DOMAIN t : l[s[i]] = l[t[j]] => a[s[i]] < a[t[j]]

\* What drain() returns and what it leaves make up the queue.
LEMMA DrainSplits ==
  ASSUME NEW q \in Seq(Msgs), NEW m \in QueueModes
  PROVE  q = Taken(q, m) \o Left(q, m)
BY DEF Taken, Left

\* Nothing is out of order in an empty sequence or one of a single message.
LEMMA OrderOfFew ==
  ASSUME NEW l, NEW a, NEW s, NEW m
  PROVE  /\ InOrder(l, a, <<>>) /\ InOrder(l, a, <<m>>)
         /\ Before(l, a, <<>>, s) /\ Before(l, a, s, <<>>)
BY DEF InOrder, Before

\* A sequence is in order when its parts are, and one is before the other.
LEMMA OrderOfParts ==
  ASSUME NEW l, NEW a, NEW s \in Seq(Msgs), NEW t \in Seq(Msgs)
  PROVE  InOrder(l, a, s \o t) <=> InOrder(l, a, s) /\ InOrder(l, a, t) /\ Before(l, a, s, t)
<1>1. ASSUME InOrder(l, a, s \o t)
      PROVE  InOrder(l, a, s) /\ InOrder(l, a, t) /\ Before(l, a, s, t)
  <2>1. InOrder(l, a, s)
    BY <1>1 DEF InOrder
  <2>2. ASSUME NEW i \in DOMAIN t, NEW j \in DOMAIN t, i < j, l[t[i]] = l[t[j]]
        PROVE  a[t[i]] < a[t[j]]
    <3>1. /\ Len(s) + i \in DOMAIN (s \o t) /\ Len(s) + j \in DOMAIN (s \o t)
          /\ (s \o t)[Len(s) + i] = t[i] /\ (s \o t)[Len(s) + j] = t[j]
          /\ Len(s) + i < Len(s) + j
      BY <2>2
    <3> QED BY <1>1, <2>2, <3>1 DEF InOrder
  <2>3. ASSUME NEW i \in DOMAIN s, NEW j \in DOMAIN t, l[s[i]] = l[t[j]]
        PROVE  a[s[i]] < a[t[j]]
    <3>1. /\ i \in DOMAIN (s \o t) /\ Len(s) + j \in DOMAIN (s \o t)
          /\ (s \o t)[i] = s[i] /\ (s \o t)[Len(s) + j] = t[j]
          /\ i < Len(s) + j
      OBVIOUS
    <3> QED BY <1>1, <2>3, <3>1 DEF InOrder
  <2> QED BY <2>1, <2>2, <2>3 DEF InOrder, Before
<1>2. ASSUME InOrder(l, a, s), InOrder(l, a, t), Before(l, a, s, t)
      PROVE  InOrder(l, a, s \o t)
  <2> SUFFICES ASSUME NEW i \in DOMAIN (s \o t), NEW j \in DOMAIN (s \o t), i < j,
                      l[(s \o t)[i]] = l[(s \o t)[j]]
               PROVE  a[(s \o t)[i]] < a[(s \o t)[j]]
    BY DEF InOrder
  <2>1. CASE j <= Len(s)
    <3>1. i \in DOMAIN s /\ j \in DOMAIN s /\ (s \o t)[i] = s[i] /\ (s \o t)[j] = s[j]
      BY <2>1
    <3> QED BY <1>2, <3>1 DEF InOrder
  <2>2. CASE i > Len(s)
    <3>1. /\ i - Len(s) \in DOMAIN t /\ j - Len(s) \in DOMAIN t
          /\ (s \o t)[i] = t[i - Len(s)] /\ (s \o t)[j] = t[j - Len(s)]
          /\ i - Len(s) < j - Len(s)
      BY <2>2
    <3> QED BY <1>2, <3>1 DEF InOrder
  <2>3. CASE i <= Len(s) /\ j > Len(s)
    <3>1. /\ i \in DOMAIN s /\ j - Len(s) \in DOMAIN t
          /\ (s \o t)[i] = s[i] /\ (s \o t)[j] = t[j - Len(s)]
      BY <2>3
    <3> QED BY <1>2, <3>1 DEF Before
  <2> QED BY <2>1, <2>2, <2>3
<1> QED BY <1>1, <1>2

\* The parts of a sequence come before what the sequence comes before.
LEMMA BeforeOfParts ==
  ASSUME NEW l, NEW a, NEW s \in Seq(Msgs), NEW t \in Seq(Msgs), NEW u \in Seq(Msgs)
  PROVE  /\ Before(l, a, s \o t, u) <=> Before(l, a, s, u) /\ Before(l, a, t, u)
         /\ Before(l, a, u, s \o t) <=> Before(l, a, u, s) /\ Before(l, a, u, t)
<1>1. ASSUME NEW i \in DOMAIN s
      PROVE  i \in DOMAIN (s \o t) /\ (s \o t)[i] = s[i]
  OBVIOUS
<1>2. ASSUME NEW i \in DOMAIN t
      PROVE  Len(s) + i \in DOMAIN (s \o t) /\ (s \o t)[Len(s) + i] = t[i]
  OBVIOUS
<1>3. ASSUME NEW i \in DOMAIN (s \o t)
      PROVE  \/ i \in DOMAIN s /\ (s \o t)[i] = s[i]
             \/ i - Len(s) \in DOMAIN t /\ (s \o t)[i] = t[i - Len(s)]
  OBVIOUS
<1> DEFINE st == s \o t
           Part(i) == \/ i \in DOMAIN s /\ st[i] = s[i]
                      \/ i - Len(s) \in DOMAIN t /\ st[i] = t[i - Len(s)]
<1>4. \A i \in DOMAIN st : Part(i)
  BY <1>3
<1>5. /\ \A i \in DOMAIN s : i \in DOMAIN st /\ st[i] = s[i]
      /\ \A i \in DOMAIN t : Len(s) + i \in DOMAIN st /\ st[Len(s) + i] = t[i]
  BY <1>1, <1>2
<1> HIDE DEF st
<1>6. Before(l, a, st, u) <=> Before(l, a, s, u) /\ Before(l, a, t, u)
  <2>1. Before(l, a, st, u) => Before(l, a, s, u)
    BY <1>5 DEF Before
  <2>2. Before(l, a, st, u) => Before(l, a, t, u)
    BY <1>5 DEF Before
  <2>3. Before(l, a, s, u) /\ Before(l, a, t, u) => Before(l, a, st, u)
    BY <1>4 DEF Before
  <2> QED BY <2>1, <2>2, <2>3
<1>7. Before(l, a, u, st) <=> Before(l, a, u, s) /\ Before(l, a, u, t)
  <2>1. Before(l, a, u, st) => Before(l, a, u, s)
    BY <1>5 DEF Before
  <2>2. Before(l, a, u, st) => Before(l, a, u, t)
    BY <1>5 DEF Before
  <2>3. Before(l, a, u, s) /\ Before(l, a, u, t) => Before(l, a, u, st)
    BY <1>4 DEF Before
  <2> QED BY <2>1, <2>2, <2>3
<1> QED BY <1>6, <1>7 DEF st

\* Sequences of which one is before the other have no message in common.
LEMMA BeforeDisjoint ==
  ASSUME NEW l, NEW a \in [Msgs -> Nat], NEW s \in Seq(Msgs), NEW t \in Seq(Msgs),
         Before(l, a, s, t)
  PROVE  ToSet(s) \cap ToSet(t) = {}
<1> SUFFICES ASSUME NEW i \in DOMAIN s, NEW j \in DOMAIN t, s[i] = t[j] PROVE FALSE
  BY DEF ToSet
<1>1. a[s[i]] < a[t[j]] /\ s[i] \in Msgs
  BY DEF Before
<1> QED BY <1>1

\* Messages of different lanes are in order whatever their places are.
LEMMA BeforeOtherLane ==
  ASSUME NEW l, NEW a, NEW s \in Seq(Msgs), NEW t \in Seq(Msgs),
         \A m \in ToSet(s), n \in ToSet(t) : l[m] # l[n]
  PROVE  Before(l, a, s, t)
BY DEF Before, ToSet

\* A message accepted for the first time disturbs the order of no other ones.
LEMMA StampOthers ==
  ASSUME NEW L, NEW l \in [Msgs -> L], NEW a \in [Msgs -> Nat], NEW m, NEW x, NEW n,
         NEW s \in Seq(Msgs), NEW t \in Seq(Msgs), m \notin ToSet(s), m \notin ToSet(t)
  PROVE  /\ InOrder([l EXCEPT ![m] = x], [a EXCEPT ![m] = n], s) <=> InOrder(l, a, s)
         /\ Before([l EXCEPT ![m] = x], [a EXCEPT ![m] = n], s, t) <=> Before(l, a, s, t)
<1> DEFINE l2 == [l EXCEPT ![m] = x]
           a2 == [a EXCEPT ![m] = n]
<1>1. \A i \in DOMAIN s : l2[s[i]] = l[s[i]] /\ a2[s[i]] = a[s[i]]
  BY DEF ToSet
<1>2. \A i \in DOMAIN t : l2[t[i]] = l[t[i]] /\ a2[t[i]] = a[t[i]]
  BY DEF ToSet
<1> HIDE DEF l2, a2
<1>3. InOrder(l2, a2, s) <=> InOrder(l, a, s)
  BY <1>1 DEF InOrder
<1>4. Before(l2, a2, s, t) <=> Before(l, a, s, t)
  BY <1>1, <1>2 DEF Before
<1> QED BY <1>3, <1>4 DEF l2, a2

\* Each message has a lane from the moment it is accepted; a queue holds
\* messages of its own lane.
LaneInv ==
  /\ \A m \in Msgs : lane[m] # "none" => acceptedAt[m] <= accepted
  /\ \A m \in ToSet(steeringQueue) : lane[m] = "steering"
  /\ \A m \in ToSet(followUpQueue) : lane[m] = "followUp"
  /\ \A r \in Runs : \A m \in ToSet(pending[r]) : lane[m] # "none"
  /\ \A m \in ToSet(delivered) \cup discarded : lane[m] # "none"

\* A run holds drained messages only while it injects them.
PendingInv == \A r \in Runs : pc[r] \notin {"begin", "inject"} => pending[r] = <<>>

\* What is delivered comes before what a run holds, and that before the queues.
OrderInv ==
  /\ InOrder(lane, acceptedAt, delivered)
  /\ \A q \in {steeringQueue, followUpQueue} :
       InOrder(lane, acceptedAt, q) /\ Before(lane, acceptedAt, delivered, q)
  /\ \A r \in Runs :
       /\ InOrder(lane, acceptedAt, pending[r])
       /\ Before(lane, acceptedAt, delivered, pending[r])
       /\ \A q \in {steeringQueue, followUpQueue} : Before(lane, acceptedAt, pending[r], q)

MessageInv == LaneInv /\ PendingInv /\ OrderInv

\* A step that only drops messages, or none, keeps the order of the others.
LEMMA DropOrder ==
  ASSUME MessageInv, UNCHANGED <<acceptVars, delivered>>,
         steeringQueue' \in {steeringQueue, <<>>}, followUpQueue' \in {followUpQueue, <<>>},
         \A r \in Runs : pending'[r] = <<>> \/ (pending'[r] = pending[r] /\ pc'[r] = pc[r]),
         \A m \in discarded' : \/ m \in discarded
                               \/ m \in ToSet(steeringQueue) \/ m \in ToSet(followUpQueue)
                               \/ \E r \in Runs : m \in ToSet(pending[r])
  PROVE  MessageInv'
<1> USE DEF acceptVars
<1>1. ToSet(<<>>) = {}
  BY DEF ToSet
<1>2. LaneInv'
  <2>1. /\ ToSet(steeringQueue') \subseteq ToSet(steeringQueue)
        /\ ToSet(followUpQueue') \subseteq ToSet(followUpQueue)
        /\ \A r \in Runs : ToSet(pending'[r]) \subseteq ToSet(pending[r])
    BY <1>1
  <2>2. \A m \in discarded' : lane[m] # "none"
    BY DEF MessageInv, LaneInv
  <2> QED BY <2>1, <2>2 DEF MessageInv, LaneInv
<1>3. PendingInv'
  BY DEF MessageInv, PendingInv
<1>4. OrderInv'
  BY OrderOfFew DEF MessageInv, OrderInv
<1> QED BY <1>2, <1>3, <1>4 DEF MessageInv

\* The messages of a sequence and of its parts.
LEMMA ToSetOfParts ==
  ASSUME NEW s \in Seq(Msgs), NEW t \in Seq(Msgs)
  PROVE  ToSet(s \o t) = ToSet(s) \cup ToSet(t)
<1>1. ASSUME NEW i \in DOMAIN (s \o t)
      PROVE  (s \o t)[i] \in ToSet(s) \cup ToSet(t)
  <2>1. \/ i \in DOMAIN s /\ (s \o t)[i] = s[i]
        \/ i - Len(s) \in DOMAIN t /\ (s \o t)[i] = t[i - Len(s)]
    OBVIOUS
  <2> QED BY <2>1 DEF ToSet
<1>2. ASSUME NEW i \in DOMAIN s
      PROVE  s[i] \in ToSet(s \o t)
  <2>1. i \in DOMAIN (s \o t) /\ (s \o t)[i] = s[i]
    OBVIOUS
  <2> QED BY <2>1 DEF ToSet
<1>3. ASSUME NEW i \in DOMAIN t
      PROVE  t[i] \in ToSet(s \o t)
  <2>1. Len(s) + i \in DOMAIN (s \o t) /\ (s \o t)[Len(s) + i] = t[i]
    OBVIOUS
  <2> QED BY <2>1 DEF ToSet
<1> QED BY <1>1, <1>2, <1>3 DEF ToSet

\* The messages of short sequences, and of a queue that is drained.
LEMMA ToSetOfFew ==
  ASSUME NEW m
  PROVE  ToSet(<<>>) = {} /\ ToSet(<<m>>) = {m}
BY DEF ToSet

LEMMA ToSetOfDrained ==
  ASSUME NEW q \in Seq(Msgs), NEW m \in QueueModes
  PROVE  ToSet(q) = ToSet(Taken(q, m)) \cup ToSet(Left(q, m))
BY DrainSplits, DrainType, ToSetOfParts

\* The types of the variables that hold messages.
LEMMA MessageTypes ==
  ASSUME IInv
  PROVE  /\ delivered \in Seq(Msgs) /\ steeringQueue \in Seq(Msgs) /\ followUpQueue \in Seq(Msgs)
         /\ pending \in [Runs -> Seq(Msgs)] /\ pc \in [Runs -> PCs]
         /\ lane \in [Msgs -> {"none", "prompt", "steering", "followUp"}]
         /\ acceptedAt \in [Msgs -> Nat] /\ accepted \in Nat
         /\ <<>> \in Seq(Msgs) /\ \A m \in Msgs : <<m>> \in Seq(Msgs)
BY DEF IInv, TypeOK

\* Messages of s were accepted in the past.
Known(s) == \A m \in ToSet(s) : lane[m] # "none"

\* Accepting a message puts it behind all known ones and changes nothing for them.
LEMMA AcceptedLast ==
  ASSUME IInv, LaneInv, NEW m \in Msgs,
         NEW x \in {"prompt", "steering", "followUp"}, Accepted(m, x),
         NEW s \in Seq(Msgs), Known(s)
  PROVE  /\ InOrder(lane', acceptedAt', s) <=> InOrder(lane, acceptedAt, s)
         /\ \A t \in Seq(Msgs) : Known(t) =>
              (Before(lane', acceptedAt', s, t) <=> Before(lane, acceptedAt, s, t))
         /\ Before(lane', acceptedAt', s, <<m>>)
         /\ \A y \in ToSet(s) : lane'[y] = lane[y]
<1>1. /\ lane' = [lane EXCEPT ![m] = x] /\ acceptedAt' = [acceptedAt EXCEPT ![m] = accepted + 1]
      /\ lane[m] = "none"
  BY DEF Accepted
<1>2. m \notin ToSet(s)
  BY <1>1 DEF Known
<1>3. InOrder(lane', acceptedAt', s) <=> InOrder(lane, acceptedAt, s)
  BY <1>1, <1>2, StampOthers, MessageTypes
<1>4. ASSUME NEW t \in Seq(Msgs), Known(t)
      PROVE  Before(lane', acceptedAt', s, t) <=> Before(lane, acceptedAt, s, t)
  <2>1. m \notin ToSet(t)
    BY <1>1, <1>4 DEF Known
  <2> QED BY <1>1, <1>2, <2>1, StampOthers, MessageTypes
<1>5. Before(lane', acceptedAt', s, <<m>>)
  <2> SUFFICES ASSUME NEW i \in DOMAIN s PROVE acceptedAt'[s[i]] < acceptedAt'[m]
    BY DEF Before
  <2>1. s[i] \in ToSet(s) /\ s[i] \in Msgs
    BY DEF ToSet
  <2>2. s[i] # m /\ acceptedAt[s[i]] <= accepted
    BY <1>2, <2>1 DEF Known, LaneInv
  <2> QED BY <1>1, <2>1, <2>2, MessageTypes
<1>6. \A y \in ToSet(s) : lane'[y] = lane[y]
  BY <1>1, <1>2, ToSetType, MessageTypes
<1> QED BY <1>3, <1>4, <1>5, <1>6

\* All messages the agent has seen are known.
LEMMA AllKnown ==
  ASSUME LaneInv
  PROVE  /\ Known(delivered) /\ Known(steeringQueue) /\ Known(followUpQueue)
         /\ \A r \in Runs : Known(pending[r])
BY DEF LaneInv, Known

\* The bound on the places of known messages grows with the number of them.
LEMMA AcceptedBound ==
  ASSUME IInv, LaneInv, NEW m \in Msgs,
         NEW x \in {"prompt", "steering", "followUp"}, Accepted(m, x)
  PROVE  /\ \A y \in Msgs : lane'[y] # "none" => acceptedAt'[y] <= accepted'
         /\ lane'[m] = x /\ \A y \in Msgs : lane[y] # "none" => lane'[y] = lane[y]
BY MessageTypes DEF Accepted, LaneInv

\* steer() keeps the order of messages.
LEMMA SteerOrder ==
  ASSUME IInv, MessageInv, NEW m \in Msgs, Steer(m)
  PROVE  MessageInv'
<1>1. /\ Accepted(m, "steering") /\ steeringQueue' = steeringQueue \o <<m>>
      /\ UNCHANGED <<followUpQueue, pc, pending, delivered, discarded>>
  BY MessageTypes DEF Steer, loopVars
<1>2. LaneInv /\ PendingInv /\ OrderInv
  BY DEF MessageInv
<1>3. LaneInv'
  <2>1. ToSet(steeringQueue') = ToSet(steeringQueue) \cup {m}
    <3>1. ToSet(steeringQueue \o <<m>>) = ToSet(steeringQueue) \cup ToSet(<<m>>)
      BY MessageTypes, ToSetOfParts
    <3> QED BY <1>1, <3>1, ToSetOfFew
  <2>2. /\ ToSet(steeringQueue) \subseteq Msgs /\ ToSet(followUpQueue) \subseteq Msgs
        /\ ToSet(delivered) \subseteq Msgs /\ discarded \subseteq Msgs
        /\ \A r \in Runs : ToSet(pending[r]) \subseteq Msgs
    BY MessageTypes, ToSetType DEF IInv, TypeOK
  <2> QED BY <1>1, <1>2, <2>1, <2>2, AcceptedBound DEF LaneInv
<1>4. PendingInv'
  BY <1>1, <1>2 DEF PendingInv
<1>5. OrderInv'
  <2> DEFINE Q == steeringQueue \o <<m>>
  <2>1. ASSUME NEW s \in Seq(Msgs), Known(s), Before(lane, acceptedAt, s, steeringQueue)
        PROVE  Before(lane', acceptedAt', s, Q)
    <3>1. Before(lane', acceptedAt', s, steeringQueue) /\ Before(lane', acceptedAt', s, <<m>>)
      BY <1>1, <1>2, <2>1, AcceptedLast, AllKnown, MessageTypes
    <3> QED BY <3>1, BeforeOfParts, MessageTypes
  <2>2. InOrder(lane', acceptedAt', Q)
    <3>1. /\ InOrder(lane', acceptedAt', steeringQueue)
          /\ Before(lane', acceptedAt', steeringQueue, <<m>>)
      BY <1>1, <1>2, AcceptedLast, AllKnown, MessageTypes DEF OrderInv
    <3> QED BY <3>1, OrderOfParts, OrderOfFew, MessageTypes
  <2> HIDE DEF Q
  <2>3. /\ InOrder(lane', acceptedAt', delivered) /\ InOrder(lane', acceptedAt', followUpQueue)
        /\ Before(lane', acceptedAt', delivered, followUpQueue)
        /\ Before(lane', acceptedAt', delivered, Q)
    BY <1>1, <1>2, <2>1, AcceptedLast, AllKnown, MessageTypes DEF OrderInv
  <2>4. ASSUME NEW r \in Runs
        PROVE  /\ InOrder(lane', acceptedAt', pending[r])
               /\ Before(lane', acceptedAt', delivered, pending[r])
               /\ Before(lane', acceptedAt', pending[r], followUpQueue)
               /\ Before(lane', acceptedAt', pending[r], Q)
    <3>1. pending[r] \in Seq(Msgs) /\ Known(pending[r])
      BY <1>2, AllKnown, MessageTypes
    <3> QED BY <1>1, <1>2, <2>1, <3>1, AcceptedLast, AllKnown, MessageTypes DEF OrderInv
  <2> QED BY <1>1, <2>2, <2>3, <2>4 DEF OrderInv, Q
<1> QED BY <1>3, <1>4, <1>5 DEF MessageInv

\* followUp() keeps the order of messages.
LEMMA FollowUpOrder ==
  ASSUME IInv, MessageInv, NEW m \in Msgs, FollowUp(m)
  PROVE  MessageInv'
<1>1. /\ Accepted(m, "followUp") /\ followUpQueue' = followUpQueue \o <<m>>
      /\ UNCHANGED <<steeringQueue, pc, pending, delivered, discarded>>
  BY MessageTypes DEF FollowUp, loopVars
<1>2. LaneInv /\ PendingInv /\ OrderInv
  BY DEF MessageInv
<1>3. LaneInv'
  <2>1. ToSet(followUpQueue') = ToSet(followUpQueue) \cup {m}
    <3>1. ToSet(followUpQueue \o <<m>>) = ToSet(followUpQueue) \cup ToSet(<<m>>)
      BY MessageTypes, ToSetOfParts
    <3> QED BY <1>1, <3>1, ToSetOfFew
  <2>2. /\ ToSet(followUpQueue) \subseteq Msgs /\ ToSet(steeringQueue) \subseteq Msgs
        /\ ToSet(delivered) \subseteq Msgs /\ discarded \subseteq Msgs
        /\ \A r \in Runs : ToSet(pending[r]) \subseteq Msgs
    BY MessageTypes, ToSetType DEF IInv, TypeOK
  <2> QED BY <1>1, <1>2, <2>1, <2>2, AcceptedBound DEF LaneInv
<1>4. PendingInv'
  BY <1>1, <1>2 DEF PendingInv
<1>5. OrderInv'
  <2> DEFINE Q == followUpQueue \o <<m>>
  <2>1. ASSUME NEW s \in Seq(Msgs), Known(s), Before(lane, acceptedAt, s, followUpQueue)
        PROVE  Before(lane', acceptedAt', s, Q)
    <3>1. Before(lane', acceptedAt', s, followUpQueue) /\ Before(lane', acceptedAt', s, <<m>>)
      BY <1>1, <1>2, <2>1, AcceptedLast, AllKnown, MessageTypes
    <3> QED BY <3>1, BeforeOfParts, MessageTypes
  <2>2. InOrder(lane', acceptedAt', Q)
    <3>1. /\ InOrder(lane', acceptedAt', followUpQueue)
          /\ Before(lane', acceptedAt', followUpQueue, <<m>>)
      BY <1>1, <1>2, AcceptedLast, AllKnown, MessageTypes DEF OrderInv
    <3> QED BY <3>1, OrderOfParts, OrderOfFew, MessageTypes
  <2> HIDE DEF Q
  <2>3. /\ InOrder(lane', acceptedAt', delivered) /\ InOrder(lane', acceptedAt', steeringQueue)
        /\ Before(lane', acceptedAt', delivered, steeringQueue)
        /\ Before(lane', acceptedAt', delivered, Q)
    BY <1>1, <1>2, <2>1, AcceptedLast, AllKnown, MessageTypes DEF OrderInv
  <2>4. ASSUME NEW r \in Runs
        PROVE  /\ InOrder(lane', acceptedAt', pending[r])
               /\ Before(lane', acceptedAt', delivered, pending[r])
               /\ Before(lane', acceptedAt', pending[r], steeringQueue)
               /\ Before(lane', acceptedAt', pending[r], Q)
    <3>1. pending[r] \in Seq(Msgs) /\ Known(pending[r])
      BY <1>2, AllKnown, MessageTypes
    <3> QED BY <1>1, <1>2, <2>1, <3>1, AcceptedLast, AllKnown, MessageTypes DEF OrderInv
  <2> QED BY <1>1, <2>2, <2>3, <2>4 DEF OrderInv, Q
<1> QED BY <1>3, <1>4, <1>5 DEF MessageInv

\* Runs that are not under way hold no messages.
LEMMA OthersHoldNothing ==
  ASSUME IInv, SingleRun, PendingInv, NEW r \in Runs, Idle \/ pc[r] # "off"
  PROVE  \A q \in Runs : q # r => pending[q] = <<>>
<1>1. \A q \in Runs : pc[q] # "off" <=> q = activeRun
  BY DEF SingleRun
<1>2. \A q \in Runs : q # 0
  BY DEF Runs
<1>3. \A q \in Runs : q # r => pc[q] = "off"
  BY <1>1, <1>2 DEF Idle
<1> QED BY <1>3 DEF PendingInv

\* The messages a run drains from a queue come behind those delivered and before
\* those left; the other queue holds messages of another lane.
LEMMA DrainedOrder ==
  ASSUME IInv, LaneInv, OrderInv, NEW q \in {steeringQueue, followUpQueue}, NEW m \in QueueModes
  PROVE  /\ InOrder(lane, acceptedAt, Taken(q, m)) /\ InOrder(lane, acceptedAt, Left(q, m))
         /\ Before(lane, acceptedAt, Taken(q, m), Left(q, m))
         /\ Before(lane, acceptedAt, delivered, Taken(q, m))
         /\ Before(lane, acceptedAt, delivered, Left(q, m))
         /\ q = steeringQueue => Before(lane, acceptedAt, Taken(q, m), followUpQueue)
         /\ q = followUpQueue => Before(lane, acceptedAt, Taken(q, m), steeringQueue)
<1> DEFINE T == Taken(q, m)
           R == Left(q, m)
<1>1. T \in Seq(Msgs) /\ R \in Seq(Msgs) /\ q = T \o R /\ q \in Seq(Msgs)
  BY DrainType, DrainSplits, MessageTypes
<1>2. ToSet(T) \subseteq ToSet(q)
  BY ToSetOfDrained, MessageTypes
<1> HIDE DEF T, R
<1>3. InOrder(lane, acceptedAt, T \o R) /\ Before(lane, acceptedAt, delivered, T \o R)
  BY <1>1 DEF OrderInv
<1>4. /\ InOrder(lane, acceptedAt, T) /\ InOrder(lane, acceptedAt, R)
      /\ Before(lane, acceptedAt, T, R)
  BY <1>1, <1>3, OrderOfParts
<1>5. Before(lane, acceptedAt, delivered, T) /\ Before(lane, acceptedAt, delivered, R)
  BY <1>1, <1>3, BeforeOfParts, MessageTypes
<1>6. q = steeringQueue => Before(lane, acceptedAt, T, followUpQueue)
  <2> SUFFICES ASSUME q = steeringQueue PROVE Before(lane, acceptedAt, T, followUpQueue)
    OBVIOUS
  <2>1. \A x \in ToSet(T) : lane[x] = "steering"
    BY <1>2 DEF LaneInv
  <2>2. \A x \in ToSet(T), y \in ToSet(followUpQueue) : lane[x] # lane[y]
    BY <2>1 DEF LaneInv
  <2> QED BY <1>1, <2>2, BeforeOtherLane, MessageTypes
<1>7. q = followUpQueue => Before(lane, acceptedAt, T, steeringQueue)
  <2> SUFFICES ASSUME q = followUpQueue PROVE Before(lane, acceptedAt, T, steeringQueue)
    OBVIOUS
  <2>1. \A x \in ToSet(T) : lane[x] = "followUp"
    BY <1>2 DEF LaneInv
  <2>2. \A x \in ToSet(T), y \in ToSet(steeringQueue) : lane[x] # lane[y]
    BY <2>1 DEF LaneInv
  <2> QED BY <1>1, <2>2, BeforeOtherLane, MessageTypes
<1> QED BY <1>4, <1>5, <1>6, <1>7 DEF T, R

\* A run that drains a queue: poll, or continue().
Drains(r) ==
  \/ /\ pending' = [pending EXCEPT ![r] = Taken(steeringQueue, SteeringMode)]
     /\ steeringQueue' = Left(steeringQueue, SteeringMode)
     /\ UNCHANGED followUpQueue
  \/ /\ pending' = [pending EXCEPT ![r] = Taken(followUpQueue, FollowUpMode)]
     /\ followUpQueue' = Left(followUpQueue, FollowUpMode)
     /\ UNCHANGED steeringQueue

\* Draining a queue keeps the order of messages when no other run holds any.
LEMMA DrainOrder ==
  ASSUME IInv, MessageInv, NEW r \in Runs, \A q \in Runs : q # r => pending[q] = <<>>,
         UNCHANGED <<acceptVars, delivered, discarded>>, Drains(r)
  PROVE  LaneInv' /\ OrderInv'
<1> USE ModesAssumption DEF acceptVars
<1>1. LaneInv /\ OrderInv
  BY DEF MessageInv
<1>2. \A q \in Runs : q # r => pending'[q] = <<>>
  BY MessageTypes DEF Drains
<1>3. ASSUME NEW T, pending' = [pending EXCEPT ![r] = T],
             \A m \in ToSet(T) : lane[m] # "none",
             ToSet(steeringQueue') \subseteq ToSet(steeringQueue),
             ToSet(followUpQueue') \subseteq ToSet(followUpQueue)
      PROVE  LaneInv'
  <2>1. pending'[r] = T
    BY <1>3, MessageTypes
  <2>2. \A q \in Runs : \A m \in ToSet(pending'[q]) : lane[m] # "none"
    BY <1>2, <1>3, <2>1, ToSetOfFew
  <2> QED BY <1>1, <1>3, <2>2 DEF LaneInv
<1>4. ASSUME NEW T, pending' = [pending EXCEPT ![r] = T],
             InOrder(lane, acceptedAt, T), Before(lane, acceptedAt, delivered, T),
             \A q \in {steeringQueue', followUpQueue'} :
               /\ InOrder(lane, acceptedAt, q) /\ Before(lane, acceptedAt, delivered, q)
               /\ Before(lane, acceptedAt, T, q)
      PROVE  OrderInv'
  <2>1. pending'[r] = T
    BY <1>4, MessageTypes
  <2> QED BY <1>1, <1>2, <1>4, <2>1, OrderOfFew DEF OrderInv
<1>5. CASE /\ pending' = [pending EXCEPT ![r] = Taken(steeringQueue, SteeringMode)]
           /\ steeringQueue' = Left(steeringQueue, SteeringMode)
           /\ UNCHANGED followUpQueue
  <2>1. /\ ToSet(Taken(steeringQueue, SteeringMode)) \subseteq ToSet(steeringQueue)
        /\ ToSet(Left(steeringQueue, SteeringMode)) \subseteq ToSet(steeringQueue)
    BY ToSetOfDrained, MessageTypes
  <2>2. LaneInv'
    BY <1>1, <1>3, <1>5, <2>1 DEF LaneInv
  <2>3. OrderInv'
    <3>1. InOrder(lane, acceptedAt, followUpQueue) /\ Before(lane, acceptedAt, delivered, followUpQueue)
      BY <1>1 DEF OrderInv
    <3> QED BY <1>1, <1>4, <1>5, <3>1, DrainedOrder
  <2> QED BY <2>2, <2>3
<1>6. CASE /\ pending' = [pending EXCEPT ![r] = Taken(followUpQueue, FollowUpMode)]
           /\ followUpQueue' = Left(followUpQueue, FollowUpMode)
           /\ UNCHANGED steeringQueue
  <2>1. /\ ToSet(Taken(followUpQueue, FollowUpMode)) \subseteq ToSet(followUpQueue)
        /\ ToSet(Left(followUpQueue, FollowUpMode)) \subseteq ToSet(followUpQueue)
    BY ToSetOfDrained, MessageTypes
  <2>2. LaneInv'
    BY <1>1, <1>3, <1>6, <2>1 DEF LaneInv
  <2>3. OrderInv'
    <3>1. InOrder(lane, acceptedAt, steeringQueue) /\ Before(lane, acceptedAt, delivered, steeringQueue)
      BY <1>1 DEF OrderInv
    <3> QED BY <1>1, <1>4, <1>6, <3>1, DrainedOrder
  <2> QED BY <2>2, <2>3
<1> QED BY <1>5, <1>6 DEF Drains

\* The calls of the owner keep the order of messages.
LEMMA OwnerOrder ==
  ASSUME IInv, SingleRun, MessageInv, Owner
  PROVE  MessageInv'
<1> USE ModesAssumption
<1>1. ASSUME NEW m \in Msgs, Steer(m) \/ FollowUp(m) PROVE MessageInv'
  BY <1>1, SteerOrder, FollowUpOrder
<1>2. ASSUME NEW msgs, NEW skip, StartRun(msgs, skip)
      PROVE  /\ runs + 1 \in Runs /\ \A q \in Runs : q # runs + 1 => pending[q] = <<>>
             /\ pending' = [pending EXCEPT ![runs + 1] = msgs]
             /\ pc' = [pc EXCEPT ![runs + 1] = "begin"]
             /\ UNCHANGED <<delivered, discarded>>
             /\ PendingInv'
  <2>1. runs + 1 \in Runs /\ Idle
    BY <1>2 DEF StartRun
  <2>2. \A q \in Runs : q # runs + 1 => pending[q] = <<>>
    BY <2>1, OthersHoldNothing DEF MessageInv
  <2>3. /\ pending' = [pending EXCEPT ![runs + 1] = msgs]
        /\ pc' = [pc EXCEPT ![runs + 1] = "begin"]
        /\ UNCHANGED <<delivered, discarded>>
    BY <1>2 DEF StartRun
  <2>4. PendingInv'
    BY <2>3, MessageTypes DEF MessageInv, PendingInv
  <2> QED BY <2>1, <2>2, <2>3, <2>4
<1>3. ASSUME NEW m \in Msgs, Prompt(m) PROVE MessageInv'
  <2> DEFINE r == runs + 1
  <2>1. /\ Accepted(m, "prompt") /\ StartRun(<<m>>, FALSE)
        /\ UNCHANGED <<steeringQueue, followUpQueue>>
    BY <1>3 DEF Prompt, queueVars
  <2>2. /\ r \in Runs /\ pending' = [pending EXCEPT ![r] = <<m>>]
        /\ \A q \in Runs : q # r => pending'[q] = <<>>
        /\ UNCHANGED <<delivered, discarded>> /\ PendingInv'
    BY <1>2, <2>1, MessageTypes
  <2> HIDE DEF r
  <2>3. pending'[r] = <<m>>
    BY <2>2, MessageTypes
  <2>4. LaneInv'
    <3>1. LaneInv
      BY DEF MessageInv
    <3>2. /\ ToSet(steeringQueue) \subseteq Msgs /\ ToSet(followUpQueue) \subseteq Msgs
          /\ ToSet(delivered) \subseteq Msgs /\ discarded \subseteq Msgs
      BY MessageTypes, ToSetType DEF IInv, TypeOK
    <3>3. /\ \A y \in Msgs : lane'[y] # "none" => acceptedAt'[y] <= accepted'
          /\ lane'[m] = "prompt" /\ \A y \in Msgs : lane[y] # "none" => lane'[y] = lane[y]
      BY <2>1, <3>1, AcceptedBound
    <3>4. \A q \in Runs : \A y \in ToSet(pending'[q]) : lane'[y] # "none"
      BY <2>2, <2>3, <3>3, ToSetOfFew
    <3> QED BY <2>1, <2>2, <3>1, <3>2, <3>3, <3>4 DEF LaneInv
  <2>5. OrderInv'
    <3>1. LaneInv /\ OrderInv
      BY DEF MessageInv
    <3>2. lane'[m] = "prompt"
      BY <2>1, <3>1, AcceptedBound
    <3>3. ASSUME NEW q \in {steeringQueue, followUpQueue}
          PROVE  /\ InOrder(lane', acceptedAt', q) /\ Before(lane', acceptedAt', delivered, q)
                 /\ Before(lane', acceptedAt', <<m>>, q)
      <4>1. q \in Seq(Msgs) /\ Known(q) /\ \A y \in ToSet(q) : lane[y] \in {"steering", "followUp"}
        BY <3>1, AllKnown, MessageTypes DEF LaneInv
      <4>2. /\ InOrder(lane', acceptedAt', q) /\ Before(lane', acceptedAt', delivered, q)
            /\ \A y \in ToSet(q) : lane'[y] = lane[y]
        BY <2>1, <3>1, <4>1, AcceptedLast, AllKnown, MessageTypes DEF OrderInv
      <4>3. \A x \in ToSet(<<m>>), y \in ToSet(q) : lane'[x] # lane'[y]
        BY <3>2, <4>1, <4>2, ToSetOfFew
      <4> QED BY <4>1, <4>2, <4>3, BeforeOtherLane, MessageTypes
    <3>4. InOrder(lane', acceptedAt', delivered) /\ Before(lane', acceptedAt', delivered, <<m>>)
      BY <2>1, <3>1, AcceptedLast, AllKnown, MessageTypes DEF OrderInv
    <3> QED BY <2>1, <2>2, <2>3, <3>3, <3>4, OrderOfFew DEF OrderInv
  <2> QED BY <2>2, <2>4, <2>5 DEF MessageInv
<1>4. CASE Continue
  <2>1. UNCHANGED acceptVars
    BY <1>4 DEF Continue
  <2>2. CASE StartRun(<<>>, FALSE) /\ UNCHANGED queueVars
    <3>1. /\ runs + 1 \in Runs /\ \A q \in Runs : q # runs + 1 => pending[q] = <<>>
          /\ pending' = [pending EXCEPT ![runs + 1] = <<>>]
          /\ UNCHANGED <<delivered, discarded>>
      BY <1>2, <2>2
    <3>2. \A q \in Runs : pending'[q] = <<>>
      BY <3>1, MessageTypes
    <3>3. /\ steeringQueue' \in {steeringQueue, <<>>} /\ followUpQueue' \in {followUpQueue, <<>>}
          /\ UNCHANGED <<acceptVars, delivered>> /\ discarded' = discarded
      BY <2>1, <2>2, <3>1 DEF queueVars
    <3> QED BY <3>2, <3>3, DropOrder
  <2>3. ASSUME NEW msgs, NEW skip, StartRun(msgs, skip),
               \/ /\ msgs = Taken(steeringQueue, SteeringMode)
                  /\ steeringQueue' = Left(steeringQueue, SteeringMode)
                  /\ UNCHANGED followUpQueue
               \/ /\ msgs = Taken(followUpQueue, FollowUpMode)
                  /\ followUpQueue' = Left(followUpQueue, FollowUpMode)
                  /\ UNCHANGED steeringQueue
        PROVE  MessageInv'
    <3>1. /\ runs + 1 \in Runs /\ \A q \in Runs : q # runs + 1 => pending[q] = <<>>
          /\ UNCHANGED <<delivered, discarded>> /\ PendingInv' /\ Drains(runs + 1)
      BY <1>2, <2>3 DEF Drains
    <3>2. LaneInv' /\ OrderInv'
      BY <2>1, <3>1, DrainOrder
    <3> QED BY <3>1, <3>2 DEF MessageInv
  <2> QED BY <1>4, <2>2, <2>3 DEF Continue
<1>5. CASE ClearSteeringQueue
  BY <1>5, DropOrder DEF ClearSteeringQueue, acceptVars, loopVars
<1>6. CASE ClearFollowUpQueue
  BY <1>6, DropOrder DEF ClearFollowUpQueue, acceptVars, loopVars
<1>7. CASE Abort
  BY <1>7, DropOrder DEF Abort, acceptVars, loopVars, queueVars
<1>8. CASE Reset
  BY <1>8, DropOrder DEF Reset, acceptVars, loopVars
<1> QED BY <1>1, <1>3, <1>4, <1>5, <1>6, <1>7, <1>8 DEF Owner

\* The steps of a run keep the order of messages.
LEMMA RunOrder ==
  ASSUME IInv, SingleRun, MessageInv, NEW r \in Runs, RunStep(r)
  PROVE  MessageInv'
<1> USE ModesAssumption
<1>1. LaneInv /\ PendingInv /\ OrderInv
  BY DEF MessageInv
<1>2. ASSUME pc[r] # "off"
      PROVE  \A q \in Runs : q # r => pending[q] = <<>>
  BY <1>1, <1>2, OthersHoldNothing
<1>3. ASSUME UNCHANGED <<queueVars, acceptVars, pending, delivered, discarded>>,
             pc[r] \notin {"begin", "inject"} \/ pending[r] = <<>>,
             \A q \in Runs : q # r => pc'[q] = pc[q]
      PROVE  MessageInv'
  <2>1. pending[r] = <<>>
    BY <1>1, <1>3 DEF PendingInv
  <2>2. \A q \in Runs : pending'[q] = <<>> \/ (pending'[q] = pending[q] /\ pc'[q] = pc[q])
    BY <1>3, <2>1 DEF queueVars, acceptVars
  <2>3. /\ UNCHANGED <<acceptVars, delivered>> /\ discarded' = discarded
        /\ steeringQueue' \in {steeringQueue, <<>>} /\ followUpQueue' \in {followUpQueue, <<>>}
    BY <1>3 DEF queueVars
  <2> QED BY <2>2, <2>3, DropOrder
<1>4. CASE Inject(r)
  <2> DEFINE m == Head(pending[r])
             rest == Tail(pending[r])
  <2>1. /\ pc[r] \in {"begin", "inject"} /\ pending[r] # <<>>
        /\ delivered' = Append(delivered, m)
        /\ pending' = [pending EXCEPT ![r] = rest]
        /\ UNCHANGED <<queueVars, acceptVars, pc, discarded>>
    BY <1>4 DEF Inject
  <2>2. /\ m \in Msgs /\ rest \in Seq(Msgs) /\ pending[r] = <<m>> \o rest
        /\ delivered' = delivered \o <<m>>
    <3>1. pending[r] \in Seq(Msgs) /\ pending[r] # <<>> /\ delivered \in Seq(Msgs)
      BY <2>1, MessageTypes
    <3>2. m \in Msgs /\ rest \in Seq(Msgs) /\ pending[r] = <<m>> \o rest
      BY <3>1
    <3>3. Append(delivered, m) = delivered \o <<m>>
      BY <3>1, <3>2
    <3> QED BY <2>1, <3>2, <3>3
  <2> HIDE DEF m, rest
  <2>3. pending'[r] = rest /\ \A q \in Runs : q # r => pending'[q] = <<>>
    BY <1>2, <2>1, MessageTypes
  <2>4. ToSet(pending[r]) = {m} \cup ToSet(rest) /\ ToSet(delivered') = ToSet(delivered) \cup {m}
    <3>1. <<m>> \in Seq(Msgs) /\ ToSet(<<m>>) = {m}
      BY <2>2, ToSetOfFew
    <3>2. ToSet(<<m>> \o rest) = ToSet(<<m>>) \cup ToSet(rest)
      BY <2>2, <3>1, ToSetOfParts
    <3>3. ToSet(delivered \o <<m>>) = ToSet(delivered) \cup ToSet(<<m>>)
      BY <3>1, ToSetOfParts, MessageTypes
    <3> QED BY <2>2, <3>1, <3>2, <3>3
  <2>5. LaneInv'
    <3>1. \A q \in Runs : \A y \in ToSet(pending'[q]) : lane[y] # "none"
      BY <1>1, <2>3, <2>4, ToSetOfFew DEF LaneInv
    <3> QED BY <1>1, <2>1, <2>4, <3>1 DEF LaneInv, queueVars, acceptVars
  <2>6. PendingInv'
    BY <1>1, <2>1, <2>3 DEF PendingInv
  <2>7. OrderInv'
    <3>1. <<m>> \in Seq(Msgs)
      BY <2>2
    <3>2. /\ InOrder(lane, acceptedAt, <<m>> \o rest)
          /\ Before(lane, acceptedAt, delivered, <<m>> \o rest)
          /\ \A q \in {steeringQueue, followUpQueue} : Before(lane, acceptedAt, <<m>> \o rest, q)
      BY <1>1, <2>2 DEF OrderInv
    <3>3. /\ InOrder(lane, acceptedAt, rest) /\ Before(lane, acceptedAt, <<m>>, rest)
          /\ Before(lane, acceptedAt, delivered, <<m>>) /\ Before(lane, acceptedAt, delivered, rest)
      BY <2>2, <3>1, <3>2, OrderOfParts, BeforeOfParts, MessageTypes
    <3>4. \A q \in {steeringQueue, followUpQueue} :
            /\ q \in Seq(Msgs)
            /\ Before(lane, acceptedAt, <<m>>, q) /\ Before(lane, acceptedAt, rest, q)
      BY <2>2, <3>1, <3>2, BeforeOfParts, MessageTypes
    <3>5. InOrder(lane, acceptedAt, delivered \o <<m>>)
      BY <1>1, <3>1, <3>3, OrderOfParts, OrderOfFew, MessageTypes DEF OrderInv
    <3>6. \A q \in {steeringQueue, followUpQueue} :
            /\ InOrder(lane, acceptedAt, q) /\ Before(lane, acceptedAt, delivered \o <<m>>, q)
      BY <1>1, <3>1, <3>4, BeforeOfParts, MessageTypes DEF OrderInv
    <3>7. Before(lane, acceptedAt, delivered \o <<m>>, rest)
      BY <2>2, <3>1, <3>3, BeforeOfParts, MessageTypes
    <3>8. \A q \in Runs : pending'[q] = <<>> \/ pending'[q] = rest
      BY <2>3
    <3>9. UNCHANGED <<lane, acceptedAt, steeringQueue, followUpQueue>>
      BY <2>1 DEF queueVars, acceptVars
    <3> QED BY <2>2, <3>3, <3>4, <3>5, <3>6, <3>7, <3>8, <3>9, OrderOfFew DEF OrderInv
  <2> QED BY <2>5, <2>6, <2>7 DEF MessageInv
<1>5. CASE FirstPoll(r)
  <2>1. /\ pc[r] = "begin" /\ pending[r] = <<>> /\ pc' = [pc EXCEPT ![r] = "inject"]
        /\ UNCHANGED <<acceptVars, delivered, discarded, followUpQueue>>
    BY <1>5 DEF FirstPoll
  <2>2. CASE skipPoll[r]
    <3>1. UNCHANGED <<pending, steeringQueue>>
      BY <1>5, <2>2 DEF FirstPoll
    <3>2. \A q \in Runs : pending'[q] = <<>>
      BY <1>2, <2>1, <3>1
    <3> QED BY <2>1, <3>1, <3>2, DropOrder
  <2>3. CASE ~ skipPoll[r]
    <3>1. Drains(r)
      BY <1>5, <2>1, <2>3 DEF FirstPoll, Drains
    <3>2. LaneInv' /\ OrderInv'
      BY <1>2, <2>1, <3>1, DrainOrder
    <3>3. PendingInv'
      BY <1>1, <2>1, <3>1, MessageTypes DEF PendingInv, Drains
    <3> QED BY <3>2, <3>3 DEF MessageInv
  <2> QED BY <2>2, <2>3
<1>6. CASE Poll(r)
  <2>1. /\ pc[r] = "turnEnd" /\ UNCHANGED <<acceptVars, delivered, discarded>>
        /\ Drains(r)
    BY <1>6 DEF Poll, Drains
  <2>2. LaneInv' /\ OrderInv'
    BY <1>2, <2>1, DrainOrder
  <2>3. PendingInv'
    <3>1. \A q \in Runs : q # r => pc'[q] = pc[q] /\ pending'[q] = pending[q]
      BY <1>6, <2>1, MessageTypes DEF Poll, Drains
    <3>2. pc'[r] = "inject" \/ pending'[r] = <<>>
      BY <1>6, <2>1, MessageTypes DEF Poll, Taken
    <3> QED BY <1>1, <3>1, <3>2 DEF PendingInv
  <2> QED BY <2>2, <2>3 DEF MessageInv
<1>7. CASE Fail(r)
  <2>1. /\ pending' = [pending EXCEPT ![r] = <<>>] /\ pc' = [pc EXCEPT ![r] = pc'[r]]
        /\ discarded' = discarded \cup ToSet(pending[r])
        /\ UNCHANGED <<queueVars, acceptVars, delivered>>
    BY <1>7, MessageTypes DEF Fail
  <2>2. \A q \in Runs : pending'[q] = <<>> \/ (pending'[q] = pending[q] /\ pc'[q] = pc[q])
    BY <2>1, MessageTypes
  <2> QED BY <2>1, <2>2, DropOrder DEF queueVars
<1>8. CASE FinishRun(r)
  <2>1. /\ pending' = [pending EXCEPT ![r] = <<>>] /\ pc' = [pc EXCEPT ![r] = "off"]
        /\ UNCHANGED <<queueVars, acceptVars, delivered, discarded>>
    BY <1>8 DEF FinishRun
  <2>2. \A q \in Runs : pending'[q] = <<>> \/ (pending'[q] = pending[q] /\ pc'[q] = pc[q])
    BY <2>1, MessageTypes
  <2> QED BY <2>1, <2>2, DropOrder DEF queueVars
<1>9. CASE CallProvider(r) \/ Provider(r)
  BY <1>3, <1>9, MessageTypes
  DEF CallProvider, Provider, AnswerFails, AnswerText, AnswerCalls, loopVars
<1>10. CASE PrepareCall(r) \/ LaunchAll(r) \/ Join(r) \/ Report(r) \/ CloseBatch(r)
  BY <1>3, <1>10, MessageTypes
  DEF PrepareCall, BetweenCalls, LaunchAll, Join, Report, CloseBatch, loopVars
<1>11. CASE EmitFailure(r) \/ FailAgain(r)
  BY <1>3, <1>11, MessageTypes DEF EmitFailure, FailAgain, FailurePCs, loopVars
<1> QED BY <1>4, <1>5, <1>6, <1>7, <1>8, <1>9, <1>10, <1>11 DEF RunStep, Loop

\* Every step keeps the order of messages.
LEMMA MessageInductive == IInv /\ SingleRun /\ MessageInv /\ [Next]_vars => MessageInv'
<1> SUFFICES ASSUME IInv, SingleRun, MessageInv, [Next]_vars PROVE MessageInv'
  OBVIOUS
<1>1. CASE Owner
  BY <1>1, OwnerOrder
<1>2. ASSUME NEW r \in Runs, RunStep(r) PROVE MessageInv'
  BY <1>2, RunOrder
<1>3. ASSUME NEW c \in Calls, ToolEnds(c) PROVE MessageInv'
  BY <1>3, DropOrder DEF ToolEnds, acceptVars, queueVars, loopVars
<1>4. CASE UNCHANGED vars
  BY <1>4, DropOrder DEF vars, acceptVars, queueVars, loopVars
<1> QED BY <1>1, <1>2, <1>3, <1>4 DEF Next, RunStep

\* The invariants of types, runs and messages, together.
RunInv == IInv /\ SingleRun /\ MessageInv

LEMMA RunInvInductive == (Init => RunInv) /\ (RunInv /\ [Next]_vars => RunInv')
<1>1. Init => RunInv
  <2> SUFFICES ASSUME Init PROVE RunInv
    OBVIOUS
  <2>1. SingleRun
    BY DEF Init, SingleRun, Runs
  <2>2. MessageInv
    BY OrderOfFew, ToSetOfFew DEF Init, MessageInv, LaneInv, PendingInv, OrderInv
  <2> QED BY <2>1, <2>2, InitType DEF RunInv
<1>2. RunInv /\ [Next]_vars => RunInv'
  BY TypeInductive, SingleRunInductive, MessageInductive DEF RunInv, IInv
<1> QED BY <1>1, <1>2

LEMMA RunInvHolds == Spec => []RunInv
BY RunInvInductive, PTL DEF Spec

\* Messages that are queued in the same way are injected in the order in which they
\* were queued: no poll, clear, reset or exception reorders or repeats them.
THEOREM QueueOrderHolds == Spec => []QueueOrder
<1>1. RunInv => QueueOrder
  BY DEF RunInv, MessageInv, OrderInv, InOrder, QueueOrder
<1> QED BY <1>1, RunInvHolds, PTL

\* What waits for a run waits in one place only, and the lanes keep the queues apart.
LEMMA WaitingApart ==
  ASSUME RunInv
  PROVE  /\ ToSet(steeringQueue) \cap ToSet(followUpQueue) = {}
         /\ \A r \in Runs : /\ ToSet(pending[r]) \cap ToSet(steeringQueue) = {}
                            /\ ToSet(pending[r]) \cap ToSet(followUpQueue) = {}
                            /\ ToSet(pending[r]) \cap ToSet(delivered) = {}
         /\ ToSet(delivered) \cap ToSet(steeringQueue) = {}
         /\ ToSet(delivered) \cap ToSet(followUpQueue) = {}
<1>1. IInv /\ LaneInv /\ OrderInv
  BY DEF RunInv, MessageInv
<1>2. ToSet(steeringQueue) \cap ToSet(followUpQueue) = {}
  BY <1>1 DEF LaneInv
<1>3. ASSUME NEW r \in Runs
      PROVE  /\ ToSet(pending[r]) \cap ToSet(steeringQueue) = {}
             /\ ToSet(pending[r]) \cap ToSet(followUpQueue) = {}
             /\ ToSet(pending[r]) \cap ToSet(delivered) = {}
  <2>1. /\ Before(lane, acceptedAt, pending[r], steeringQueue)
        /\ Before(lane, acceptedAt, pending[r], followUpQueue)
        /\ Before(lane, acceptedAt, delivered, pending[r])
    BY <1>1 DEF OrderInv
  <2>2. pending[r] \in Seq(Msgs)
    BY <1>1, MessageTypes
  <2> QED BY <1>1, <2>1, <2>2, BeforeDisjoint, MessageTypes
<1>4. /\ Before(lane, acceptedAt, delivered, steeringQueue)
      /\ Before(lane, acceptedAt, delivered, followUpQueue)
  BY <1>1 DEF OrderInv
<1>5. /\ ToSet(delivered) \cap ToSet(steeringQueue) = {}
      /\ ToSet(delivered) \cap ToSet(followUpQueue) = {}
  BY <1>1, <1>4, BeforeDisjoint, MessageTypes
<1> QED BY <1>2, <1>3, <1>5

\* A run that takes a message of the follow-up queue found the steering queue empty
\* and had no tool results to report.
LEMMA FollowUpTaken ==
  ASSUME RunInv, [Next]_vars, NEW m \in ToSet(followUpQueue),
         NEW q \in Runs, m \in ToSet(pending'[q])
  PROVE  steeringQueue = <<>> /\ \A r \in Runs : pc[r] = "turnEnd" => ~ hasMoreToolCalls[r]
<1> DEFINE Goal == steeringQueue = <<>> /\ \A r \in Runs : pc[r] = "turnEnd" => ~ hasMoreToolCalls[r]
<1> USE ModesAssumption
<1>1. IInv /\ SingleRun /\ LaneInv /\ lane[m] = "followUp" /\ m \notin ToSet(pending[q])
  BY WaitingApart DEF RunInv, MessageInv, LaneInv
<1>2. pending'[q] # pending[q] /\ pending'[q] # <<>>
  BY <1>1, ToSetOfFew
<1>3. ASSUME NEW r \in Runs, pending' = [pending EXCEPT ![r] = Taken(steeringQueue, SteeringMode)]
      PROVE  FALSE
  <2>1. q = r /\ pending'[q] = Taken(steeringQueue, SteeringMode)
    BY <1>1, <1>2, <1>3, MessageTypes
  <2>2. m \in ToSet(steeringQueue)
    BY <1>1, <2>1, ToSetOfDrained, MessageTypes
  <2> QED BY <1>1, <2>2 DEF LaneInv
<1>4. ASSUME NEW x \in Msgs, Steer(x) \/ FollowUp(x) \/ Prompt(x) PROVE Goal
  <2>1. CASE Steer(x) \/ FollowUp(x)
    BY <1>2, <2>1 DEF Steer, FollowUp, loopVars
  <2>2. CASE Prompt(x)
    <3>1. lane[x] = "none" /\ pending' = [pending EXCEPT ![runs + 1] = <<x>>]
      BY <2>2 DEF Prompt, Accepted, StartRun
    <3>2. pending'[q] = <<x>>
      BY <1>1, <1>2, <3>1, MessageTypes
    <3> QED BY <1>1, <3>1, <3>2, ToSetOfFew
  <2> QED BY <1>4, <2>1, <2>2
<1>5. CASE Continue
  <2>1. activeRun = 0 /\ \A r \in Runs : pc[r] = "off"
    <3>1. Idle
      BY <1>5 DEF Continue, StartRun
    <3> QED BY <1>1, <3>1 DEF SingleRun, Idle, Runs
  <2>2. CASE StartRun(<<>>, FALSE)
    BY <1>1, <1>2, <2>2, MessageTypes DEF StartRun
  <2>3. CASE StartRun(Taken(steeringQueue, SteeringMode), TRUE)
    BY <1>3, <2>3 DEF StartRun
  <2>4. CASE steeringQueue = <<>>
    BY <2>1, <2>4
  <2> QED BY <1>5, <2>2, <2>3, <2>4 DEF Continue
<1>6. CASE ClearSteeringQueue \/ ClearFollowUpQueue \/ Abort \/ Reset
  BY <1>2, <1>6 DEF ClearSteeringQueue, ClearFollowUpQueue, Abort, Reset, loopVars
<1>7. ASSUME NEW r \in Runs, Inject(r) \/ FirstPoll(r) PROVE Goal
  <2>1. CASE Inject(r)
    <3>1. pending[r] # <<>> /\ pending' = [pending EXCEPT ![r] = Tail(pending[r])]
      BY <2>1 DEF Inject
    <3>2. q = r /\ pending'[q] = Tail(pending[q]) /\ pending[q] \in Seq(Msgs)
      BY <1>1, <1>2, <3>1, MessageTypes
    <3>3. ToSet(pending'[q]) \subseteq ToSet(pending[q])
      BY <3>1, <3>2 DEF ToSet
    <3> QED BY <1>1, <3>3
  <2>2. CASE FirstPoll(r)
    BY <1>2, <1>3, <2>2 DEF FirstPoll
  <2> QED BY <1>7, <2>1, <2>2
<1>8. ASSUME NEW r \in Runs, Poll(r) PROVE Goal
  <2>1. WouldStop(r) /\ pc[r] = "turnEnd"
    BY <1>3, <1>8 DEF Poll
  <2>2. \A p \in Runs : pc[p] = "turnEnd" => p = r
    BY <1>1, <2>1 DEF SingleRun
  <2> QED BY <2>1, <2>2 DEF WouldStop
<1>9. ASSUME NEW r \in Runs, Fail(r) \/ FinishRun(r) PROVE Goal
  BY <1>1, <1>2, <1>9, MessageTypes DEF Fail, FinishRun
<1>10. ASSUME NEW r \in Runs, CallProvider(r) \/ Provider(r) PROVE Goal
  BY <1>2, <1>10 DEF CallProvider, Provider, AnswerFails, AnswerText, AnswerCalls, loopVars
<1>11. ASSUME NEW r \in Runs,
              PrepareCall(r) \/ LaunchAll(r) \/ Join(r) \/ Report(r) \/ CloseBatch(r)
       PROVE  Goal
  BY <1>2, <1>11 DEF PrepareCall, LaunchAll, Join, Report, CloseBatch, loopVars
<1>12. ASSUME NEW c \in Calls, ToolEnds(c) PROVE Goal
  BY <1>2, <1>12 DEF ToolEnds, loopVars
<1>13. ASSUME NEW r \in Runs, EmitFailure(r) \/ FailAgain(r) PROVE Goal
  BY <1>2, <1>13 DEF EmitFailure, FailAgain, loopVars
<1>14. CASE UNCHANGED vars
  BY <1>2, <1>14 DEF vars, loopVars
<1> QED BY <1>4, <1>5, <1>6, <1>7, <1>8, <1>9, <1>10, <1>11, <1>12, <1>13, <1>14 DEF Next, Owner, Loop, RunStep

\* A follow-up is taken only by a run that would otherwise stop: when no steering
\* message waits and the last turn left the model nothing to answer.
THEOREM FollowUpsWaitHolds == Spec => FollowUpsWait
<1>1. ASSUME RunInv, [Next]_vars
      PROVE  \A m \in ToSet(followUpQueue) :
               m \in UNION {ToSet(pending'[r]) : r \in Runs} =>
                 /\ steeringQueue = <<>>
                 /\ \A r \in Runs : pc[r] = "turnEnd" => ~ hasMoreToolCalls[r]
  BY <1>1, FollowUpTaken
<1> QED BY <1>1, RunInvHolds, PTL DEF Spec, FollowUpsWait

-----------------------------------------------------------------------------
(* The agent keeps the promise of Delivery.                                *)

Held    == UNION {ToSet(pending[r]) : r \in Runs}
Waiting == ToSet(steeringQueue) \cup ToSet(followUpQueue) \cup Held

\* When at most one run holds messages, those are the messages held.
LEMMA HeldByOne ==
  ASSUME NEW p, NEW r \in Runs, \A q \in Runs : q # r => p[q] = <<>>
  PROVE  UNION {ToSet(p[q]) : q \in Runs} = ToSet(p[r])
BY ToSetOfFew

\* A step that touches no message and neither begins nor ends a run is a stutter.
LEMMA NothingMoves ==
  ASSUME UNCHANGED <<queueVars, pending, delivered, discarded, activeRun>>
  PROVE  UNCHANGED Promise!dvars
BY DEF Promise!dvars, queueVars

\* What waits are messages.
LEMMA WaitingType == RunInv => Waiting \subseteq Msgs
BY ToSetType, MessageTypes DEF RunInv, Waiting, Held

\* A message that was never accepted is unknown to the promise.
LEMMA FreshMessage ==
  ASSUME RunInv, NEW m \in Msgs, lane[m] = "none"
  PROVE  m \notin Waiting \cup ToSet(delivered) \cup discarded
BY DEF RunInv, MessageInv, LaneInv, Waiting, Held

\* The calls of the owner, seen as steps of the promise.
LEMMA OwnerDelivers ==
  ASSUME RunInv, Owner
  PROVE  [Promise!Next]_(Promise!dvars)
<1> USE ModesAssumption
<1>1. IInv /\ SingleRun /\ PendingInv
  BY DEF RunInv, MessageInv
<1>2. ASSUME NEW m \in Msgs, Steer(m) \/ FollowUp(m) PROVE Promise!Accept(m)
  <2>1. m \notin Waiting \cup ToSet(delivered) \cup discarded
    BY <1>2, FreshMessage DEF Steer, FollowUp, Accepted
  <2>2. UNCHANGED <<activeRun, pending, delivered, discarded>>
    BY <1>2 DEF Steer, FollowUp, loopVars
  <2>3. \A q \in Seq(Msgs) : ToSet(Append(q, m)) = ToSet(q) \cup {m}
    <3> SUFFICES ASSUME NEW q \in Seq(Msgs) PROVE ToSet(Append(q, m)) = ToSet(q) \cup {m}
      OBVIOUS
    <3>1. Append(q, m) = q \o <<m>> /\ <<m>> \in Seq(Msgs)
      OBVIOUS
    <3> QED BY <3>1, ToSetOfParts, ToSetOfFew
  <2>4. ToSet(steeringQueue') \cup ToSet(followUpQueue')
          = ToSet(steeringQueue) \cup ToSet(followUpQueue) \cup {m}
    BY <1>1, <1>2, <2>3, MessageTypes DEF Steer, FollowUp
  <2> QED BY <2>1, <2>2, <2>4 DEF Promise!Accept, Waiting, Held
<1>3. ASSUME Idle PROVE \A r \in Runs : pc[r] = "off" /\ pending[r] = <<>>
  BY <1>1, <1>3 DEF SingleRun, PendingInv, Idle, Runs
<1>4. ASSUME NEW S \in SUBSET Msgs, Idle, runs + 1 \in Runs, activeRun' = runs + 1,
             UNCHANGED <<delivered, discarded>>, Waiting' = Waiting \cup S,
             S \cap (Waiting \cup ToSet(delivered) \cup discarded) = {}
      PROVE  Promise!Begin(S)
  BY <1>4 DEF Promise!Begin, Waiting, Held, Idle, Runs
<1>5. ASSUME NEW msgs \in Seq(Msgs), NEW skip, StartRun(msgs, skip)
      PROVE  /\ Idle /\ runs + 1 \in Runs /\ activeRun' = runs + 1
             /\ UNCHANGED <<delivered, discarded>>
             /\ Held = {} /\ Held' = ToSet(msgs)
  <2>1. /\ Idle /\ runs + 1 \in Runs /\ activeRun' = runs + 1
        /\ UNCHANGED <<delivered, discarded>>
        /\ pending' = [pending EXCEPT ![runs + 1] = msgs]
    BY <1>5 DEF StartRun
  <2>2. pending'[runs + 1] = msgs /\ \A q \in Runs : q # runs + 1 => pending'[q] = <<>>
    BY <1>1, <1>3, <2>1, MessageTypes
  <2>3. \A q \in Runs : ToSet(pending'[q]) = IF q = runs + 1 THEN ToSet(msgs) ELSE {}
    BY <2>2, ToSetOfFew
  <2>4. \A q \in Runs : ToSet(pending[q]) = {}
    BY <1>3, <2>1, ToSetOfFew
  <2> QED BY <2>1, <2>3, <2>4 DEF Held
<1>6. ASSUME NEW m \in Msgs, Prompt(m) PROVE Promise!Begin({m})
  <2>1. Accepted(m, "prompt") /\ StartRun(<<m>>, FALSE) /\ UNCHANGED queueVars
    BY <1>6 DEF Prompt
  <2>2. m \notin Waiting \cup ToSet(delivered) \cup discarded
    BY <2>1, FreshMessage DEF Accepted
  <2>3. Held = {} /\ Held' = {m}
    <3>1. <<m>> \in Seq(Msgs)
      OBVIOUS
    <3>2. Held = {} /\ Held' = ToSet(<<m>>)
      BY <1>5, <2>1, <3>1
    <3> QED BY <3>2, ToSetOfFew
  <2>4. Waiting' = Waiting \cup {m}
    BY <2>1, <2>3 DEF Waiting, queueVars
  <2>5. /\ Idle /\ runs + 1 \in Runs /\ activeRun' = runs + 1
        /\ UNCHANGED <<delivered, discarded>>
    BY <2>1 DEF StartRun
  <2> QED BY <1>4, <2>2, <2>4, <2>5
<1>7. CASE Continue
  <2>1. Waiting' = Waiting /\ \E msgs \in Seq(Msgs), skip \in BOOLEAN : StartRun(msgs, skip)
    <3>1. CASE StartRun(<<>>, FALSE) /\ UNCHANGED queueVars
      <4>1. <<>> \in Seq(Msgs)
        OBVIOUS
      <4>2. Held = {} /\ Held' = ToSet(<<>>)
        BY <1>5, <3>1, <4>1
      <4>3. Held' = Held
        BY <4>2, ToSetOfFew
      <4> QED BY <3>1, <4>1, <4>3 DEF Waiting, queueVars
    <3>2. CASE /\ StartRun(Taken(steeringQueue, SteeringMode), TRUE)
               /\ steeringQueue' = Left(steeringQueue, SteeringMode)
               /\ UNCHANGED followUpQueue
      <4>1. Held = {} /\ Held' = ToSet(Taken(steeringQueue, SteeringMode))
        BY <1>1, <1>5, <3>2, DrainType, MessageTypes
      <4>2. ToSet(steeringQueue)
              = ToSet(Taken(steeringQueue, SteeringMode)) \cup ToSet(steeringQueue')
        BY <1>1, <3>2, ToSetOfDrained, MessageTypes
      <4>3. Waiting' = Waiting
        BY <3>2, <4>1, <4>2 DEF Waiting
      <4> QED BY <1>1, <3>2, <4>3, DrainType, MessageTypes
    <3>3. CASE /\ StartRun(Taken(followUpQueue, FollowUpMode), FALSE)
               /\ followUpQueue' = Left(followUpQueue, FollowUpMode)
               /\ UNCHANGED steeringQueue
      <4>1. Held = {} /\ Held' = ToSet(Taken(followUpQueue, FollowUpMode))
        BY <1>1, <1>5, <3>3, DrainType, MessageTypes
      <4>2. ToSet(followUpQueue)
              = ToSet(Taken(followUpQueue, FollowUpMode)) \cup ToSet(followUpQueue')
        BY <1>1, <3>3, ToSetOfDrained, MessageTypes
      <4>3. Waiting' = Waiting
        BY <3>3, <4>1, <4>2 DEF Waiting
      <4> QED BY <1>1, <3>3, <4>3, DrainType, MessageTypes
    <3> QED BY <1>7, <3>1, <3>2, <3>3 DEF Continue
  <2>2. Promise!Begin({})
    BY <1>4, <1>5, <2>1
  <2> QED BY <2>2 DEF Promise!Next
<1>8. ASSUME NEW S, UNCHANGED <<activeRun, delivered, pending>>,
             discarded' = discarded \cup S, Waiting' = Waiting \ S, S \subseteq Waiting
      PROVE  Promise!Next
  <2>1. S \in SUBSET Msgs
    BY <1>8, WaitingType
  <2>2. Promise!Discard(S)
    BY <1>8 DEF Promise!Discard, Waiting, Held
  <2> QED BY <2>1, <2>2 DEF Promise!Next
<1>9. /\ ToSet(steeringQueue) \cap ToSet(followUpQueue) = {}
      /\ Held \cap ToSet(steeringQueue) = {} /\ Held \cap ToSet(followUpQueue) = {}
  BY WaitingApart DEF Held
<1>10. CASE ClearSteeringQueue
  <2>1. /\ UNCHANGED <<activeRun, delivered, pending, followUpQueue>>
        /\ discarded' = discarded \cup ToSet(steeringQueue) /\ ToSet(steeringQueue') = {}
    BY <1>10, ToSetOfFew DEF ClearSteeringQueue, loopVars
  <2>2. Waiting' = Waiting \ ToSet(steeringQueue) /\ ToSet(steeringQueue) \subseteq Waiting
    BY <1>9, <2>1 DEF Waiting, Held
  <2> QED BY <1>8, <2>1, <2>2
<1>11. CASE ClearFollowUpQueue
  <2>1. /\ UNCHANGED <<activeRun, delivered, pending, steeringQueue>>
        /\ discarded' = discarded \cup ToSet(followUpQueue) /\ ToSet(followUpQueue') = {}
    BY <1>11, ToSetOfFew DEF ClearFollowUpQueue, loopVars
  <2>2. Waiting' = Waiting \ ToSet(followUpQueue) /\ ToSet(followUpQueue) \subseteq Waiting
    BY <1>9, <2>1 DEF Waiting, Held
  <2> QED BY <1>8, <2>1, <2>2
<1>12. CASE Reset
  <2> DEFINE S == ToSet(steeringQueue) \cup ToSet(followUpQueue)
  <2>1. /\ UNCHANGED <<activeRun, delivered, pending>>
        /\ discarded' = discarded \cup S
        /\ ToSet(steeringQueue') = {} /\ ToSet(followUpQueue') = {}
    BY <1>12, ToSetOfFew DEF Reset, loopVars
  <2>2. Waiting' = Waiting \ S /\ S \subseteq Waiting
    BY <1>9, <2>1 DEF Waiting, Held
  <2> QED BY <1>8, <2>1, <2>2
<1>13. CASE Abort
  <2>1. UNCHANGED <<queueVars, pending, delivered, discarded, activeRun>>
    BY <1>13 DEF Abort, loopVars
  <2> QED BY <2>1, NothingMoves
<1> QED BY <1>2, <1>6, <1>7, <1>10, <1>11, <1>12, <1>13 DEF Owner, Promise!Next

\* The steps of a run, seen as steps of the promise.
LEMMA RunDelivers ==
  ASSUME RunInv, NEW r \in Runs, RunStep(r)
  PROVE  [Promise!Next]_(Promise!dvars)
<1> USE ModesAssumption
<1>1. IInv /\ SingleRun /\ PendingInv /\ OrderInv /\ pending[r] \in Seq(Msgs)
  BY MessageTypes DEF RunInv, MessageInv
<1>2. ASSUME pc[r] # "off"
      PROVE  /\ activeRun = r /\ activeRun # 0
             /\ Held = ToSet(pending[r]) /\ \A q \in Runs : q # r => pending[q] = <<>>
  <2>1. activeRun = r /\ r # 0
    BY <1>1, <1>2 DEF SingleRun, Runs
  <2>2. \A q \in Runs : q # r => pending[q] = <<>>
    BY <1>1, <1>2, OthersHoldNothing
  <2>3. UNION {ToSet(pending[q]) : q \in Runs} = ToSet(pending[r])
    BY <2>2, HeldByOne
  <2> QED BY <2>1, <2>2, <2>3 DEF Held
<1>3. ASSUME NEW msgs, pc[r] # "off", pending' = [pending EXCEPT ![r] = msgs]
      PROVE  Held' = ToSet(msgs)
  <2>1. \A q \in Runs : pending'[q] = IF q = r THEN msgs ELSE <<>>
    BY <1>1, <1>2, <1>3, MessageTypes
  <2>2. \A q \in Runs : ToSet(pending'[q]) = IF q = r THEN ToSet(msgs) ELSE {}
    BY <2>1, ToSetOfFew
  <2> QED BY <2>2 DEF Held
<1>4. CASE Inject(r)
  <2> DEFINE m == Head(pending[r])
             rest == Tail(pending[r])
  <2>1. /\ pc[r] # "off" /\ pending[r] # <<>>
        /\ delivered' = Append(delivered, m)
        /\ pending' = [pending EXCEPT ![r] = rest]
        /\ UNCHANGED <<queueVars, activeRun, discarded>>
    BY <1>4 DEF Inject
  <2>2. m \in Msgs /\ rest \in Seq(Msgs) /\ pending[r] = <<m>> \o rest /\ <<m>> \in Seq(Msgs)
    BY <1>1, <2>1
  <2>3. delivered' = delivered \o <<m>>
    BY <2>1, <2>2, MessageTypes DEF RunInv
  <2> HIDE DEF m, rest
  <2>4. ToSet(pending[r]) = {m} \cup ToSet(rest) /\ ToSet(delivered') = ToSet(delivered) \cup {m}
    <3>1. ToSet(<<m>> \o rest) = ToSet(<<m>>) \cup ToSet(rest)
      BY <2>2, ToSetOfParts
    <3>2. ToSet(delivered \o <<m>>) = ToSet(delivered) \cup ToSet(<<m>>)
      BY <1>1, <2>2, ToSetOfParts, MessageTypes
    <3> QED BY <2>2, <2>3, <3>1, <3>2, ToSetOfFew
  <2>5. m \notin ToSet(rest)
    <3>1. InOrder(lane, acceptedAt, <<m>> \o rest)
      BY <1>1, <2>2 DEF OrderInv
    <3>2. Before(lane, acceptedAt, <<m>>, rest)
      BY <2>2, <3>1, OrderOfParts
    <3>3. ToSet(<<m>>) \cap ToSet(rest) = {}
      BY <1>1, <2>2, <3>2, BeforeDisjoint, MessageTypes
    <3> QED BY <3>3, ToSetOfFew
  <2>6. Held = ToSet(pending[r]) /\ Held' = ToSet(rest) /\ activeRun # 0
    BY <1>2, <1>3, <2>1
  <2>7. m \notin ToSet(steeringQueue) /\ m \notin ToSet(followUpQueue)
    BY <2>4, WaitingApart
  <2>8. Waiting' = Waiting \ {m} /\ m \in Waiting
    BY <2>1, <2>4, <2>5, <2>6, <2>7 DEF Waiting, queueVars
  <2>9. Promise!Deliver(m)
    BY <2>1, <2>4, <2>6, <2>8 DEF Promise!Deliver, Waiting, Held
  <2> QED BY <2>2, <2>9 DEF Promise!Next
<1>5. ASSUME pc[r] # "off", pending[r] = <<>>, Drains(r),
             UNCHANGED <<activeRun, delivered, discarded>>
      PROVE  UNCHANGED Promise!dvars
  <2>1. Held = {}
    BY <1>2, <1>5, ToSetOfFew
  <2>2. Waiting' = Waiting
    <3>1. CASE /\ pending' = [pending EXCEPT ![r] = Taken(steeringQueue, SteeringMode)]
               /\ steeringQueue' = Left(steeringQueue, SteeringMode)
               /\ UNCHANGED followUpQueue
      <4>1. Held' = ToSet(Taken(steeringQueue, SteeringMode))
        BY <1>3, <1>5, <3>1
      <4>2. ToSet(steeringQueue)
              = ToSet(Taken(steeringQueue, SteeringMode)) \cup ToSet(steeringQueue')
        BY <1>1, <3>1, ToSetOfDrained, MessageTypes
      <4> QED BY <2>1, <3>1, <4>1, <4>2 DEF Waiting
    <3>2. CASE /\ pending' = [pending EXCEPT ![r] = Taken(followUpQueue, FollowUpMode)]
               /\ followUpQueue' = Left(followUpQueue, FollowUpMode)
               /\ UNCHANGED steeringQueue
      <4>1. Held' = ToSet(Taken(followUpQueue, FollowUpMode))
        BY <1>3, <1>5, <3>2
      <4>2. ToSet(followUpQueue)
              = ToSet(Taken(followUpQueue, FollowUpMode)) \cup ToSet(followUpQueue')
        BY <1>1, <3>2, ToSetOfDrained, MessageTypes
      <4> QED BY <2>1, <3>2, <4>1, <4>2 DEF Waiting
    <3> QED BY <1>5, <3>1, <3>2 DEF Drains
  <2> QED BY <1>5, <2>2 DEF Promise!dvars, Waiting, Held
<1>6. CASE FirstPoll(r)
  <2>1. pc[r] # "off" /\ pending[r] = <<>> /\ UNCHANGED <<activeRun, delivered, discarded, followUpQueue>>
    BY <1>6 DEF FirstPoll
  <2>2. CASE skipPoll[r]
    BY <1>6, <2>1, <2>2, NothingMoves DEF FirstPoll, queueVars
  <2>3. CASE ~ skipPoll[r]
    BY <1>5, <1>6, <2>1, <2>3 DEF FirstPoll, Drains
  <2> QED BY <2>2, <2>3
<1>7. CASE Poll(r)
  <2>1. pc[r] = "turnEnd" /\ Drains(r) /\ UNCHANGED <<activeRun, delivered, discarded>>
    BY <1>7 DEF Poll, Drains
  <2>2. pending[r] = <<>>
    BY <1>1, <2>1 DEF PendingInv
  <2> QED BY <1>5, <2>1, <2>2
<1>8. CASE Fail(r)
  <2>1. /\ pc[r] # "off" /\ pending' = [pending EXCEPT ![r] = <<>>]
        /\ discarded' = discarded \cup ToSet(pending[r])
        /\ UNCHANGED <<queueVars, activeRun, delivered>>
    BY <1>8 DEF Fail
  <2>2. Held = ToSet(pending[r]) /\ Held' = {}
    BY <1>2, <1>3, <2>1, ToSetOfFew
  <2>3. Held \cap ToSet(steeringQueue) = {} /\ Held \cap ToSet(followUpQueue) = {}
    BY <2>2, WaitingApart
  <2>4. Waiting' = Waiting \ ToSet(pending[r]) /\ ToSet(pending[r]) \subseteq Waiting
    BY <2>1, <2>2, <2>3 DEF Waiting, queueVars
  <2>5. Promise!Discard(ToSet(pending[r]))
    BY <2>1, <2>4 DEF Promise!Discard, Waiting, Held
  <2> QED BY <1>1, <2>5, ToSetType DEF Promise!Next
<1>9. CASE FinishRun(r)
  <2>1. /\ pc[r] # "off" /\ pc[r] \notin {"begin", "inject"}
        /\ pending' = [pending EXCEPT ![r] = <<>>] /\ activeRun' = 0
        /\ UNCHANGED <<queueVars, delivered, discarded>>
    BY <1>9 DEF FinishRun
  <2>2. Held' = Held /\ activeRun # 0
    BY <1>1, <1>2, <1>3, <2>1 DEF PendingInv
  <2>3. Promise!End
    BY <2>1, <2>2 DEF Promise!End, Held, queueVars
  <2> QED BY <2>3 DEF Promise!Next
<1>10. CASE CallProvider(r) \/ Provider(r)
  BY <1>10, NothingMoves DEF CallProvider, Provider, AnswerFails, AnswerText, AnswerCalls, loopVars
<1>11. CASE PrepareCall(r) \/ LaunchAll(r) \/ Join(r) \/ Report(r) \/ CloseBatch(r)
  BY <1>11, NothingMoves DEF PrepareCall, LaunchAll, Join, Report, CloseBatch, loopVars
<1>12. CASE EmitFailure(r) \/ FailAgain(r)
  BY <1>12, NothingMoves DEF EmitFailure, FailAgain, loopVars
<1> QED BY <1>4, <1>6, <1>7, <1>8, <1>9, <1>10, <1>11, <1>12 DEF RunStep, Loop

\* The agent implements Delivery: a message that was accepted is delivered, once, by an
\* active run, or discarded by a clear, a reset or an exception, and never lost otherwise.
THEOREM AgentDelivers == Spec => ImplementsDelivery
<1>1. Init => Promise!Init
  <2> SUFFICES ASSUME Init PROVE Promise!Init
    OBVIOUS
  <2>1. \A r \in Runs : ToSet(pending[r]) = {}
    BY ToSetOfFew DEF Init
  <2>2. ToSet(steeringQueue) = {} /\ ToSet(followUpQueue) = {} /\ ToSet(delivered) = {}
    BY ToSetOfFew DEF Init
  <2>3. activeRun = 0 /\ discarded = {}
    BY DEF Init
  <2> QED BY <2>1, <2>2, <2>3 DEF Promise!Init
<1>2. RunInv /\ [Next]_vars => [Promise!Next]_(Promise!dvars)
  <2> SUFFICES ASSUME RunInv, [Next]_vars PROVE [Promise!Next]_(Promise!dvars)
    OBVIOUS
  <2>1. CASE Owner
    BY <2>1, OwnerDelivers
  <2>2. ASSUME NEW r \in Runs, RunStep(r)
        PROVE  [Promise!Next]_(Promise!dvars)
    BY <2>2, RunDelivers
  <2>3. ASSUME NEW c \in Calls, ToolEnds(c) PROVE [Promise!Next]_(Promise!dvars)
    BY <2>3, NothingMoves DEF ToolEnds, loopVars
  <2>4. CASE UNCHANGED vars
    BY <2>4, NothingMoves DEF vars, loopVars
  <2> QED BY <2>1, <2>2, <2>3, <2>4 DEF Next, RunStep
<1> QED BY <1>1, <1>2, RunInvHolds, PTL DEF Spec, ImplementsDelivery, Promise!Spec

-----------------------------------------------------------------------------
(* The tool calls.  Agent.reset() is written for an idle agent: nothing in *)
(* packages/coding-agent calls it, and in the midst of a run it would      *)
(* empty the transcript under the run's feet.  What follows is about runs  *)
(* of the program in which reset() is called between runs only.            *)

ResetsWhenIdle == [][Reset => activeRun = 0]_vars

\* A step of such a run.
IdleNext == [Next]_vars /\ [Reset => activeRun = 0]_vars

BatchPCs == {"prepare", "execute", "report"}

\* Each call belongs to the run that made it, once it is made.
CallInv ==
  /\ activeRun <= runs /\ \A c \in Calls : owner[c] <= runs
  /\ \A c \in Calls : c >= nextCall => owner[c] = 0 /\ callState[c] = "none"
  /\ \A r \in Runs : \A i \in DOMAIN batch[r] : owner[batch[r][i]] = r

\* Runs and calls are numbers.
LEMMA Numbers ==
  /\ MaxCalls \in Nat /\ MaxRuns \in Nat
  /\ \A c \in Calls : c \in Nat
  /\ \A r \in Runs : r \in Nat /\ r > 0
BY BoundsAssumption DEF Calls, Runs

\* The types of the variables of the batches.
LEMMA BatchTypes ==
  ASSUME IInv
  PROVE  /\ transcript \in Seq(Entries) /\ context \in [Runs -> Seq(Entries)]
         /\ batch \in [Runs -> Seq(Calls)] /\ pc \in [Runs -> PCs]
         /\ announced \in [Runs -> Nat] /\ reported \in [Runs -> Nat]
         /\ mode \in [Runs -> {"none", "sequential", "parallel"}]
         /\ owner \in [Calls -> {0} \cup Runs]
         /\ callState \in [Calls -> {"none", "immediate", "prepared", "executing", "crashed",
                                     "finalized"}]
         /\ nextCall \in 1 .. MaxCalls + 1 /\ runs \in 0 .. MaxRuns
         /\ pendingToolCalls \subseteq Calls /\ activeRun \in {0} \cup Runs
         /\ \A r \in Runs : /\ reported[r] <= announced[r] /\ announced[r] <= Len(batch[r])
                            /\ r \in Nat /\ r > 0
BY DEF IInv, TypeOK, CountersInv, Runs

\* The announced calls of a batch were made by its run.
LEMMA AnnouncedOwned ==
  ASSUME IInv, CallInv, NEW r \in Runs
  PROVE  /\ \A c \in AnnouncedCalls(r) : c \in Calls /\ owner[c] = r /\ c < nextCall
         /\ announced[r] > 0 => batch[r][announced[r]] \in AnnouncedCalls(r)
         /\ announced[r] < Len(batch[r]) =>
              LET c == batch[r][announced[r] + 1] IN c \in Calls /\ owner[c] = r /\ c < nextCall
<1>1. ASSUME NEW i \in 1 .. Len(batch[r])
      PROVE  batch[r][i] \in Calls /\ owner[batch[r][i]] = r /\ batch[r][i] < nextCall
  <2>1. batch[r] \in Seq(Calls) /\ i \in DOMAIN batch[r] /\ r # 0
    BY BatchTypes
  <2>2. batch[r][i] \in Calls /\ owner[batch[r][i]] = r
    BY <2>1 DEF CallInv
  <2>3. batch[r][i] \in Nat /\ nextCall \in Nat
    BY <2>2, BatchTypes, Numbers
  <2> QED BY <2>1, <2>2, <2>3 DEF CallInv
<1>2. /\ announced[r] \in Nat /\ announced[r] <= Len(batch[r]) /\ Len(batch[r]) \in Nat
  BY BatchTypes
<1> QED BY <1>1, <1>2 DEF AnnouncedCalls

\* Calls are made by one run, and change state after they were made.
LEMMA CallInductive == IInv /\ SingleRun /\ CallInv /\ [Next]_vars => CallInv'
<1> SUFFICES ASSUME IInv, SingleRun, CallInv, [Next]_vars PROVE CallInv'
  OBVIOUS
<1>1. ASSUME UNCHANGED <<owner, nextCall>>, runs' \in {runs, runs + 1},
             activeRun' \in {activeRun, 0, runs'},
             \A r \in Runs : batch'[r] \in {batch[r], <<>>},
             \A c \in Calls : callState'[c] = callState[c] \/ c < nextCall
      PROVE  CallInv'
  <2>1. /\ runs \in Nat /\ activeRun \in Nat /\ nextCall \in Nat
        /\ \A c \in Calls : owner[c] \in Nat /\ c \in Nat
    <3>1. \A c \in Calls : owner[c] \in {0} \cup Runs
      BY BatchTypes
    <3> QED BY <3>1, BatchTypes, Numbers
  <2> QED BY <1>1, <2>1 DEF CallInv
<1>2. ASSUME NEW m \in Msgs, Steer(m) \/ FollowUp(m) \/ Prompt(m) PROVE CallInv'
  BY <1>1, <1>2 DEF Steer, FollowUp, Prompt, StartRun, batchVars, callVars
<1>3. CASE ClearSteeringQueue \/ ClearFollowUpQueue \/ Abort \/ Reset \/ Continue
  BY <1>1, <1>3
  DEF ClearSteeringQueue, ClearFollowUpQueue, Abort, Reset, Continue, StartRun, batchVars, callVars
<1>4. ASSUME NEW r \in Runs, Inject(r) \/ FirstPoll(r) \/ CallProvider(r) \/ Poll(r)
                             \/ Join(r) \/ Report(r)
      PROVE  CallInv'
  BY <1>1, <1>4 DEF Inject, FirstPoll, CallProvider, Poll, Join, Report, batchVars, callVars
<1>5. ASSUME NEW r \in Runs, CloseBatch(r) \/ FinishRun(r) PROVE CallInv'
  BY <1>1, <1>5, BatchTypes DEF CloseBatch, FinishRun, callVars
<1>6. ASSUME NEW r \in Runs, AnswerFails(r) \/ AnswerText(r) PROVE CallInv'
  BY <1>1, <1>6 DEF AnswerFails, AnswerText, batchVars, callVars
<1>7. ASSUME NEW r \in Runs, NEW n \in 1 .. MaxCalls, NEW m \in ExecutionModes, AnswerCalls(r, n, m)
      PROVE  CallInv'
  <2> DEFINE cs == [i \in 1 .. n |-> nextCall + i - 1]
  <2>1. /\ batch' = [batch EXCEPT ![r] = cs] /\ nextCall' = nextCall + n
        /\ owner' = [c \in Calls |-> IF c \in ToSet(cs) THEN r ELSE owner[c]]
        /\ UNCHANGED <<callState, runs, activeRun>> /\ nextCall + n <= MaxCalls + 1
        /\ pc[r] = "stream"
    BY <1>7 DEF AnswerCalls
  <2>2. cs \in Seq(Calls)
    BY <2>1, FreshCalls, BatchTypes
  <2>3. \A c \in ToSet(cs) : nextCall <= c /\ c < nextCall + n
    BY BatchTypes, BoundsAssumption DEF ToSet
  <2>4. r <= runs
    <3>1. r = activeRun
      BY <2>1 DEF SingleRun
    <3> QED BY <3>1 DEF CallInv
  <2>5. /\ nextCall \in Nat /\ \A c \in Calls : c \in Nat
        /\ \A q \in Runs : q # 0 /\ batch[q] \in Seq(Calls)
    BY BatchTypes, BoundsAssumption DEF Calls
  <2>6. \A c \in ToSet(cs) : owner[c] = 0 /\ c \in Calls
    <3>1. \A c \in ToSet(cs) : c \in Calls
      BY <2>2 DEF ToSet
    <3> QED BY <2>3, <2>5, <3>1 DEF CallInv
  <2> HIDE DEF cs
  <2>7. \A c \in Calls : owner'[c] <= runs'
    BY <2>1, <2>4 DEF CallInv
  <2>8. \A c \in Calls : c >= nextCall' => owner'[c] = 0 /\ callState'[c] = "none"
    BY <2>1, <2>3, <2>5 DEF CallInv
  <2>9. ASSUME NEW q \in Runs, NEW i \in DOMAIN batch'[q]
        PROVE  owner'[batch'[q][i]] = q
    <3>1. CASE q = r
      <4>1. batch'[q] = cs
        BY <2>1, <3>1, BatchTypes
      <4>2. cs[i] \in ToSet(cs) /\ cs[i] \in Calls
        BY <2>2, <2>9, <4>1 DEF ToSet
      <4> QED BY <2>1, <3>1, <4>1, <4>2
    <3>2. CASE q # r
      <4>1. batch'[q] = batch[q]
        BY <2>1, <3>2, BatchTypes
      <4>2. batch[q][i] \in Calls /\ owner[batch[q][i]] = q
        BY <2>5, <2>9, <4>1 DEF CallInv
      <4> QED BY <2>1, <2>5, <2>6, <4>1, <4>2
    <3> QED BY <3>1, <3>2
  <2> QED BY <2>1, <2>7, <2>8, <2>9 DEF CallInv
<1>8. ASSUME NEW r \in Runs, PrepareCall(r) PROVE CallInv'
  <2> DEFINE c == batch[r][announced[r] + 1]
  <2>1. c \in Calls /\ c < nextCall
    BY <1>8, AnnouncedOwned DEF PrepareCall
  <2>2. /\ UNCHANGED <<owner, nextCall, runs, activeRun, batch>>
        /\ \E s : callState' = [callState EXCEPT ![c] = s]
    BY <1>8 DEF PrepareCall
  <2>3. \A d \in Calls : callState'[d] = callState[d] \/ d < nextCall
    BY <2>1, <2>2, BatchTypes
  <2> QED BY <1>1, <2>2, <2>3
<1>9. ASSUME NEW r \in Runs, LaunchAll(r) PROVE CallInv'
  <2>1. \A d \in Calls : callState'[d] = callState[d] \/ d < nextCall
    BY <1>9, AnnouncedOwned DEF LaunchAll
  <2> QED BY <1>1, <1>9, <2>1 DEF LaunchAll, batchVars
<1>10. ASSUME NEW r \in Runs, Fail(r) PROVE CallInv'
  <2>1. \A d \in Calls : callState'[d] = callState[d] \/ callState[d] # "none"
    BY <1>10, BatchTypes DEF Fail, Throws, callVars
  <2>2. \A d \in Calls : callState[d] # "none" => d < nextCall
    BY BatchTypes, BoundsAssumption DEF CallInv, Calls
  <2> QED BY <1>1, <1>10, <2>1, <2>2 DEF Fail, batchVars
<1>11. ASSUME NEW c \in Calls, ToolEnds(c) PROVE CallInv'
  <2>1. \A d \in Calls : callState'[d] = callState[d] \/ callState[d] # "none"
    BY <1>11, BatchTypes DEF ToolEnds
  <2>2. \A d \in Calls : callState[d] # "none" => d < nextCall
    BY BatchTypes, BoundsAssumption DEF CallInv, Calls
  <2> QED BY <1>1, <1>11, <2>1, <2>2 DEF ToolEnds, batchVars
<1>12. ASSUME NEW r \in Runs, EmitFailure(r) \/ FailAgain(r) PROVE CallInv'
  BY <1>1, <1>12 DEF EmitFailure, FailAgain, batchVars, callVars
<1>13. CASE UNCHANGED vars
  BY <1>1, <1>13 DEF vars, batchVars, callVars
<1> QED BY <1>2, <1>3, <1>4, <1>5, <1>6, <1>7, <1>8, <1>9, <1>10, <1>11, <1>12, <1>13
        DEF Next, Owner, Loop, Provider, RunStep

\* A call is shown as running from its start to its end, and until its run is over.
LEMMA ShownInductive ==
  IInv /\ SingleRun /\ CallInv /\ PendingToolCallsExact /\ IdleNext => PendingToolCallsExact'
<1> SUFFICES ASSUME IInv, SingleRun, CallInv, PendingToolCallsExact, IdleNext
             PROVE  PendingToolCallsExact'
  OBVIOUS
<1> DEFINE Shown == {"prepared", "executing", "crashed"}
<1>1. ASSUME UNCHANGED <<pendingToolCalls, activeRun>>,
             \A c \in Calls : \/ owner'[c] = owner[c]
                              \/ callState[c] = "none" /\ callState'[c] = "none",
             \A c \in Calls : callState'[c] \in Shown <=> callState[c] \in Shown
      PROVE  PendingToolCallsExact'
  <2>1. \A c \in Calls : owner'[c] = activeRun /\ callState'[c] \in Shown
                          <=> owner[c] = activeRun /\ callState[c] \in Shown
    BY <1>1
  <2> QED BY <1>1, <2>1 DEF PendingToolCallsExact
<1>2. ASSUME UNCHANGED <<pendingToolCalls, activeRun, callVars>> PROVE PendingToolCallsExact'
  BY <1>1, <1>2 DEF callVars
<1>3. ASSUME NEW msgs, NEW skip, StartRun(msgs, skip) PROVE PendingToolCallsExact'
  <2>1. /\ activeRun = 0 /\ activeRun' = runs + 1 /\ runs + 1 \in Runs
        /\ UNCHANGED <<pendingToolCalls, owner, callState>>
    BY <1>3 DEF StartRun, Idle, callVars
  <2>2. \A c \in Calls : owner[c] # runs + 1
    <3>1. \A c \in Calls : owner[c] \in {0} \cup Runs /\ owner[c] <= runs
      BY BatchTypes DEF CallInv
    <3> QED BY <3>1, BatchTypes, Numbers
  <2>3. pendingToolCalls = {}
    BY <2>1 DEF PendingToolCallsExact
  <2> QED BY <2>1, <2>2, <2>3, Numbers DEF PendingToolCallsExact
<1>4. ASSUME NEW m \in Msgs, Steer(m) \/ FollowUp(m) \/ Prompt(m) PROVE PendingToolCallsExact'
  BY <1>2, <1>3, <1>4 DEF Steer, FollowUp, Prompt, agentVars
<1>5. CASE ClearSteeringQueue \/ ClearFollowUpQueue \/ Abort \/ Continue
  BY <1>2, <1>3, <1>5 DEF ClearSteeringQueue, ClearFollowUpQueue, Abort, Continue, agentVars
<1>6. CASE Reset
  <2>1. activeRun = 0 \/ UNCHANGED vars
    BY <1>6 DEF IdleNext
  <2> QED BY <1>2, <1>6, <2>1 DEF Reset, PendingToolCallsExact, vars, agentVars
<1>7. ASSUME NEW r \in Runs, Inject(r) \/ FirstPoll(r) \/ CallProvider(r) \/ Poll(r) \/ Join(r)
                             \/ Report(r) \/ CloseBatch(r)
      PROVE  PendingToolCallsExact'
  BY <1>2, <1>7
  DEF Inject, FirstPoll, CallProvider, Poll, Join, Report, CloseBatch, agentVars
<1>8. ASSUME NEW r \in Runs, AnswerFails(r) \/ AnswerText(r) PROVE PendingToolCallsExact'
  BY <1>2, <1>8 DEF AnswerFails, AnswerText
<1>9. ASSUME NEW r \in Runs, NEW n \in 1 .. MaxCalls, NEW m \in ExecutionModes, AnswerCalls(r, n, m)
      PROVE  PendingToolCallsExact'
  <2> DEFINE cs == [i \in 1 .. n |-> nextCall + i - 1]
  <2>1. /\ owner' = [c \in Calls |-> IF c \in ToSet(cs) THEN r ELSE owner[c]]
        /\ UNCHANGED <<callState, pendingToolCalls, activeRun>>
    BY <1>9 DEF AnswerCalls
  <2>2. \A c \in ToSet(cs) : c >= nextCall
    BY BatchTypes, Numbers DEF ToSet
  <2> HIDE DEF cs
  <2>3. \A c \in Calls : owner'[c] = owner[c] \/ callState[c] = "none"
    BY <2>1, <2>2 DEF CallInv
  <2> QED BY <1>1, <2>1, <2>3
<1>10. ASSUME NEW r \in Runs, PrepareCall(r) PROVE PendingToolCallsExact'
  <2> DEFINE c == batch[r][announced[r] + 1]
  <2>1. c \in Calls /\ owner[c] = r /\ pc[r] # "off" /\ UNCHANGED <<owner, activeRun>>
    BY <1>10, AnnouncedOwned DEF PrepareCall, BetweenCalls
  <2>2. activeRun = r /\ r # 0
    BY <2>1, Numbers DEF SingleRun
  <2>3. \/ /\ callState' = [callState EXCEPT ![c] = "immediate"]
           /\ pendingToolCalls' = pendingToolCalls \ {c}
        \/ /\ \E s \in {"executing", "prepared"} : callState' = [callState EXCEPT ![c] = s]
           /\ pendingToolCalls' = pendingToolCalls \cup {c}
    BY <1>10 DEF PrepareCall
  <2> HIDE DEF c
  <2>4. pendingToolCalls = {d \in Calls : owner[d] = r /\ callState[d] \in Shown}
    BY <2>2 DEF PendingToolCallsExact
  <2>5. pendingToolCalls' = {d \in Calls : owner[d] = r /\ callState'[d] \in Shown}
    BY <2>1, <2>3, <2>4, BatchTypes
  <2> QED BY <2>1, <2>2, <2>5 DEF PendingToolCallsExact
<1>11. ASSUME NEW r \in Runs, LaunchAll(r) PROVE PendingToolCallsExact'
  BY <1>1, <1>11, BatchTypes DEF LaunchAll, agentVars
<1>12. ASSUME NEW r \in Runs, Fail(r) PROVE PendingToolCallsExact'
  <2>1. \A d \in Calls : callState'[d] \in Shown <=> callState[d] \in Shown
    BY <1>12, BatchTypes DEF Fail, Throws, callVars
  <2> QED BY <1>1, <1>12, <2>1 DEF Fail
<1>13. ASSUME NEW r \in Runs, FinishRun(r) PROVE PendingToolCallsExact'
  BY <1>13 DEF FinishRun, ClearedToolCalls, PendingToolCallsExact
<1>14. ASSUME NEW c \in Calls, ToolEnds(c) PROVE PendingToolCallsExact'
  <2>1. /\ callState' = [callState EXCEPT ![c] = "finalized"]
        /\ pendingToolCalls' = pendingToolCalls \ {c} /\ UNCHANGED <<owner, activeRun>>
    BY <1>14 DEF ToolEnds
  <2>2. \A d \in Calls : callState'[d] \in Shown <=> callState[d] \in Shown /\ d # c
    BY <2>1, BatchTypes
  <2> QED BY <2>1, <2>2 DEF PendingToolCallsExact
<1>15. ASSUME NEW r \in Runs, EmitFailure(r) \/ FailAgain(r) PROVE PendingToolCallsExact'
  BY <1>2, <1>15 DEF EmitFailure, FailAgain, agentVars
<1>16. CASE UNCHANGED vars
  BY <1>2, <1>16 DEF vars, agentVars
<1> QED BY <1>4, <1>5, <1>6, <1>7, <1>8, <1>9, <1>10, <1>11, <1>12, <1>13, <1>14, <1>15, <1>16
        DEF IdleNext, Next, Owner, Loop, Provider, RunStep

LEMMA CallInvHolds == Spec => [](RunInv /\ CallInv)
<1>1. Init => CallInv
  BY Numbers DEF Init, CallInv
<1>2. RunInv /\ CallInv /\ [Next]_vars => CallInv'
  BY CallInductive DEF RunInv
<1> QED BY <1>1, <1>2, RunInvHolds, PTL DEF Spec

\* pendingToolCalls, which the user sees as the running tools, holds exactly the calls of
\* the active run that were announced and have not ended, cut batches, aborts and
\* exceptions included.
THEOREM PendingToolCallsAreExact == Spec /\ ResetsWhenIdle => []PendingToolCallsExact
<1>1. Init => PendingToolCallsExact
  BY DEF Init, PendingToolCallsExact
<1>2. RunInv /\ CallInv /\ PendingToolCallsExact /\ [Next]_vars /\ [Reset => activeRun = 0]_vars
        => PendingToolCallsExact'
  BY ShownInductive DEF RunInv, IdleNext
<1> QED BY <1>1, <1>2, CallInvHolds, PTL DEF Spec, ResetsWhenIdle

-----------------------------------------------------------------------------
(* The transcript and the batches.                                         *)

\* A batch has calls and a mode; a parallel one is announced whole, unless it is cut.
BatchInv ==
  \A r \in Runs :
    /\ pc[r] \in BatchPCs => Len(batch[r]) > 0 /\ mode[r] \in ExecutionModes
    /\ pc[r] \in {"execute", "report"} /\ mode[r] = "parallel" =>
         announced[r] = Len(batch[r]) \/ Cut(r)

\* The answer that asked for the batch of a run, in the transcript.
Asked(r) == Len(transcript) - reported[r]

\* While a batch is worked on, the transcript ends with the answer that asked for it and
\* the results reported so far.
TailInv ==
  \A r \in Runs : pc[r] \in BatchPCs =>
    /\ Asked(r) > 0
    /\ transcript[Asked(r)] = Answer(r, "toolUse", batch[r])
    /\ \A k \in 1 .. reported[r] : transcript[Asked(r) + k] = ResultOf(batch[r][k])

\* The loop's context is the transcript, the results of the current batch put aside.
ContextInv ==
  \A r \in Runs :
    /\ pc[r] \in {"begin", "inject", "stream", "cancelled", "turnEnd"} => context[r] = transcript
    /\ pc[r] \in BatchPCs => transcript = context[r] \o Results(r)

\* The calls of the answer at j are answered to the last one, or there is an excuse.
Settled(j) ==
  LET a == transcript[j] IN
    \/ a.calls = <<>>
    \/ j + Len(a.calls) <= Len(transcript) /\ transcript[j + Len(a.calls)].role = "toolResult"
    \/ a.run \in aborted \cup failedRuns

\* The calls of the answer at j are the batch being worked on.
Open(j) ==
  LET a == transcript[j] IN
    pc[a.run] \in BatchPCs /\ j = Asked(a.run) /\ a.calls = batch[a.run]

AnsweredInv ==
  \A j \in DOMAIN transcript : transcript[j].role = "assistant" => Settled(j) \/ Open(j)

TranscriptInv == BatchInv /\ TailInv /\ ContextInv /\ ResultsFollowTheirCalls /\ AnsweredInv

\* ResultsFollowTheirCalls, of any transcript.
Follows(t) ==
  \A i \in DOMAIN t : t[i].role = "toolResult" =>
    \E j \in 1 .. i - 1 :
      /\ t[j].role = "assistant"
      /\ i - j \in DOMAIN t[j].calls
      /\ t[i].call = t[j].calls[i - j]
      /\ \A k \in j + 1 .. i : t[k].role = "toolResult"

\* An entry that is no result breaks up no batch.
LEMMA FollowsOther ==
  ASSUME NEW t \in Seq(Entries), NEW e \in Entries, Follows(t), e.role # "toolResult"
  PROVE  Follows(Append(t, e))
<1> DEFINE u == Append(t, e)
<1>1. /\ DOMAIN u = 1 .. Len(t) + 1 /\ DOMAIN t = 1 .. Len(t) /\ Len(t) \in Nat
      /\ u[Len(t) + 1] = e /\ \A i \in 1 .. Len(t) : u[i] = t[i]
  OBVIOUS
<1> HIDE DEF u
<1> SUFFICES ASSUME NEW i \in DOMAIN u, u[i].role = "toolResult"
             PROVE  \E j \in 1 .. i - 1 :
                      /\ u[j].role = "assistant"
                      /\ i - j \in DOMAIN u[j].calls
                      /\ u[i].call = u[j].calls[i - j]
                      /\ \A k \in j + 1 .. i : u[k].role = "toolResult"
  BY DEF Follows, u
<1>2. i \in 1 .. Len(t) /\ u[i] = t[i]
  BY <1>1
<1>3. PICK j \in 1 .. i - 1 :
        /\ t[j].role = "assistant"
        /\ i - j \in DOMAIN t[j].calls
        /\ t[i].call = t[j].calls[i - j]
        /\ \A k \in j + 1 .. i : t[k].role = "toolResult"
  BY <1>1, <1>2 DEF Follows
<1>4. u[j] = t[j] /\ \A k \in j + 1 .. i : u[k] = t[k]
  BY <1>1, <1>2, <1>3
<1> QED BY <1>2, <1>3, <1>4

\* The next result of the answer at j, behind the ones reported before, is in its place.
LEMMA FollowsResult ==
  ASSUME NEW t \in Seq(Entries), NEW e, Follows(t), NEW j \in DOMAIN t,
         t[j].role = "assistant", Len(t) + 1 - j \in DOMAIN t[j].calls,
         e.call = t[j].calls[Len(t) + 1 - j], e.role = "toolResult",
         \A k \in j + 1 .. Len(t) : t[k].role = "toolResult"
  PROVE  Follows(Append(t, e))
<1> DEFINE u == Append(t, e)
           n == Len(t) + 1
<1>1. /\ DOMAIN u = 1 .. n /\ DOMAIN t = 1 .. n - 1 /\ n \in Nat
      /\ u[n] = e /\ \A i \in 1 .. n - 1 : u[i] = t[i]
  OBVIOUS
<1> HIDE DEF u
<1> SUFFICES ASSUME NEW i \in DOMAIN u, u[i].role = "toolResult"
             PROVE  \E h \in 1 .. i - 1 :
                      /\ u[h].role = "assistant"
                      /\ i - h \in DOMAIN u[h].calls
                      /\ u[i].call = u[h].calls[i - h]
                      /\ \A k \in h + 1 .. i : u[k].role = "toolResult"
  BY DEF Follows, u
<1>2. CASE i = n
  <2>1. j \in 1 .. i - 1 /\ u[j] = t[j] /\ u[i] = e
    BY <1>1, <1>2
  <2>2. \A k \in j + 1 .. i : u[k].role = "toolResult"
    BY <1>1, <1>2
  <2>3. /\ u[j].role = "assistant" /\ i - j \in DOMAIN u[j].calls
        /\ u[i].call = u[j].calls[i - j]
    <3>1. i - j = Len(t) + 1 - j
      BY <1>2
    <3> QED BY <2>1, <3>1
  <2> QED BY <2>1, <2>2, <2>3
<1>3. CASE i # n
  <2>1. i \in 1 .. n - 1 /\ u[i] = t[i]
    BY <1>1, <1>3
  <2>2. PICK h \in 1 .. i - 1 :
          /\ t[h].role = "assistant"
          /\ i - h \in DOMAIN t[h].calls
          /\ t[i].call = t[h].calls[i - h]
          /\ \A k \in h + 1 .. i : t[k].role = "toolResult"
    BY <1>1, <2>1 DEF Follows
  <2>3. u[h] = t[h] /\ \A k \in h + 1 .. i : u[k] = t[k]
    BY <1>1, <2>1, <2>2
  <2> QED BY <2>1, <2>2, <2>3
<1> QED BY <1>2, <1>3

LEMMA FollowsIs == ResultsFollowTheirCalls <=> Follows(transcript)
BY DEF ResultsFollowTheirCalls, Follows

\* The entries of the transcript: the calls of an answer are a sequence, its run is a run.
LEMMA AnswerFields ==
  ASSUME IInv, NEW j \in DOMAIN transcript, transcript[j].role = "assistant"
  PROVE  transcript[j].run \in Runs /\ transcript[j].calls \in Seq(Calls)
<1>1. transcript[j] \in Entries
  BY BatchTypes
<1> QED BY <1>1 DEF Entries

\* What is settled stays so while the transcript grows.
LEMMA SettledStays ==
  ASSUME IInv, aborted \subseteq aborted', failedRuns \subseteq failedRuns',
         transcript' = transcript \/ \E e : transcript' = Append(transcript, e),
         NEW j \in DOMAIN transcript, transcript[j].role = "assistant"
  PROVE  j \in DOMAIN transcript' /\ transcript'[j] = transcript[j] /\ (Settled(j) => Settled(j)')
<1>1. transcript[j].calls \in Seq(Calls) /\ transcript \in Seq(Entries)
  BY AnswerFields, BatchTypes
<1>2. /\ j \in DOMAIN transcript' /\ transcript'[j] = transcript[j]
      /\ Len(transcript') \in Nat /\ Len(transcript) <= Len(transcript')
      /\ \A i \in 1 .. Len(transcript) : transcript'[i] = transcript[i]
  BY <1>1
<1>3. ASSUME j + Len(transcript[j].calls) <= Len(transcript)
      PROVE  /\ j + Len(transcript[j].calls) <= Len(transcript')
             /\ transcript'[j + Len(transcript[j].calls)] = transcript[j + Len(transcript[j].calls)]
  <2>1. Len(transcript[j].calls) \in Nat /\ j \in 1 .. Len(transcript) /\ Len(transcript) \in Nat
    BY <1>1
  <2> QED BY <1>2, <1>3, <2>1
<1> QED BY <1>2, <1>3 DEF Settled

\* A step after which no batch is worked on keeps the invariant, if it settles the batch
\* that was.
LEMMA NoBatchAfter ==
  ASSUME IInv, TranscriptInv, NEW r \in Runs,
         \A q \in Runs : q # r => pc'[q] = "off", pc'[r] \notin BatchPCs,
         aborted \subseteq aborted', failedRuns \subseteq failedRuns',
         \/ transcript' = transcript
         \/ \E e \in Entries : /\ e.role # "toolResult" /\ (e.role = "assistant" => e.calls = <<>>)
                               /\ transcript' = Append(transcript, e),
         pc'[r] \in {"begin", "inject", "stream", "cancelled", "turnEnd"} =>
           context'[r] = transcript',
         \A j \in DOMAIN transcript : transcript[j].role = "assistant" /\ Open(j) => Settled(j)'
  PROVE  TranscriptInv'
<1>1. \A q \in Runs : pc'[q] \notin BatchPCs /\ (q # r => pc'[q] = "off")
  BY DEF BatchPCs
<1>2. BatchInv' /\ TailInv'
  BY <1>1 DEF BatchInv, TailInv, BatchPCs
<1>3. ContextInv'
  BY <1>1 DEF ContextInv
<1>4. ResultsFollowTheirCalls'
  <2>1. Follows(transcript')
    BY FollowsOther, FollowsIs, BatchTypes DEF TranscriptInv
  <2> QED BY <2>1 DEF ResultsFollowTheirCalls, Follows
<1>5. AnsweredInv'
  <2> SUFFICES ASSUME NEW j \in DOMAIN transcript', transcript'[j].role = "assistant"
               PROVE  Settled(j)'
    BY DEF AnsweredInv
  <2>1. CASE j \in DOMAIN transcript
    <3>1. transcript'[j] = transcript[j]
      <4>1. \A e \in Entries : Append(transcript, e)[j] = transcript[j]
        BY <2>1, BatchTypes
      <4> QED BY <4>1
    <3>2. Settled(j) \/ Open(j)
      BY <2>1, <3>1 DEF TranscriptInv, AnsweredInv
    <3>3. Settled(j) => Settled(j)'
      BY <2>1, <3>1, SettledStays
    <3> QED BY <2>1, <3>1, <3>2, <3>3
  <2>2. CASE j \notin DOMAIN transcript
    <3>1. PICK e \in Entries : /\ e.role # "toolResult" /\ (e.role = "assistant" => e.calls = <<>>)
                               /\ transcript' = Append(transcript, e)
      BY <2>2
    <3>2. transcript'[j] = e
      BY <2>2, <3>1, BatchTypes
    <3> QED BY <3>1, <3>2 DEF Settled
  <2> QED BY <2>1, <2>2
<1> QED BY <1>2, <1>3, <1>4, <1>5 DEF TranscriptInv

\* Where a run is not at a batch, no answer is open.
LEMMA NothingOpen ==
  ASSUME IInv, \A q \in Runs : pc[q] \notin BatchPCs
  PROVE  \A j \in DOMAIN transcript : transcript[j].role = "assistant" => ~ Open(j)
BY AnswerFields DEF Open

\* While a run is under way, the others are off, and stay off when it takes a step.
LEMMA OthersOff ==
  ASSUME SingleRun, NEW r \in Runs, pc[r] # "off"
  PROVE  \A q \in Runs : q # r => pc[q] = "off"
BY DEF SingleRun

LEMMA RunMoves ==
  ASSUME IInv, SingleRun, NEW r \in Runs, RunStep(r)
  PROVE  pc[r] # "off" /\ \A q \in Runs : q # r => pc[q] = "off" /\ pc'[q] = "off"
<1>1. pc[r] # "off" /\ \A q \in Runs : q # r => pc'[q] = pc[q]
  <2>1. CASE Provider(r) \/ Fail(r)
    BY <2>1, BatchTypes DEF Provider, AnswerFails, AnswerText, AnswerCalls, Fail
  <2>5. CASE EmitFailure(r) \/ FailAgain(r)
    BY <2>5, BatchTypes DEF EmitFailure, FailAgain, FailurePCs
  <2>2. CASE Inject(r) \/ FirstPoll(r) \/ CallProvider(r) \/ Join(r) \/ Report(r)
    BY <2>2, BatchTypes DEF Inject, FirstPoll, CallProvider, Join, Report
  <2>3. CASE PrepareCall(r) \/ LaunchAll(r) \/ CloseBatch(r)
    BY <2>3, BatchTypes DEF PrepareCall, BetweenCalls, LaunchAll, CloseBatch
  <2>4. CASE Poll(r) \/ FinishRun(r)
    BY <2>4, BatchTypes DEF Poll, FinishRun
  <2> QED BY <2>1, <2>2, <2>3, <2>4, <2>5 DEF RunStep, Loop
<1> QED BY <1>1, OthersOff

\* The model asks for tools.
LEMMA AnswerCallsTranscript ==
  ASSUME IInv, SingleRun, TranscriptInv, NEW r \in Runs, NEW n \in 1 .. MaxCalls,
         NEW m \in ExecutionModes, AnswerCalls(r, n, m)
  PROVE  TranscriptInv'
<1> DEFINE cs == [i \in 1 .. n |-> nextCall + i - 1]
           a == Answer(r, "toolUse", cs)
<1>1. /\ transcript' = Append(transcript, a)
      /\ context' = [context EXCEPT ![r] = Append(context[r], a)]
      /\ batch' = [batch EXCEPT ![r] = cs] /\ mode' = [mode EXCEPT ![r] = m]
      /\ reported' = [reported EXCEPT ![r] = 0]
      /\ pc' = [pc EXCEPT ![r] = "prepare"] /\ pc[r] = "stream"
      /\ UNCHANGED <<aborted, failedRuns>> /\ nextCall + n <= MaxCalls + 1
  BY DEF AnswerCalls, AddAnswer
<1>2. cs \in Seq(Calls) /\ Len(cs) = n /\ n > 0
  BY <1>1, FreshCalls, BatchTypes, Numbers
<1> HIDE DEF cs
<1>3. a \in Entries /\ a.role = "assistant" /\ a.calls = cs /\ a.run = r
  BY <1>2, EntryTypes DEF Answer
<1> HIDE DEF a
<1>4. /\ batch'[r] = cs /\ mode'[r] = m /\ reported'[r] = 0 /\ pc'[r] = "prepare"
      /\ context'[r] = Append(context[r], a)
      /\ \A q \in Runs : q # r => pc[q] = "off" /\ pc'[q] = "off"
  BY <1>1, OthersOff, BatchTypes
<1>5. /\ Len(transcript') = Len(transcript) + 1 /\ Len(transcript) \in Nat
      /\ transcript'[Len(transcript) + 1] = a /\ DOMAIN transcript' = 1 .. Len(transcript) + 1
  BY <1>1, BatchTypes
<1>6. BatchInv'
  BY <1>2, <1>4 DEF BatchInv, BatchPCs
<1>7. Asked(r)' = Len(transcript) + 1
  BY <1>4, <1>5 DEF Asked
<1>8. TailInv'
  <2>1. /\ Asked(r)' > 0 /\ transcript'[Asked(r)'] = Answer(r, "toolUse", batch'[r])
        /\ 1 .. reported'[r] = {}
    BY <1>4, <1>5, <1>7 DEF a
  <2> QED BY <1>4, <2>1 DEF TailInv, BatchPCs
<1>9. ContextInv'
  <2>1. context[r] = transcript
    BY <1>1 DEF TranscriptInv, ContextInv
  <2>2. Results(r)' = <<>>
    BY <1>4 DEF Results
  <2>3. transcript' = context'[r] \o Results(r)'
    BY <1>1, <1>3, <1>4, <2>1, <2>2, BatchTypes
  <2> QED BY <1>4, <2>3 DEF ContextInv, BatchPCs
<1>10. ResultsFollowTheirCalls'
  <2>1. Follows(transcript')
    BY <1>1, <1>3, FollowsOther, FollowsIs, BatchTypes DEF TranscriptInv
  <2> QED BY <2>1 DEF ResultsFollowTheirCalls, Follows
<1>11. AnsweredInv'
  <2> SUFFICES ASSUME NEW j \in DOMAIN transcript', transcript'[j].role = "assistant"
               PROVE  Settled(j)' \/ Open(j)'
    BY DEF AnsweredInv
  <2>1. CASE j \in DOMAIN transcript
    <3>1. transcript'[j] = transcript[j]
      BY <1>1, <2>1, BatchTypes
    <3>2. ~ Open(j)
      BY <1>1, <1>4, <2>1, <3>1, NothingOpen DEF BatchPCs
    <3>3. Settled(j)
      BY <2>1, <3>1, <3>2 DEF TranscriptInv, AnsweredInv
    <3> QED BY <1>1, <2>1, <3>1, <3>3, SettledStays
  <2>2. CASE j \notin DOMAIN transcript
    <3>1. j = Len(transcript) + 1 /\ transcript'[j] = a
      BY <1>5, <2>2, BatchTypes
    <3> QED BY <1>3, <1>4, <1>7, <3>1 DEF Open, BatchPCs
  <2> QED BY <2>1, <2>2
<1> QED BY <1>6, <1>8, <1>9, <1>10, <1>11 DEF TranscriptInv

\* Calls start and end: the transcript stays as it is.
LEMMA BatchMoves ==
  ASSUME IInv, TranscriptInv, NEW r \in Runs, pc[r] \in BatchPCs, pc'[r] \in BatchPCs,
         \A q \in Runs : q # r => pc[q] = "off" /\ pc'[q] = "off",
         UNCHANGED <<transcript, context, batch, mode, reported, aborted, failedRuns>>,
         pc'[r] \in {"execute", "report"} /\ mode[r] = "parallel" =>
           announced'[r] = Len(batch[r]) \/ Cut(r)'
  PROVE  TranscriptInv'
<1>1. \A q \in Runs : /\ pc'[q] \in BatchPCs => pc[q] \in BatchPCs /\ q = r
                      /\ pc'[q] \in {"begin", "inject", "stream", "cancelled", "turnEnd"} => FALSE
  BY DEF BatchPCs
<1>2. BatchInv'
  BY <1>1 DEF TranscriptInv, BatchInv, BatchPCs
<1>3. TailInv'
  BY <1>1 DEF TranscriptInv, TailInv, Asked
<1>4. ContextInv'
  BY <1>1 DEF TranscriptInv, ContextInv, Results
<1>5. ResultsFollowTheirCalls'
  BY DEF TranscriptInv, ResultsFollowTheirCalls
<1>6. AnsweredInv'
  <2> SUFFICES ASSUME NEW j \in DOMAIN transcript, transcript[j].role = "assistant"
               PROVE  Settled(j)' \/ Open(j)'
    BY DEF AnsweredInv
  <2>1. transcript[j].run \in Runs
    BY AnswerFields
  <2>2. Open(j) => Open(j)'
    <3>1. Open(j) => transcript[j].run = r
      BY <2>1 DEF Open, BatchPCs
    <3> QED BY <3>1 DEF Open, Asked
  <2> QED BY <2>2 DEF TranscriptInv, AnsweredInv, Settled
<1> QED BY <1>2, <1>3, <1>4, <1>5, <1>6 DEF TranscriptInv

\* What is appended to a concatenation is appended to its last part.
LEMMA AppendToParts ==
  ASSUME NEW s \in Seq(Entries), NEW t \in Seq(Entries), NEW e \in Entries
  PROVE  Append(s \o t, e) = s \o Append(t, e)
OBVIOUS

\* The result of a call is told to the listeners.
LEMMA ReportTranscript ==
  ASSUME IInv, SingleRun, TranscriptInv, NEW r \in Runs, Report(r)
  PROVE  TranscriptInv'
<1> DEFINE n == reported[r]
           e == ResultOf(batch[r][n + 1])
           j == Asked(r)
<1>1. /\ pc[r] = "report" /\ reported[r] < announced[r]
      /\ transcript' = Append(transcript, e)
      /\ reported' = [reported EXCEPT ![r] = n + 1]
      /\ UNCHANGED <<pc, context, batch, mode, announced, aborted, failedRuns>>
  BY DEF Report, ReportedNext, loopVars
<1>2. /\ n \in Nat /\ n + 1 \in DOMAIN batch[r] /\ batch[r] \in Seq(Calls)
      /\ transcript \in Seq(Entries) /\ DOMAIN transcript = 1 .. Len(transcript)
      /\ Len(transcript) \in Nat
  <2>1. n < announced[r] /\ announced[r] <= Len(batch[r]) /\ n \in Nat /\ announced[r] \in Nat
    BY <1>1, BatchTypes
  <2> QED BY <2>1, BatchTypes
<1>3. e.role = "toolResult" /\ e.call = batch[r][n + 1] /\ e \in Entries
  <2>1. batch[r][n + 1] \in Calls
    BY <1>2
  <2> QED BY <2>1, EntryTypes DEF ResultOf
<1>4. /\ j > 0 /\ j = Len(transcript) - n
      /\ transcript[j] = Answer(r, "toolUse", batch[r])
      /\ \A k \in 1 .. n : transcript[j + k] = ResultOf(batch[r][k])
  BY <1>1 DEF TranscriptInv, TailInv, BatchPCs, Asked
<1>5. /\ reported'[r] = n + 1 /\ Asked(r)' = j
      /\ Len(transcript') = Len(transcript) + 1 /\ transcript'[Len(transcript) + 1] = e
      /\ DOMAIN transcript' = 1 .. Len(transcript) + 1
      /\ \A i \in 1 .. Len(transcript) : transcript'[i] = transcript[i]
  <2>1. reported'[r] = n + 1
    BY <1>1, BatchTypes
  <2>2. /\ Len(transcript') = Len(transcript) + 1 /\ transcript'[Len(transcript) + 1] = e
        /\ DOMAIN transcript' = 1 .. Len(transcript) + 1
        /\ \A i \in 1 .. Len(transcript) : transcript'[i] = transcript[i]
    BY <1>1, <1>2
  <2> QED BY <1>2, <1>4, <2>1, <2>2 DEF Asked
<1> HIDE DEF e, j
<1>6. \A q \in Runs : q # r => pc[q] = "off" /\ pc'[q] = "off"
  BY <1>1, OthersOff
<1>7. BatchInv'
  BY <1>1 DEF TranscriptInv, BatchInv, Cut
<1>8. TailInv'
  <2>1. transcript'[j] = Answer(r, "toolUse", batch[r])
    BY <1>2, <1>4, <1>5
  <2>2. ASSUME NEW k \in 1 .. n + 1 PROVE transcript'[j + k] = ResultOf(batch[r][k])
    <3>1. CASE k = n + 1
      BY <1>2, <1>4, <1>5, <3>1 DEF e
    <3>2. CASE k # n + 1
      <4>1. k \in 1 .. n /\ j + k \in 1 .. Len(transcript)
        BY <1>2, <1>4, <3>2
      <4> QED BY <1>4, <1>5, <4>1
    <3> QED BY <3>1, <3>2
  <2>3. \A q \in Runs : pc'[q] \in BatchPCs => q = r
    BY <1>6 DEF BatchPCs
  <2>4. /\ Asked(r)' > 0 /\ transcript'[Asked(r)'] = Answer(r, "toolUse", batch'[r])
        /\ \A k \in 1 .. reported'[r] : transcript'[Asked(r)' + k] = ResultOf(batch'[r][k])
    BY <1>1, <1>4, <1>5, <2>1, <2>2
  <2> QED BY <2>3, <2>4 DEF TailInv
<1>9. ContextInv'
  <2>1. transcript = context[r] \o Results(r)
    BY <1>1 DEF TranscriptInv, ContextInv, BatchPCs
  <2>2. Results(r)' = Append(Results(r), e)
    <3>1. Results(r) = [i \in 1 .. n |-> ResultOf(batch[r][i])]
      BY DEF Results
    <3>2. Results(r)' = [i \in 1 .. n + 1 |-> ResultOf(batch[r][i])]
      BY <1>1, <1>5 DEF Results
    <3>3. Len(Results(r)) = n
      BY <1>2, <3>1
    <3> QED BY <1>2, <3>1, <3>2, <3>3 DEF e
  <2>3. Results(r) \in Seq(Entries)
    <3>1. \A i \in 1 .. n : batch[r][i] \in Calls
      BY <1>2
    <3>2. \A i \in 1 .. n : ResultOf(batch[r][i]) \in Entries
      BY <3>1, EntryTypes
    <3>3. Results(r) \in [1 .. n -> Entries]
      BY <3>2 DEF Results
    <3> QED BY <1>2, <3>3
  <2>4. transcript' = context[r] \o Append(Results(r), e)
    <3>1. context[r] \in Seq(Entries)
      BY BatchTypes
    <3>2. Append(context[r] \o Results(r), e) = context[r] \o Append(Results(r), e)
      BY <1>3, <2>3, <3>1, AppendToParts
    <3> QED BY <1>1, <2>1, <3>2
  <2> QED BY <1>1, <1>6, <2>2, <2>4 DEF ContextInv, BatchPCs
<1>10. ResultsFollowTheirCalls'
  <2>1. /\ j \in DOMAIN transcript /\ transcript[j].role = "assistant"
        /\ transcript[j].calls = batch[r] /\ Len(transcript) + 1 - j = n + 1
    BY <1>2, <1>4 DEF Answer
  <2>2. ASSUME NEW k \in j + 1 .. Len(transcript) PROVE transcript[k].role = "toolResult"
    <3>1. k - j \in 1 .. n /\ k = j + (k - j)
      BY <1>2, <1>4
    <3>2. transcript[k] = ResultOf(batch[r][k - j])
      BY <1>4, <3>1
    <3> QED BY <3>2 DEF ResultOf
  <2>3. Follows(transcript')
    BY <1>1, <1>2, <1>3, <2>1, <2>2, FollowsResult, FollowsIs DEF TranscriptInv
  <2> QED BY <2>3 DEF ResultsFollowTheirCalls, Follows
<1>11. AnsweredInv'
  <2> SUFFICES ASSUME NEW i \in DOMAIN transcript', transcript'[i].role = "assistant"
               PROVE  Settled(i)' \/ Open(i)'
    BY DEF AnsweredInv
  <2>1. i \in DOMAIN transcript /\ transcript'[i] = transcript[i]
    BY <1>2, <1>3, <1>5
  <2>2. Settled(i) => Settled(i)'
    BY <1>1, <2>1, SettledStays
  <2>3. Open(i) => Open(i)'
    <3>1. transcript[i].run \in Runs
      BY <2>1, AnswerFields
    <3>2. Open(i) => transcript[i].run = r
      BY <1>6, <3>1 DEF Open, BatchPCs
    <3> QED BY <1>1, <1>5, <2>1, <3>2 DEF Open, j
  <2> QED BY <2>1, <2>2, <2>3 DEF TranscriptInv, AnsweredInv
<1> QED BY <1>7, <1>8, <1>9, <1>10, <1>11 DEF TranscriptInv

\* A batch is closed when its last result is told, or when it was cut.
LEMMA CloseBatchTranscript ==
  ASSUME IInv, SingleRun, TranscriptInv, NEW r \in Runs, CloseBatch(r)
  PROVE  TranscriptInv'
<1>1. /\ pc[r] = "report" /\ reported[r] = announced[r]
      /\ mode[r] = "parallel" \/ announced[r] = Len(batch[r]) \/ Cut(r)
      /\ context' = [context EXCEPT ![r] = context[r] \o Results(r)]
      /\ pc' = [pc EXCEPT ![r] = "turnEnd"]
      /\ UNCHANGED <<transcript, aborted, failedRuns>>
  BY DEF CloseBatch, agentVars
<1>2. /\ \A q \in Runs : q # r => pc[q] = "off" /\ pc'[q] = "off"
      /\ pc'[r] = "turnEnd" /\ context'[r] = context[r] \o Results(r)
  BY <1>1, OthersOff, BatchTypes
<1>3. context'[r] = transcript'
  BY <1>1, <1>2 DEF TranscriptInv, ContextInv, BatchPCs
<1>4. announced[r] = Len(batch[r]) \/ Cut(r)
  BY <1>1 DEF TranscriptInv, BatchInv
<1>5. ASSUME NEW j \in DOMAIN transcript, transcript[j].role = "assistant", Open(j)
      PROVE  Settled(j)'
  <2>1. transcript[j].run = r /\ j = Asked(r) /\ transcript[j].calls = batch[r]
    <3>1. transcript[j].run \in Runs
      BY <1>5, AnswerFields
    <3>2. transcript[j].run = r
      BY <1>2, <1>5, <3>1 DEF Open, BatchPCs
    <3> QED BY <1>5, <3>2 DEF Open
  <2>2. CASE Cut(r)
    BY <1>1, <2>1, <2>2 DEF Cut, Settled
  <2>3. CASE announced[r] = Len(batch[r])
    <3>1. /\ Len(transcript) \in Nat /\ Len(batch[r]) \in Nat /\ Len(batch[r]) > 0
          /\ j = Len(transcript) - Len(batch[r]) /\ reported[r] = Len(batch[r])
      BY <1>1, <2>1, <2>3, BatchTypes DEF Asked, TranscriptInv, BatchInv, BatchPCs
    <3>2. transcript[j + Len(batch[r])] = ResultOf(batch[r][Len(batch[r])])
      <4>1. \A k \in 1 .. reported[r] : transcript[Asked(r) + k] = ResultOf(batch[r][k])
        BY <1>1 DEF TranscriptInv, TailInv, BatchPCs
      <4>2. Len(batch[r]) \in 1 .. reported[r]
        BY <3>1
      <4> QED BY <2>1, <4>1, <4>2
    <3>3. j + Len(batch[r]) = Len(transcript)
      BY <3>1
    <3> QED BY <1>1, <2>1, <3>2, <3>3 DEF Settled, ResultOf
  <2> QED BY <1>4, <2>2, <2>3
<1> QED BY <1>1, <1>2, <1>3, <1>5, NoBatchAfter DEF BatchPCs

\* A step that leaves the transcript, the contexts and the batches as they are.
LEMMA NothingTold ==
  ASSUME IInv, TranscriptInv, aborted \subseteq aborted',
         UNCHANGED <<transcript, context, pc, batchVars, failedRuns>>
  PROVE  TranscriptInv'
<1>1. BatchInv'
  BY DEF TranscriptInv, BatchInv, Cut, batchVars
<1>2. TailInv'
  BY DEF TranscriptInv, TailInv, Asked, batchVars
<1>3. ContextInv'
  BY DEF TranscriptInv, ContextInv, Results, batchVars
<1>4. ResultsFollowTheirCalls'
  BY DEF TranscriptInv, ResultsFollowTheirCalls
<1>5. AnsweredInv'
  BY DEF TranscriptInv, AnsweredInv, Settled, Open, Asked, batchVars
<1> QED BY <1>1, <1>2, <1>3, <1>4, <1>5 DEF TranscriptInv

\* The calls of the owner.
LEMMA OwnerTranscript ==
  ASSUME IInv, SingleRun, TranscriptInv, Owner, [Reset => activeRun = 0]_vars
  PROVE  TranscriptInv'
<1>1. CASE UNCHANGED vars
  BY <1>1, NothingTold DEF vars, agentVars, loopVars, batchVars
<1>2. ASSUME NEW m \in Msgs, Steer(m) \/ FollowUp(m) PROVE TranscriptInv'
  BY <1>2, NothingTold DEF Steer, FollowUp, agentVars, loopVars
<1>3. CASE ClearSteeringQueue \/ ClearFollowUpQueue \/ Abort
  BY <1>3, NothingTold DEF ClearSteeringQueue, ClearFollowUpQueue, Abort, agentVars, loopVars
<1>4. ASSUME activeRun = 0
      PROVE  \A q \in Runs : pc[q] = "off" /\ pc[q] \notin BatchPCs
  BY <1>4, Numbers DEF SingleRun, BatchPCs
<1>5. ASSUME NEW msgs, NEW skip, StartRun(msgs, skip) PROVE TranscriptInv'
  <2> DEFINE r == runs + 1
  <2>1. /\ r \in Runs /\ activeRun = 0 /\ pc' = [pc EXCEPT ![r] = "begin"]
        /\ context' = [context EXCEPT ![r] = transcript]
        /\ UNCHANGED <<transcript, aborted, failedRuns>>
    BY <1>5 DEF StartRun, Idle
  <2> HIDE DEF r
  <2>2. /\ pc'[r] = "begin" /\ context'[r] = transcript'
        /\ \A q \in Runs : q # r => pc'[q] = "off"
    BY <1>4, <2>1, BatchTypes
  <2>3. \A j \in DOMAIN transcript : transcript[j].role = "assistant" => ~ Open(j)
    BY <1>4, <2>1, NothingOpen
  <2> QED BY <2>1, <2>2, <2>3, NoBatchAfter DEF BatchPCs
<1>6. ASSUME NEW m \in Msgs, Prompt(m) PROVE TranscriptInv'
  BY <1>5, <1>6 DEF Prompt
<1>7. CASE Continue
  BY <1>5, <1>7 DEF Continue
<1>8. CASE Reset /\ activeRun = 0
  <2>1. transcript' = <<>> /\ UNCHANGED pc
    BY <1>8 DEF Reset
  <2>2. \A q \in Runs : pc'[q] = "off"
    BY <1>4, <1>8, <2>1
  <2>3. DOMAIN transcript' = {}
    BY <2>1
  <2> QED BY <2>2, <2>3
          DEF TranscriptInv, BatchInv, TailInv, ContextInv, ResultsFollowTheirCalls, AnsweredInv,
              BatchPCs
<1> QED BY <1>1, <1>2, <1>3, <1>6, <1>7, <1>8 DEF Owner

\* The steps of a run.
LEMMA RunTranscript ==
  ASSUME IInv, SingleRun, TranscriptInv, NEW r \in Runs, RunStep(r)
  PROVE  TranscriptInv'
<1>1. pc[r] # "off" /\ \A q \in Runs : q # r => pc[q] = "off" /\ pc'[q] = "off"
  BY RunMoves
<1>2. ASSUME pc[r] \notin BatchPCs
      PROVE  \A j \in DOMAIN transcript : transcript[j].role = "assistant" => ~ Open(j)
  BY <1>1, <1>2, NothingOpen DEF BatchPCs
<1>3. ASSUME pc[r] \notin BatchPCs, pc'[r] \notin BatchPCs,
             aborted' = aborted, failedRuns \subseteq failedRuns',
             \/ transcript' = transcript
             \/ \E e \in Entries : /\ e.role # "toolResult"
                                   /\ (e.role = "assistant" => e.calls = <<>>)
                                   /\ transcript' = Append(transcript, e),
             pc'[r] \in {"begin", "inject", "stream", "cancelled", "turnEnd"} =>
               context'[r] = transcript'
      PROVE  TranscriptInv'
  BY <1>1, <1>2, <1>3, NoBatchAfter
<1>4. pc[r] \in {"begin", "inject", "stream", "cancelled", "turnEnd"} => context[r] = transcript
  BY DEF TranscriptInv, ContextInv
<1>5. \A s \in {"stop", "error", "aborted"} :
        LET e == Answer(r, s, <<>>)
        IN  e \in Entries /\ e.role # "toolResult" /\ e.calls = <<>>
  <2>1. <<>> \in Seq(Calls)
    OBVIOUS
  <2> QED BY <2>1, EntryTypes DEF Answer
<1>6. CASE Inject(r)
  <2> DEFINE e == User(Head(pending[r]))
  <2>1. /\ transcript' = Append(transcript, e)
        /\ context' = [context EXCEPT ![r] = Append(context[r], e)]
        /\ pc[r] \in {"begin", "inject"} /\ pending[r] # <<>>
        /\ UNCHANGED <<pc, aborted, failedRuns>>
    BY <1>6 DEF Inject
  <2>2. e \in Entries /\ e.role = "user"
    <3>1. Head(pending[r]) \in Msgs
      BY <2>1, MessageTypes
    <3> QED BY <3>1, EntryTypes DEF User
  <2> HIDE DEF e
  <2>3. context'[r] = transcript'
    BY <1>4, <2>1, BatchTypes
  <2>4. pc[r] \notin BatchPCs /\ pc'[r] \notin BatchPCs
    BY <2>1 DEF BatchPCs
  <2>5. \E x \in Entries : /\ x.role # "toolResult" /\ (x.role = "assistant" => x.calls = <<>>)
                           /\ transcript' = Append(transcript, x)
    BY <2>1, <2>2
  <2> QED BY <1>3, <2>1, <2>3, <2>4, <2>5
<1>7. CASE FirstPoll(r) \/ CallProvider(r) \/ Poll(r)
  <2>1. /\ pc[r] \in {"begin", "inject", "turnEnd"} /\ pc'[r] \notin BatchPCs
        /\ UNCHANGED <<transcript, context, aborted, failedRuns>>
    BY <1>7, BatchTypes DEF FirstPoll, CallProvider, Poll, agentVars, loopVars, BatchPCs
  <2>2. pc[r] \notin BatchPCs
    BY <2>1 DEF BatchPCs
  <2> QED BY <1>3, <1>4, <2>1, <2>2
<1>8. CASE AnswerFails(r) \/ AnswerText(r)
  <2>1. PICK s \in {"stop", "error", "aborted"} : AddAnswer(r, Answer(r, s, <<>>))
    BY <1>8 DEF AnswerFails, AnswerText
  <2>2. /\ pc[r] \in {"stream", "cancelled"} /\ pc'[r] \in {"ending", "turnEnd"}
        /\ UNCHANGED <<aborted, failedRuns>>
    BY <1>8, BatchTypes DEF AnswerFails, AnswerText
  <2>3. context'[r] = transcript'
    BY <1>4, <2>1, <2>2, BatchTypes DEF AddAnswer
  <2>4. pc[r] \notin BatchPCs /\ pc'[r] \notin BatchPCs
    BY <2>2 DEF BatchPCs
  <2>5. \E x \in Entries : /\ x.role # "toolResult" /\ (x.role = "assistant" => x.calls = <<>>)
                           /\ transcript' = Append(transcript, x)
    BY <1>5, <2>1 DEF AddAnswer
  <2> QED BY <1>3, <2>2, <2>3, <2>4, <2>5
<1>9. ASSUME NEW n \in 1 .. MaxCalls, NEW m \in ExecutionModes, AnswerCalls(r, n, m)
      PROVE  TranscriptInv'
  BY <1>9, AnswerCallsTranscript
<1>10. CASE PrepareCall(r)
  <2>1. /\ pc[r] \in {"prepare", "report"} /\ (pc[r] = "report" => mode[r] = "sequential")
        /\ pc'[r] \in BatchPCs
        /\ mode[r] = "parallel" => pc'[r] = pc[r]
        /\ UNCHANGED <<transcript, context, batch, mode, reported, aborted, failedRuns>>
    BY <1>10, BatchTypes DEF PrepareCall, BetweenCalls, loopVars, BatchPCs
  <2>2. pc[r] \in BatchPCs
    BY <2>1 DEF BatchPCs
  <2> QED BY <1>1, <2>1, <2>2, BatchMoves
<1>11. CASE LaunchAll(r)
  <2>1. /\ pc[r] \in BatchPCs /\ pc'[r] \in BatchPCs
        /\ announced[r] = Len(batch[r]) \/ Cut(r)
        /\ UNCHANGED <<transcript, context, batch, mode, announced, reported, aborted, failedRuns>>
    BY <1>11, BatchTypes DEF LaunchAll, agentVars, loopVars, batchVars, BatchPCs
  <2> QED BY <1>1, <2>1, BatchMoves DEF Cut
<1>12. CASE Join(r)
  <2>1. /\ pc[r] = "execute" /\ pc[r] \in BatchPCs /\ pc'[r] \in BatchPCs
        /\ UNCHANGED <<transcript, context, batch, mode, announced, reported, aborted, failedRuns>>
    BY <1>12, BatchTypes DEF Join, agentVars, loopVars, batchVars, BatchPCs
  <2>2. mode[r] = "parallel" => announced[r] = Len(batch[r]) \/ Cut(r)
    BY <2>1 DEF TranscriptInv, BatchInv
  <2> QED BY <1>1, <2>1, <2>2, BatchMoves DEF Cut
<1>13. CASE Report(r)
  BY <1>13, ReportTranscript
<1>14. CASE CloseBatch(r)
  BY <1>14, CloseBatchTranscript
<1>15. CASE Fail(r)
  <2>1. /\ pc'[r] \in FailurePCs /\ failedRuns' = failedRuns \cup {r}
        /\ UNCHANGED <<aborted, transcript>>
    BY <1>15, BatchTypes DEF Fail, FailurePCs
  <2>2. ASSUME NEW j \in DOMAIN transcript, transcript[j].role = "assistant", Open(j)
        PROVE  Settled(j)'
    <3>1. transcript[j].run \in Runs
      BY <2>2, AnswerFields
    <3>2. transcript[j].run = r
      BY <1>1, <2>2, <3>1 DEF Open, BatchPCs
    <3> QED BY <2>1, <3>2 DEF Settled
  <2> QED BY <1>1, <2>1, <2>2, NoBatchAfter DEF BatchPCs, FailurePCs
<1>16. CASE FinishRun(r)
  <2>1. /\ pc[r] \notin BatchPCs /\ pc'[r] = "off"
        /\ UNCHANGED <<transcript, aborted, failedRuns>>
    BY <1>16, BatchTypes DEF FinishRun, BatchPCs
  <2> QED BY <1>3, <2>1 DEF BatchPCs
<1>17. CASE EmitFailure(r) \/ FailAgain(r)
  <2>1. /\ pc[r] \in FailurePCs /\ pc'[r] \in FailurePCs \cup {"failed"}
        /\ UNCHANGED <<aborted, failedRuns>>
        /\ \/ transcript' = transcript
           \/ \E s \in {"error", "aborted"} : transcript' = Append(transcript, Answer(r, s, <<>>))
    BY <1>17, BatchTypes DEF EmitFailure, FailAgain, FailurePCs, agentVars
  <2>2. \/ transcript' = transcript
        \/ \E x \in Entries : /\ x.role # "toolResult" /\ (x.role = "assistant" => x.calls = <<>>)
                              /\ transcript' = Append(transcript, x)
    BY <1>5, <2>1
  <2>3. /\ pc[r] \notin BatchPCs /\ pc'[r] \notin BatchPCs
        /\ pc'[r] \notin {"begin", "inject", "stream", "cancelled", "turnEnd"}
    BY <2>1 DEF BatchPCs, FailurePCs
  <2> QED BY <1>3, <2>1, <2>2, <2>3
<1> QED BY <1>6, <1>7, <1>8, <1>9, <1>10, <1>11, <1>12, <1>13, <1>14, <1>15, <1>16, <1>17
        DEF RunStep, Loop, Provider

LEMMA TranscriptInductive ==
  (Init => TranscriptInv) /\ (IInv /\ SingleRun /\ TranscriptInv /\ IdleNext => TranscriptInv')
<1>1. Init => TranscriptInv
  BY DEF Init, TranscriptInv, BatchInv, TailInv, ContextInv, ResultsFollowTheirCalls, AnsweredInv,
         BatchPCs
<1>2. ASSUME IInv, SingleRun, TranscriptInv, IdleNext PROVE TranscriptInv'
  <2>1. CASE Owner
    BY <1>2, <2>1, OwnerTranscript DEF IdleNext
  <2>2. ASSUME NEW r \in Runs, RunStep(r) PROVE TranscriptInv'
    BY <1>2, <2>2, RunTranscript
  <2>3. ASSUME NEW c \in Calls, ToolEnds(c) PROVE TranscriptInv'
    BY <1>2, <2>3, NothingTold DEF ToolEnds, loopVars
  <2>4. CASE UNCHANGED vars
    BY <1>2, <2>4, NothingTold DEF vars, agentVars, loopVars
  <2> QED BY <1>2, <2>1, <2>2, <2>3, <2>4 DEF IdleNext, Next, RunStep
<1> QED BY <1>1, <1>2

LEMMA TranscriptInvHolds == Spec /\ ResetsWhenIdle => []TranscriptInv
<1>1. RunInv /\ TranscriptInv /\ [Next]_vars /\ [Reset => activeRun = 0]_vars => TranscriptInv'
  BY TranscriptInductive DEF RunInv, IdleNext
<1> QED BY <1>1, TranscriptInductive, RunInvHolds, PTL DEF Spec, ResetsWhenIdle

\* Whatever is queued, aborted or thrown, and in whatever order tools end: a tool result in
\* the transcript stands behind the answer that asked for it, at the place of its call.
THEOREM ResultsFollow == Spec /\ ResetsWhenIdle => []ResultsFollowTheirCalls
<1>1. TranscriptInv => ResultsFollowTheirCalls
  BY DEF TranscriptInv
<1> QED BY <1>1, TranscriptInvHolds, PTL

\* No call is left unanswered but by an abort or an exception: the transcript that goes to
\* the provider pairs calls and results.
THEOREM CallsGetAnswered == Spec /\ ResetsWhenIdle => []CallsAreAnswered
<1>1. TranscriptInv => CallsAreAnswered
  BY DEF TranscriptInv, AnsweredInv, Settled, Open, CallsAreAnswered
<1> QED BY <1>1, TranscriptInvHolds, PTL

\* What the model is given is what the listeners were told.
THEOREM ModelIsToldAll == Spec /\ ResetsWhenIdle => []ModelSeesTranscript
<1>1. TranscriptInv => ModelSeesTranscript
  BY DEF TranscriptInv, ContextInv, ModelSeesTranscript
<1> QED BY <1>1, TranscriptInvHolds, PTL

-----------------------------------------------------------------------------
(* agent_end.  The comments of subscribe() and processEvents() promise     *)
(* that it is the last event of a run.  What breaks that is an exception:  *)
(* of a listener of agent_end itself, or one that leaves the tools of a    *)
(* parallel batch executing.                                               *)

\* agent_end is emitted by a run that is about to be over.
EndInv ==
  event.type = "agent_end" =>
    \A r \in Runs : pc[r] \in {"off", "ending", "failed"} /\ (pc[r] = "ending" => event.run = r)

\* What executes is awaited, or was made by a run that has failed.
AwaitedInv ==
  \A c \in Calls : callState[c] = "executing" =>
    \/ owner[c] \in failedRuns
    \/ \E r \in Runs : pc[r] = "execute" /\ c \in AnnouncedCalls(r)

FinalInv == EndInv /\ AwaitedInv

\* Steps that concern neither the calls nor the end of a run.
LEMMA FinalStays ==
  ASSUME FinalInv, UNCHANGED <<pc, batchVars, callState, owner, event, failedRuns>>
  PROVE  FinalInv'
BY DEF FinalInv, EndInv, AwaitedInv, AnnouncedCalls, batchVars

\* Steps of a run from a place where it awaits no tool.
LEMMA FinalMoves ==
  ASSUME FinalInv, NEW r \in Runs,
         \A q \in Runs : q # r => pc[q] = "off" /\ pc'[q] = "off",
         pc[r] # "execute",
         event'.type = "agent_end" =>
           pc'[r] \in {"off", "ending", "failed"} /\ (pc'[r] = "ending" => event'.run = r),
         \A c \in Calls : callState'[c] = "executing" =>
           callState[c] = "executing" /\ owner'[c] = owner[c],
         failedRuns \subseteq failedRuns'
  PROVE  FinalInv'
<1>1. EndInv'
  BY DEF EndInv
<1>2. \A q \in Runs : pc[q] # "execute"
  OBVIOUS
<1>3. AwaitedInv'
  BY <1>2 DEF FinalInv, AwaitedInv
<1> QED BY <1>1, <1>3 DEF FinalInv

\* The calls of the owner.
LEMMA OwnerFinal ==
  ASSUME IInv, SingleRun, FinalInv, Owner
  PROVE  FinalInv'
<1>1. ASSUME NEW msgs, NEW skip, StartRun(msgs, skip) PROVE FinalInv'
  <2> DEFINE r == runs + 1
  <2>1. /\ r \in Runs /\ activeRun = 0 /\ pc' = [pc EXCEPT ![r] = "begin"]
        /\ event' = Event("agent_start", r) /\ UNCHANGED <<callState, owner, failedRuns>>
    BY <1>1 DEF StartRun, Idle, callVars
  <2> HIDE DEF r
  <2>2. \A q \in Runs : pc[q] = "off"
    BY <2>1, Numbers DEF SingleRun
  <2>3. \A q \in Runs : q # r => pc'[q] = "off"
    BY <2>1, <2>2, BatchTypes
  <2>4. event'.type # "agent_end"
    BY <2>1 DEF Event
  <2> QED BY <2>1, <2>2, <2>3, <2>4, FinalMoves
<1>2. ASSUME NEW m \in Msgs, Steer(m) \/ FollowUp(m) \/ Prompt(m) PROVE FinalInv'
  BY <1>1, <1>2, FinalStays DEF Steer, FollowUp, Prompt, callVars
<1>3. CASE ClearSteeringQueue \/ ClearFollowUpQueue \/ Abort \/ Reset \/ Continue
  BY <1>1, <1>3, FinalStays
  DEF ClearSteeringQueue, ClearFollowUpQueue, Abort, Reset, Continue, callVars
<1> QED BY <1>2, <1>3 DEF Owner

\* A call starts: a sequential one executes, and is awaited.
LEMMA PrepareCallFinal ==
  ASSUME IInv, SingleRun, CallInv, FinalInv, NEW r \in Runs, PrepareCall(r)
  PROVE  FinalInv'
<1> DEFINE c == batch[r][announced[r] + 1]
<1>1. /\ pc[r] \in {"prepare", "report"} /\ announced[r] < Len(batch[r])
      /\ announced' = [announced EXCEPT ![r] = announced[r] + 1]
      /\ event'.type # "agent_end" /\ UNCHANGED <<batch, owner, failedRuns>>
  BY DEF PrepareCall, BetweenCalls, Event
<1>2. c \in Calls /\ announced'[r] = announced[r] + 1 /\ announced[r] \in Nat
  BY <1>1, AnnouncedOwned, BatchTypes
<1>3. \A q \in Runs : q # r => pc[q] = "off" /\ pc'[q] = "off"
  <2>1. RunStep(r)
    BY DEF RunStep, Loop
  <2> QED BY <2>1, RunMoves
<1>4. CASE \A d \in Calls : callState'[d] = "executing" => callState[d] = "executing"
  BY <1>1, <1>3, <1>4, FinalMoves
<1>5. CASE callState' = [callState EXCEPT ![c] = "executing"] /\ pc' = [pc EXCEPT ![r] = "execute"]
  <2>1. pc'[r] = "execute" /\ c \in AnnouncedCalls(r)'
    <3>1. announced'[r] \in 1 .. announced'[r]
      BY <1>2
    <3> QED BY <1>1, <1>2, <1>5, <3>1, BatchTypes DEF AnnouncedCalls
  <2>2. EndInv'
    BY <1>1 DEF EndInv
  <2>3. \A d \in Calls : callState[d] = "executing" => owner[d] \in failedRuns
    BY <1>1, <1>3 DEF FinalInv, AwaitedInv
  <2>4. AwaitedInv'
    BY <1>1, <1>2, <1>5, <2>1, <2>3, BatchTypes DEF AwaitedInv
  <2> QED BY <2>2, <2>4 DEF FinalInv
<1>6. \/ callState' = [callState EXCEPT ![c] = "executing"] /\ pc' = [pc EXCEPT ![r] = "execute"]
      \/ \E s \in {"immediate", "prepared"} : callState' = [callState EXCEPT ![c] = s]
  BY DEF PrepareCall
<1>7. ASSUME NEW s \in {"immediate", "prepared"}, callState' = [callState EXCEPT ![c] = s]
      PROVE  \A d \in Calls : callState'[d] = "executing" => callState[d] = "executing"
  BY <1>7, BatchTypes
<1> QED BY <1>4, <1>5, <1>6, <1>7

\* The prepared calls of a parallel batch start together, and are awaited together.
LEMMA LaunchAllFinal ==
  ASSUME IInv, SingleRun, FinalInv, NEW r \in Runs, LaunchAll(r)
  PROVE  FinalInv'
<1>1. /\ pc[r] = "prepare" /\ pc' = [pc EXCEPT ![r] = "execute"]
      /\ callState' = [d \in Calls |-> IF d \in AnnouncedCalls(r) /\ callState[d] = "prepared"
                                         THEN "executing" ELSE callState[d]]
      /\ UNCHANGED <<batch, announced, owner, event, failedRuns>>
  BY DEF LaunchAll, batchVars
<1>2. pc'[r] = "execute" /\ \A q \in Runs : q # r => pc[q] = "off" /\ pc'[q] = "off"
  BY <1>1, OthersOff, BatchTypes
<1>3. EndInv'
  BY <1>1, <1>2 DEF FinalInv, EndInv
<1>4. AwaitedInv'
  <2>1. AnnouncedCalls(r)' = AnnouncedCalls(r)
    BY <1>1 DEF AnnouncedCalls
  <2>2. \A d \in Calls : callState[d] = "executing" => owner[d] \in failedRuns
    BY <1>1, <1>2 DEF FinalInv, AwaitedInv
  <2> QED BY <1>1, <1>2, <2>1, <2>2 DEF AwaitedInv
<1> QED BY <1>3, <1>4 DEF FinalInv

\* Nothing that executes is left behind when the tools are joined.
LEMMA JoinFinal ==
  ASSUME IInv, SingleRun, FinalInv, NEW r \in Runs, Join(r)
  PROVE  FinalInv'
<1>1. /\ pc[r] = "execute" /\ pc' = [pc EXCEPT ![r] = "report"] /\ AllEnded(r)
      /\ UNCHANGED <<callState, owner, event, failedRuns>>
  BY DEF Join, callVars
<1>2. pc'[r] = "report" /\ \A q \in Runs : q # r => pc[q] = "off" /\ pc'[q] = "off"
  BY <1>1, OthersOff, BatchTypes
<1>3. EndInv'
  BY <1>1, <1>2 DEF FinalInv, EndInv
<1>4. \A d \in Calls : callState[d] = "executing" => owner[d] \in failedRuns
  BY <1>1, <1>2 DEF FinalInv, AwaitedInv, AllEnded, Ended
<1> QED BY <1>1, <1>3, <1>4 DEF FinalInv, AwaitedInv

\* A run that fails while it awaits tools leaves them behind as its own.
LEMMA FailFinal ==
  ASSUME IInv, SingleRun, CallInv, FinalInv, NEW r \in Runs, Fail(r)
  PROVE  FinalInv'
<1>1. /\ pc[r] # "off" /\ event'.type # "agent_end" /\ failedRuns' = failedRuns \cup {r}
      /\ UNCHANGED owner
  BY DEF Fail, Event
<1>2. \A d \in Calls : callState'[d] = "executing" => callState[d] = "executing"
  BY BatchTypes DEF Fail, Throws
<1>3. \A q \in Runs : q # r => pc[q] = "off"
  BY <1>1, OthersOff
<1>4. \A d \in Calls : callState[d] = "executing" => owner[d] \in failedRuns \cup {r}
  BY <1>3, AnnouncedOwned DEF FinalInv, AwaitedInv
<1>5. EndInv'
  BY <1>1 DEF EndInv
<1> QED BY <1>1, <1>2, <1>4, <1>5 DEF FinalInv, AwaitedInv

\* A tool ends.
LEMMA ToolEndsFinal ==
  ASSUME IInv, FinalInv, NEW c \in Calls, ToolEnds(c)
  PROVE  FinalInv'
<1>1. /\ callState' = [callState EXCEPT ![c] = "finalized"]
      /\ UNCHANGED <<pc, batch, announced, owner, failedRuns>>
      /\ event' = event \/ event'.type = "tool_execution_end"
  BY DEF ToolEnds, batchVars, Event
<1>2. \A d \in Calls : callState'[d] = "executing" => callState[d] = "executing"
  BY <1>1, BatchTypes
<1>3. AwaitedInv'
  BY <1>1, <1>2 DEF FinalInv, AwaitedInv, AnnouncedCalls
<1>4. EndInv'
  BY <1>1 DEF FinalInv, EndInv
<1> QED BY <1>3, <1>4 DEF FinalInv

\* The steps of a run.
LEMMA RunFinal ==
  ASSUME IInv, SingleRun, CallInv, FinalInv, NEW r \in Runs, RunStep(r)
  PROVE  FinalInv'
<1>1. pc[r] # "off" /\ \A q \in Runs : q # r => pc[q] = "off" /\ pc'[q] = "off"
  BY RunMoves
<1>2. ASSUME pc[r] # "execute",
             event'.type = "agent_end" =>
               pc'[r] \in {"off", "ending", "failed"} /\ (pc'[r] = "ending" => event'.run = r),
             UNCHANGED <<callState, owner, failedRuns>>
      PROVE  FinalInv'
  BY <1>1, <1>2, FinalMoves
<1>3. pc[r] \notin {"off", "ending", "failed"} => event.type # "agent_end"
  BY DEF FinalInv, EndInv
<1>4. CASE Inject(r) \/ FirstPoll(r) \/ CallProvider(r)
  <2>1. /\ pc[r] \in {"begin", "inject"}
        /\ event' = event \/ event'.type = "message_end"
        /\ UNCHANGED <<callState, owner, failedRuns>>
    BY <1>4, BatchTypes DEF Inject, FirstPoll, CallProvider, callVars, Event
  <2> QED BY <1>2, <1>3, <2>1
<1>5. CASE AnswerFails(r) \/ AnswerText(r)
  <2>1. /\ pc[r] \in {"stream", "cancelled"}
        /\ \/ pc'[r] = "ending" /\ event' = Event("agent_end", r)
           \/ pc'[r] = "turnEnd" /\ event'.type = "turn_end"
        /\ UNCHANGED <<callState, owner, failedRuns>>
    BY <1>5, BatchTypes DEF AnswerFails, AnswerText, callVars, Event
  <2> QED BY <1>2, <2>1 DEF Event
<1>6. ASSUME NEW n \in 1 .. MaxCalls, NEW m \in ExecutionModes, AnswerCalls(r, n, m)
      PROVE  FinalInv'
  <2> DEFINE cs == [i \in 1 .. n |-> nextCall + i - 1]
  <2>1. /\ pc[r] = "stream" /\ event'.type = "message_end"
        /\ owner' = [c \in Calls |-> IF c \in ToSet(cs) THEN r ELSE owner[c]]
        /\ UNCHANGED <<callState, failedRuns>>
    BY <1>6 DEF AnswerCalls, Event
  <2>2. \A c \in ToSet(cs) : c >= nextCall
    BY BatchTypes, Numbers DEF ToSet
  <2> HIDE DEF cs
  <2>3. \A c \in Calls : owner'[c] = owner[c] \/ callState[c] = "none"
    BY <2>1, <2>2 DEF CallInv
  <2> QED BY <1>1, <2>1, <2>3, FinalMoves
<1>7. CASE PrepareCall(r)
  BY <1>7, PrepareCallFinal
<1>8. CASE LaunchAll(r)
  BY <1>8, LaunchAllFinal
<1>9. CASE Join(r)
  BY <1>9, JoinFinal
<1>10. CASE Report(r) \/ CloseBatch(r)
  <2>1. /\ pc[r] = "report" /\ event'.type \in {"message_end", "turn_end"}
        /\ UNCHANGED <<callState, owner, failedRuns>>
    BY <1>10 DEF Report, CloseBatch, callVars, Event
  <2> QED BY <1>2, <2>1
<1>11. CASE Poll(r)
  <2>1. /\ pc[r] = "turnEnd" /\ UNCHANGED <<callState, owner, failedRuns>>
        /\ \/ event' = event
           \/ pc'[r] = "ending" /\ event' = Event("agent_end", r)
    BY <1>11, BatchTypes DEF Poll, callVars
  <2> QED BY <1>2, <1>3, <2>1 DEF Event
<1>12. CASE FinishRun(r)
  <2>1. pc[r] \in {"ending", "failed"} /\ pc'[r] = "off" /\ UNCHANGED <<callState, owner, failedRuns>>
    BY <1>12, BatchTypes DEF FinishRun, callVars
  <2> QED BY <1>2, <2>1
<1>13. CASE EmitFailure(r) \/ FailAgain(r)
  <2>1. /\ pc[r] \in FailurePCs /\ UNCHANGED <<callState, owner, failedRuns>>
        /\ \/ event' = event
           \/ event'.type \in {"message_end", "turn_end"}
           \/ pc'[r] = "failed"
    BY <1>13, BatchTypes DEF EmitFailure, FailAgain, callVars, FailurePCs, Event
  <2>2. pc[r] \notin {"execute", "off", "ending", "failed"}
    BY <2>1 DEF FailurePCs
  <2> QED BY <1>2, <1>3, <2>1, <2>2
<1>14. CASE Fail(r)
  BY <1>14, FailFinal
<1> QED BY <1>4, <1>5, <1>6, <1>7, <1>8, <1>9, <1>10, <1>11, <1>12, <1>13, <1>14
        DEF RunStep, Loop, Provider

LEMMA FinalInductive ==
  (Init => FinalInv) /\ (IInv /\ SingleRun /\ CallInv /\ FinalInv /\ [Next]_vars => FinalInv')
<1>1. Init => FinalInv
  BY DEF Init, FinalInv, EndInv, AwaitedInv, Event
<1>2. ASSUME IInv, SingleRun, CallInv, FinalInv, [Next]_vars PROVE FinalInv'
  <2>1. CASE Owner
    BY <1>2, <2>1, OwnerFinal
  <2>2. ASSUME NEW r \in Runs, RunStep(r) PROVE FinalInv'
    BY <1>2, <2>2, RunFinal
  <2>3. ASSUME NEW c \in Calls, ToolEnds(c) PROVE FinalInv'
    BY <1>2, <2>3, ToolEndsFinal
  <2>4. CASE UNCHANGED vars
    BY <1>2, <2>4, FinalStays DEF vars, callVars
  <2> QED BY <1>2, <2>1, <2>2, <2>3, <2>4 DEF Next, RunStep
<1> QED BY <1>1, <1>2

\* What the listeners may see behind agent_end.
Behind ==
  \/ event'.type = "agent_start"
  \/ event' = Event("message_start", event.run) /\ event.run \in failedRuns'
  \/ \E c \in Calls : /\ callState[c] = "executing" /\ callState'[c] = "finalized"
                      /\ owner[c] \in failedRuns

LEMMA EndStep ==
  ASSUME IInv, FinalInv, [Next]_vars, event.type = "agent_end", event' # event
  PROVE  Behind
<1>1. \A r \in Runs : pc[r] \in {"off", "ending", "failed"} /\ (pc[r] = "ending" => event.run = r)
  BY DEF FinalInv, EndInv
<1>2. ASSUME NEW msgs, NEW skip, StartRun(msgs, skip) PROVE Behind
  BY <1>2 DEF StartRun, Event, Behind
<1>3. CASE Owner
  BY <1>2, <1>3
  DEF Owner, Steer, FollowUp, Prompt, ClearSteeringQueue, ClearFollowUpQueue, Continue, Abort, Reset
<1>4. ASSUME NEW r \in Runs, Loop(r) \/ Provider(r) \/ FailAgain(r) PROVE FALSE
  <2>1. ~ FinishRun(r) /\ ~ FailAgain(r)
    BY DEF FinishRun, FailAgain
  <2>2. pc[r] \in {"begin", "inject", "stream", "cancelled", "prepare", "execute", "report",
                   "turnEnd"} \cup FailurePCs
    BY <1>4, <2>1
    DEF Loop, Provider, Inject, FirstPoll, CallProvider, PrepareCall, BetweenCalls, LaunchAll, Join,
        Report, CloseBatch, Poll, AnswerFails, AnswerText, AnswerCalls, EmitFailure, FailurePCs
  <2> QED BY <1>1, <2>2 DEF FailurePCs
<1>5. ASSUME NEW r \in Runs, Fail(r) PROVE Behind
  <2>1. pc[r] = "ending"
    BY <1>1, <1>5 DEF Fail
  <2> QED BY <1>1, <1>5, <2>1 DEF Fail, Behind
<1>6. ASSUME NEW c \in Calls, ToolEnds(c) PROVE Behind
  <2>1. callState[c] = "executing" /\ callState'[c] = "finalized"
    BY <1>6, BatchTypes DEF ToolEnds
  <2>2. owner[c] \in failedRuns
    BY <1>1, <2>1 DEF FinalInv, AwaitedInv
  <2> QED BY <2>1, <2>2 DEF Behind
<1>7. CASE UNCHANGED vars
  BY <1>7 DEF vars
<1> QED BY <1>3, <1>4, <1>5, <1>6, <1>7 DEF Next

\* agent_end is the last event of a run, whatever is aborted, queued or answered, in
\* parallel batches too, but for a listener of it that throws and for tools that a failed
\* run has left executing.
THEOREM AgentEndIsFinal == Spec => AgentEndIsLast
<1>1. RunInv /\ CallInv /\ FinalInv /\ [Next]_vars => FinalInv'
  BY FinalInductive DEF RunInv
<1>2. Spec => [](RunInv /\ FinalInv)
  BY <1>1, FinalInductive, CallInvHolds, PTL DEF Spec
<1>3. RunInv /\ FinalInv /\ [Next]_vars
        => [event.type = "agent_end" /\ event' # event =>
              \/ event'.type = "agent_start"
              \/ event' = Event("message_start", event.run) /\ event.run \in failedRuns'
              \/ \E c \in Calls : /\ callState[c] = "executing" /\ callState'[c] = "finalized"
                                  /\ owner[c] \in failedRuns]_vars
  BY EndStep DEF RunInv, Behind
<1> QED BY <1>2, <1>3, PTL DEF Spec, AgentEndIsLast
=============================================================================
