# A verification project for AIRIS-CLI

AIRIS-CLI is a coding agent for the terminal: a loop that asks a language model
for an answer, executes the tools the answer calls, and asks again, and around
it a session that stores the conversation, retries, compacts and is driven by a
user. This directory holds TLA+ modules translated from that code, the TLC
configurations that model-check them, and theorems about them that TLAPS checks.
`PROJECT.json` maps every definition to its source lines; paths below are
relative to `packages/` unless they say otherwise.

## 1. The system

### Components

| component | state it keeps | operations | status |
|---|---|---|---|
| **agent and agent loop** `agent/src/agent.ts`, `agent-loop.ts` | transcript, running-tool set, steering and follow-up queues, the active run and its abort signal | `prompt`, `continue`, `steer`, `followUp`, `clear*`, `abort`, `reset`, `waitForIdle`; the loop's turns, tool batches, events | `AgentLoop`, `Delivery` |
| **agent session** `coding-agent/src/core/agent-session.ts`, `compaction/` | subscription to the agent, session branch, retry counter and controller, overflow flag, mirrors of the queues, deferred bash results | `prompt`, `steer`, `followUp`, `abort`, `abortRetry`, `clearQueue`, `compact`, bash results; post-run retry, compaction, continuation | `AgentSession` |
| **file mutation queue** `coding-agent/src/core/tools/file-mutation-queue.ts` | the registration chain, a map from key to promise chain | `withFileMutationQueue` | `FileMutationQueue` |
| **job scheduler** `coding-agent/src/core/job-scheduler.ts` | the jobs in memory and in a file | `enqueue`, `cancel`, `resume`, `remove`, `runDueJobs`, `run`, load and save | `JobScheduler` |
| **session manager** `coding-agent/src/core/session-manager.ts` | append-only tree of entries, its leaf, a JSONL file made lazily | append, label, branch, compaction entry, open, fork, rebuild of a context | `SessionTree` |
| **session runtime** `core/agent-session-runtime.ts`, `modes/rpc/rpc-mode.ts` | the current session, the session the mode is bound to and listens to | new, switch, fork, import, dispose | `SessionRuntime` |
| **verified autonomy** `core/verified-autonomy/` | a mission, its leases, failure records and evidence, each a file | create, approve, revoke, verify | `Missions` |
| **credentials** `core/auth-storage.ts` | a locked file, a copy in each process | login, logout, refresh, reload | `Credentials` |
| provider resilience `core/provider-resilience.ts` | circuit breakers with half-open probes | before, success, failure | next |
| ship pipeline `core/ship/` | phase, gates, a file | transitions | next |
| settings, trust `core/settings-manager.ts`, `trust-manager.ts` | locked files | read-modify-write | later |
| RPC mode `modes/rpc/` | pending requests over JSON lines | commands, responses, events | its replacement commands and shutdown in `SessionRuntime`, its `prompt` in `AgentSession`; the rest later |
| event stream, providers `ai/src/` | a queue with waiters; streams of answers | push, end, iterate | later; a provider is the choice of an answer |
| agent harness `agent/src/harness/` | a second engine over the same loop | as the session | not modelled: no mode of the program uses it |
| interactive mode, terminal toolkit | layout, editor, key parser | rendering, input | not modelled: state is layout; it drives the operations of `AgentSession` |
| extensions, adaptive engine, tools, models, packages | handlers of third parties, heuristics, child processes, configuration | | not modelled: I/O or text; the loop sees only that a handler or tool is awaited and may fail |
| native engine `src/crates`, backend, mobile, web clients | | | not modelled: not linked with the program, or a relay and user interfaces |

### How they interact

The session subscribes to the agent's events and is called back, awaited, for
each one: it stores messages, keeps its mirrors, and decides on `agent_end`
whether a retry will follow. It calls the agent through `prompt()` and
`continue()` (each returns when the run has finished), `steer()`, `followUp()`,
`abort()` and `waitForIdle()`, and after a retry or a compaction writes the
agent's transcript. The modes call the session from input handlers and sockets
at any moment. The edit and write tools, executed by the loop possibly in
parallel, go through the file mutation queue. The session writes each entry
through the session manager. The session runtime replaces the session as a whole:
it tells the extensions, disposes the old one, makes another on a session file,
and has the mode bind itself to it. Each call of a provider takes its key from
the credentials, which other processes of the same user share. Job scheduler and
missions stand apart: each `/jobs` command makes an instance and each `airis
mission` command is a process, and they meet in files.

### What is hard

Everything runs in one JavaScript thread, so the difficulty is in the awaits.
Between two of them nothing else happens; at each, anything may: another
operation, an event of another run, an abort. The hazards, at their lines, are
the list `hazards` in `PROJECT.json`; they fall into these groups.

- Two loops on one transcript; messages lost, repeated or reordered between two
  queues, the local variables of a run, and the run after it.
- A transcript that a provider refuses: results that do not follow their calls.
- Sets and mirrors shown to the user that drift from what they stand for.
- Retries and compactions that race with aborts, with each other and with the
  prompts that started them; announcements that do not come true.
- A wait that never ends: for a run, a link of a promise chain, a job.
- Stores that several processes or instances read, change and write: without a
  lock (jobs, leases, failures, sessions), or with one that is held across a
  request to a server and may be lost (credentials).
- Files written in several pieces by a process that may die between or within
  them: a torn line, evidence without a verdict, a truncated file.
- Replacing a session in awaited steps while another replacement begins.

## 2. The modules

### `AgentLoop`: the agent and its loop

State: `transcript`, `isStreaming`, `pendingToolCalls`, the two queues,
`activeRun` and `aborted` are fields of `Agent`; `pc`, `pending`, `context`,
`skipPoll`, `batch`, `mode`, `announced`, `reported`, `hasMoreToolCalls` are the
local variables of `runLoop` and of the tool-batch functions, one copy for each
run, so that only the guards of the code keep two runs apart. `callState` is
where each tool call stands. `event` is the last event the listeners saw; `lane`,
`acceptedAt`, `accepted`, `delivered`, `discarded`, `failedRuns` are history.

| actions | code |
|---|---|
| `Prompt`, `Continue`, `StartRun` | `Agent.prompt`, `continue`, `runWithLifecycle` up to the first await |
| `Steer`, `FollowUp`, `ClearSteeringQueue`, `ClearFollowUpQueue`, `Abort`, `Reset` | the methods of the same name |
| `Inject`, `FirstPoll`, `CallProvider` | `runAgentLoop`, the pending messages of a turn, the first poll of the steering queue, the call of the stream function |
| `AnswerFails`, `AnswerText`, `AnswerCalls` | `streamAssistantResponse` and what follows an answer in `runLoop` |
| `PrepareCall`, `LaunchAll`, `ToolEnds`, `Join`, `Report`, `CloseBatch` | `executeToolCallsSequential` and `executeToolCallsParallel`: prepare, execute, finalize, result messages |
| `Poll` | the end of a turn: `turn_end`, the polls of both queues, `agent_end` |
| `Fail`, `EmitFailure`, `FailAgain`, `FinishRun` | `runWithLifecycle`'s catch, the four emits of `handleRunFailure`, an exception in one of them, `finishRun` |

A step is the code between two awaits that matter; two emits with nothing read
between them are one step. An exception of a listener, of a hook or of the stream
function is `Fail`, possible wherever the run awaits one, also a listener of
`agent_end`. It is followed by the events of a failure, `message_start`,
`message_end`, `turn_end` and `agent_end` (`EmitFailure`), unless a listener of one
of these throws too (`FailAgain`), which ends the run at once. A call in a
parallel batch goes on after the run has failed, as it does in the code.

`Delivery` is the abstract specification: while a run is active it delivers
waiting messages, each at most once, and a message leaves the waiting set only by
being delivered or discarded. `AgentLoop` implements it under the mapping
`Promise` (`waiting` = both queues and the pending messages of every run).

### `AgentSession`: the session around the agent

A call of `prompt()` is a thread with a `pc`: preflight, compaction check, run,
post-run handling (`Post`), backoff, compaction, continuation, leaving. The agent
is the one of `AgentLoop` with one tool call per answer and one-at-a-time
queues, told in fewer steps (`Announce`, `FirstPoll`, `PollQueues`, `Answer`,
`ToolEnds`, `RunEnds`). Its events reach the session while `connected`. Outside
actors: `Steer`, `FollowUp`, `ClearQueue`, `Abort`, `AbortRetry`,
`RecordBash`, `CompactCalled` and the steps of `compact()`.

*The `turn` convention.* Between the end of a run and the next sleep,
compaction or run, the code awaits only promises that are already settled. Those
continuations are microtasks: no timer, socket or key press comes between them.
`turn` holds the thread whose continuation runs and `Outside` is the guard that
nothing does; the continuation is still cut in steps.

*Data.* An answer has a kind (text, tool call, retryable error, overflow, silent
overflow, fatal error, aborted). Token estimates are abstracted to whether a
threshold check fires; where a compaction cuts is any place the code allows.
`KeepFrom` and `Context` are `findCutPoint` and `buildSessionContext` on a branch.

*`Serial`.* TRUE is the interactive input loop, which submits the next prompt when
the last one returned; FALSE is RPC mode and the SDK, where prompts may overlap.
Extension handlers, model changes, tree navigation and the interactive mode's own
queue for messages typed during a compaction are left out.

### `FileMutationQueue`

`Call`, `Resolve`/`ResolveFails`, `Register`, `Start`, `Create`, `Finish` are the
stages of one `withFileMutationQueue`; the registration promise is a counter,
since a link of that chain starts when the one before has settled. `Remove` is
another program deleting a file, and `Canon` the symbolic links. `missed` is
history: calls whose `realpath` found nothing.

### `JobScheduler`

A `/jobs` command makes an instance, which reads the file, and drops it when it
returns (`interactive-mode.ts:7462`). Most commands load, change and save with
no await between, so that they are steps on the file, `disk`: `Enqueue`, `Cancel`,
`Resume`, `Remove`. A call of `runDueJobs()` has a copy, `mem`, and awaits the
execution of jobs: `RunDueStarts`, `Execute`, `Settle` and `RunDueReturns` are
`runDueJobs()` and `run()` between awaits. Each save writes the whole copy, although
other commands and calls changed the file meanwhile. `behind` is history: the jobs
whose change a copy has missed; `overwritten` has those for which such a
copy was saved. An exception of the executor does what a failed command does. All
instances are in one process; a `Crash` ends them all. Time is abstracted to
a scheduled job being due or not (`IsNext` lets a job be found due or not at each
pass). `timeoutMs` is not used by the code and absent here. Making a due job
queued and then running it are two saves with no await between them: one step. A
crash may cut a `save()`, which leaves an unreadable file and so an empty store.

### `SessionTree`: sessions on disk

`mem`, `leaf` and `flushed` are `fileEntries`, `leafId` and `flushed` of the
session manager of each process; `file` is the JSONL file of each session, with
the entries that can be parsed and whether its last line is torn. Entries are
numbered in the order in which they are made, and both memory and files keep
that order, so that a set of entries stands for the list: `Latest` is the leaf
after loading, the order of labels and compactions is that of the numbers.
`parent` has an entry's parent in each session, since a fork keeps the entries
and changes their parents. `stored`, `lost` and `unwritten` are history.

| actions | code |
|---|---|
| `Append`, `AppendLabelChange`, `AppendCompaction`, `BranchWithSummary` | the methods of the same name, each through `_appendEntry` and `_persist` |
| `AppendLine`, `AppendFails`, `Deferred`, `CreateFile`, `CreateFails` | the branches of `_persist`: a line, nothing before the first answer, the whole file at the first answer; each write may fail, whole or in part |
| `Branch` | `branch`, `resetLeaf` |
| `NewSession`, `Open` | `newSession`, `setSessionFile` |
| `Fork` | `createBranchedSession`, as the runtime's `fork` calls it on the file read anew |
| `ForkFrom` | `forkFrom` |
| `Close` | the process ends or dies; what it had in memory is gone |

`FirstKept` is what `prepareCompaction` may choose: its token estimates decide
among the places `findCutPoint` allows. Every action is synchronous in the code;
what interleaves is processes. Only one of two processes may have made the
file; both may append to it.

### `Missions`: approval, leases, verification

One mission. `mission`, `evidence`, `leases` and `failures` are files, written as
a whole (`atomicWriteJson`: a rename, so that a crash leaves the old or the new
one). `proc` is what each process is at and remembers. A step of a process is what
lies between two accesses to files: another process may act at any of them,
although no `await` is there. `Approve`, `ReadToGrant`, `Grant`, `Approved` are
`approveMission`; `ReadToRevoke` and `Revoke` are `revokeLease`; `Verify` to
`WriteVerdict` are `verifyMission`. `Skip` is a criterion whose command is not
run, `Start` the start of one that is, `Passes` and `Fails` its end, `Record` the
writing of failure records. `Abort` is SIGINT, heard of while a command runs.
`Expire`, `Edit` and `Crash` are the clock, the working tree changed by anyone
and a process that dies.

*Data.* A compiled mission has as criteria its hash, the commands, and a manual
one, which stays unverified; the verdict is "failed" or "partially_completed".
The hash of the working tree is one of `Workspaces`, exit code and error output
are one of `Errors`; a fingerprint is the triple with the command.

### `Credentials`: auth.json and token refresh

`file` is auth.json, `lock`, `stale` and `lapsed` its lock; `mem` and `failed` are
`data` and `loadError` of each process, `task` the refresh of each provider in
each process. Blocking accesses (`Reload`, `Persist`) are one step, since their
process does nothing else, and they get the lock or give up; a refresh holds it
from `Acquire` to `Answer`, `Compromised`, `Refused` or `AnswerLost`, and other
steps come between. `Release` is the `finally` of `withLockAsync`, after an answer
and after an error: it removes whatever lock is there, also the one of another
when its own has lapsed unnoticed; `Noticed` is the end of a refresh that was told
(`onCompromised`), and removes nothing. `lapsed` has the refreshes that lost
the lock in either way. The server is modelled from how the providers in `ai/src`
use it: a refresh token is taken once (`Serve`), the answer has the next one.
`Lapse` is proper-lockfile taking a lock for stale. `Launch`, `Create` and `Load`
are the start of a process, with `ensureFileExists` before the lock. `Crash` and
`CrashInWrite` are deaths outside and inside a write.

A token is a refresh token with its access token. API keys are as tokens that
never expire, and are left out. In one process one refresh is under way at a
time: a bound, as requests to a model are made one at a time.

### `SessionRuntime`: replacing the session

`current` is `_session` of the runtime; `session` is the variable of the same
name in `runRpcMode`, `heard` its subscription; `pc` is what each command awaits.
`Ask` is the `session_before_*` event, `End` and `TearDown` are `teardownCurrent`
before and after its await, `Fail` and `Apply` the outcome of `createRuntime`,
`SetUp` the callback an extension may give to `newSession`, and `SetUpFails` one
that throws; `Bind` and `Subscribe` are the two halves of the mode's
`rebindSession`, `BindFails` a `bindExtensions` between them that rejects, `Rebind`
the second call of it by the RPC handlers. `broken` says that one of the three
failures came after the last session was created. The commands that came over RPC rebind twice, an
extension's command once. `Stop` and `Stopped` are `shutdown`. The print mode has
the same `rebindSession`, called once. What a session's services are is left out;
so are the interactive mode's own steps.

## 3. What is checked

All runs finish well within five minutes on two workers. Bounds are the
constants named `Max...`, the sizes of the sets and one constraint, `OneUpset` of
`MCAgentLoop`; none appears in a guard of another kind.

| run | instance | what it shows |
|---|---|---|
| `MCAgentLoopRuns` | 2 messages, 2 runs, 2 tool calls, both batch modes, 1 exception, any number of aborts; fair | `PendingToolCallsExact`; `ResultsFollowTheirCalls`; `CallsAreAnswered`; `ModelSeesTranscript`; `AgentEndIsLast`; `RunsSettle` |
| `MCAgentLoopMessages` | 3 messages, 2 runs, 1 call, 1 exception or 1 reset, clears | `SingleRun`; `QueueOrder`; `FollowUpsWait`; `ImplementsDelivery` |
| `MCAgentSessionHistory` | 2 prompts in turn, 1 bash command, 3 unusual answers, 1 abort | `ResultFollowsCall`; `SessionMatchesTranscript`; `RetryClosedAtRest`; `OverflowOnce`; `WillRetryHonoured` |
| `MCAgentSessionConcurrent` | 2 prompts that may overlap, 2 queued messages, 1 bash command, 1 unusual answer, 1 abort or clear | `MirrorMatchesQueue`; `BashRecordedOnce`; `NothingLeftBehind` |
| `MCAgentSessionSettles` | 2 overlapping prompts, 1 unusual answer, 1 `compact()`, 1 abort; fair | `PromptsSettle`; `CompactSettles` |
| `MCFileMutationQueue` | 3 calls, a file, an alias of it, another file; fair | `KeyExclusion`; `CallOrder`; `MapHoldsLiveChains`; `SameFileExclusion`; `EveryCallSettles` |
| `MCJobScheduler` | 2 jobs, 3 calls of `runDueJobs`, each with its own copy, 2 attempts, 2 commands or a command and a crash; fair | `AttemptsBounded`; `RunningIsLive`; `OneExecution`; `JobsKept`; `RunReturns` |
| `MCSessionTree` | 2 processes, 4 entries (user, assistant, labels on the first, compactions, summaries), 2 sessions, 3 moves, 1 failing write | `TreeSound`; `Saved`; `ForkKeepsBranch` |
| `MCMissions` | 2 processes, 2 commands (one optional), 2 leases, 2 revocations or verifications, 2 states of the tree, 1 crash | `LeasesKept`; `VerdictHasEvidence`; `NoRepeat` |
| `MCMissionsLease` | 1 process, 2 commands, 1 lease | `CommandsLeased` is violated |
| `MCCredentials` | 2 processes, 2 providers, 2 tokens each, 1 fault | `FileUsable`; `ChangesOne` |
| `MCSessionRuntime` | 3 commands at a time and in all, each of which may fail, shutdown | `Usable`; `LifecycleOrder` |

The modules' `TypeOK` are proved (section 4); the runs spend their properties on
the rest.

Why the bounds are enough. *Agent loop*: two runs are what a message needs to
survive one run and meet another, two calls what a batch needs to be cut in the
middle or end out of order; three messages make two in one queue beside a prompt.
In one-at-a-time steering and "all" follow-ups both drain modes occur. The
messages run has sequential batches only, since it is about the queues; the runs
instance has both kinds, so that `AgentEndIsLast` meets a tool that ends late.
The runs instance has no `reset()`: a reset in the middle of a run
empties the transcript under it, and the model's context then differs by design.
*Session*: an unusual answer fails, overflows, exceeds the compaction threshold or
calls a tool. Two of them give a failure and its retry, an overflow and a second
one; three add a tool call or a threshold between. Retries are limited to one so
that the limit is met. In the concurrent run two messages make a queue whose order and
whose mirror can differ. `WillRetryHonoured` and `RetryClosedAtRest` are properties
of prompts in turn: when prompts overlap, an abort that ends the retry of one
thread resets the attempts that another thread has just announced as its last.
*Queue*: with three calls one waits behind two, or behind one that ends while it
registers. *Scheduler*: three calls on two jobs, so that a job fails as often as
it may and meets one call more, and so that a copy is older than two others; two
commands cancel and resume one job; a crash leaves room for one, the cancel of
the job it has cut.

*Session tree*: four entries are a prompt, a label, an answer and a compaction or
a label's removal; a fork makes labels anew. Two processes on one file and one
failing write give torn lines, swallowed lines and a file that another one made.
*Missions*: a grant, a revocation and a verification, or two verifications, by
two processes, over a tree that changes once. *Credentials*: two tokens, so that one
is exchanged for another; two providers, so that a refresh of one may undo
a login to the other; one fault, so that one lock lapses and the release of its
refresh takes that of another. *Runtime*: two commands overlap, and a third one begins in
what they left behind.

`CHECK_DEADLOCK FALSE` everywhere: a program that nobody prompts any more is at
rest, and the bounded inputs run out. Symmetry (of messages, threads, processes,
providers, commands) is used in runs without liveness; the permuted values are only compared for
equality. The queue's calls are numbered when they are made.

*Fairness.* `AgentLoop`, `AgentSession`: weak fairness of each run, thread and tool:
the event loop runs promise reactions, and a provider, a tool and a listener are
assumed to settle (an assumption about external code: nothing in the loop limits
them, so a run lasts as long as its slowest tool). Timers expire.
`FileMutationQueue`: file-system calls and callbacks settle. `JobScheduler`: the
commands of jobs end. No fairness on anything users, models or other programs
decide: calls, aborts, the kind of an answer, crashes.

### Where the code and what is said of it disagree

`MCMissionsLease` ends in a counterexample: `verifyMission` looks for an active
lease once (`verified-autonomy/verifier.ts:47`) and then runs the commands of all
criteria under it, also those that begin after it has expired or been revoked.
`compiler.ts:53` puts into every mission that "Each command must run under an
active capability lease."

Noticed while modelling, part of the models unless it says otherwise, without a
run of their own:

*Agent and session*

- `compact()` waits for the run and not for the thread that started it, whose
  post-run handling may continue while the summary is made (`agent-session.ts:1933`).
- A prompt accepted during a retry backoff is refused by the agent when the retry
  starts first (`agent-session.ts:1425`).
- `clearQueue()` returns messages from the mirror, among them one that the run has
  drained and will still deliver (`agent-session.ts:1672`).
- A failed or aborted answer ends the run without polling the queues
  (`agent-loop.ts:196`); the queued messages wait for the session to continue.
- `reset()` clears `isStreaming` during a run (`agent.ts:316`).
- Two calls for one file by a link that leads to no file yet and by the real path
  have different keys and may overlap (`file-mutation-queue.ts:21`); this is the
  exception in `SameFileExclusion`.
- After `agent_end` a run may emit more: when a listener of it throws, the four
  events of a failure follow, another `agent_end` among them (`agent.ts:469-491`);
  and after an exception in a parallel batch a `tool_execution_end` may come late
  (`agent-loop.ts:502`). `agent.ts:228` says that `agent_end` is the final event of
  a run. The exceptions in `AgentEndIsLast`.
- A prompt that is refused because another one is running still flushes the
  deferred bash results (`agent-session.ts:1215`): with overlapping prompts a bash
  message may land between a tool call and its result, which `:2994` says deferring
  avoids. `ResultFollowsCall` is checked with prompts in turn.
- `abort()` while the listeners of `agent_end` settle after a failed answer has
  nothing to cancel, and the retry then starts (`:1704`; `:1701` says "Abort
  current operation").
- A silent overflow is compacted; the rebuilt context ends with the overflowing
  answer, which is not an error and is not dropped (`:2349`), so that
  `agent.continue()` throws. `docs/rpc.md:934` says the prompt is retried.

*Jobs*

- `/jobs run` awaits a job with a copy of the file in memory, and other commands
  have instances of their own (`interactive-mode.ts:7462`). What they change
  meanwhile is undone by the next save of that copy (`job-scheduler.ts:236`): a job
  enqueued is lost, a removed one is back, one that another call has begun is taken a
  second time or left "running" for ever. These are the jobs in `overwritten`,
  the exception in `RunningIsLive`, `OneExecution` and `JobsKept`. A copy has old
  counters, so that a job may be executed more often than `maxRetries` says;
  `AttemptsBounded` bounds the counter only.
- A job cut by a crash stays "running"; `resume()` refuses it until it is
  cancelled (`job-scheduler.ts:300`): the other exception in `RunningIsLive`.
- A job cancelled while it runs becomes completed, queued or scheduled when its
  execution ends (`job-scheduler.ts:343`; `:274` says a running job can be
  cancelled). One that is resumed while it runs is executed twice at once.

*Session files*

- A first write that fails after it made the file is never repeated: every later
  one fails because the file exists (`session-manager.ts:938`, flag `wx`); the
  session lives on in memory. This is the exception in `Saved`.
- After a torn line the next line is appended to it and lost with it (`:948`);
  memory is changed before the file (`:952`), so an append that throws leaves the
  entry in memory, and later entries are its children. The exception in `TreeSound`.
- A fork drops label entries, and a compaction that keeps from one
  (`compaction.ts:422`, which scans back over entries that are no messages) then
  keeps nothing in the fork: the exception in `ForkKeepsBranch`.
  `docs/sessions.md:124` says a clone duplicates current work.
- `forkFrom` copies entries of an old version under a header of the current one
  (`:1488`), so that they are not migrated (not modelled).

*Missions*

- A failure that is recorded again after it was resolved stays resolved
  (`failures.ts:36`): it no longer keeps the command from being repeated. The
  exception in `NoRepeat`.
- A command killed by SIGINT is recorded as a failure (`verifier.ts:264`) and
  blocks its repetition in that working tree.
- A process that dies leaves the mission "running"; a verification overwrites what
  an approval wrote meanwhile, and an approval what a verification wrote
  (`cli.ts:177`, `verifier.ts:191`). Overlapping runs mix evidence and verdict: the
  exception in `VerdictHasEvidence`.

*Credentials*

- `ensureFileExists` looks and then writes "{}", without the lock
  (`auth-storage.ts:70`): what another process saved between is lost, an exception
  in `ChangesOne`.
- After a failed load, login and logout are kept in memory only and reported as
  saved (`:279`, `interactive-mode.ts:5201`).
- The blocking accesses take a lock for stale after 10 s, a refresh after 30 s: a
  refresh that lasts longer than the former may lose its lock. Until it notices, its
  release removes the lock of another (`:163-171`), also when the server refused it;
  the other then writes its answer unprotected, and a login or the answer of a third
  that came between is undone. The exception in `ChangesOne` and `FileUsable`.
- A process that dies in a write may leave an empty file, which reads as no
  credentials.

*Runtime*

- Each replacement by RPC binds the mode twice, so that extensions hear
  `session_start` twice (`agent-session-runtime.ts:186`, `rpc-mode.ts:433`).
- When replacements overlap, a session may be disposed that was never told, or one
  that was made may never be told or disposed: `teardownCurrent` reads
  `this.session` again after its await (`agent-session-runtime.ts:174`).
- When `createRuntime` fails, the current session is a disposed one. When the `setup`
  of an extension throws (`agent-session-runtime.ts:252`) or `bindExtensions` rejects
  (`rpc-mode.ts:318`), a new one is current, and the mode sends prompts to the
  disposed one, or to one that it does not hear. No later step puts that right but
  another replacement. The exception in `Usable`.
- Prompts between a disposal and the next subscription go to a session nobody
  listens to.

## 4. What is proved

For every value of the constants that satisfies the named assumptions
(`ModesAssumption`, `BoundsAssumption`, `CanonAssumption`, `NoOpAssumption`,
`KindsAssumption`, `CommandsAssumption`): any number of
messages, runs, calls, paths, jobs, processes, entries, providers, commands.

- `AgentLoop_proofs`. `TypeCorrect`: `TypeOK` alone is not inductive, because a
  batch is indexed by its cursors; the invariant is `TypeOK` with `CountersInv`,
  which keeps them within their batch. `SingleRunHolds`: with the types,
  `SingleRun` is inductive: a run starts only when `activeRun` is 0, and only the
  active run takes steps. The owner's actions do not touch `pc`.
  *Messages.* `MessageInv`: `LaneInv` (a message has a lane once it was accepted, and
  a queue holds messages of its own), `PendingInv` (a run holds messages only until
  it injects them) and `OrderInv` (what was delivered of a lane precedes what
  is held, which precedes what waits). `QueueOrderHolds` is a part of it, `FollowUpsWaitHolds` and
  `AgentDelivers` follow; in the latter every action is shown to be a step of
  `Delivery`, under the mapping of the runs, or a stutter.
  *Calls.* `CallInv` relates the state of each call to the cursors of the batch;
  `TranscriptInv` relates the cursors to the tail of the transcript: the answer
  that made the calls, then the results reported so far (`TailInv`), and any
  other answer to its results, or to what cut them (`AnsweredInv`).
  `PendingToolCallsAreExact`, `ResultsFollow`, `CallsGetAnswered` and `ModelIsToldAll`
  have the hypothesis `ResetsWhenIdle`: the owner calls `reset()` between runs
  only. The code has no such guard (`agent.ts:316`), and with a reset during a run
  each of the four is false by design: it empties what the run goes on to fill.
  *Events.* `AgentEndIsFinal`, without hypotheses, from `FinalInv`: after `agent_end`
  no run is anywhere but in its last await, at its end or in its failure (`EndInv`),
  and a call that executes is awaited by its run or was made by one that failed
  (`AwaitedInv`).
- `AgentSession_proofs`. `ThreadInv` says who has the turn: the thread in `turn` is
  at one of the places between two awaits and no other thread is; the run is that
  of a thread that awaits it; the controller is that of a sleeper. On it rest:
  `BashResultsKeptOnce`, without hypotheses, by
  `BashInv` (a result is at one place of `path` and `pendingBash`, and there only
  if it was recorded). `OverflowOnceHolds`, for prompts in turn: `OverflowInv` says
  that a streak is under way only as long as recovery counts as attempted or its
  compaction is. `RetriesAreHonoured`, for prompts in turn in a session that is
  not compacted by hand: `WillInv` carries what `agent_end` said to the answer the
  handling looks at. `NothingIsLeftBehind`, without `compact()`: between the last
  look at the queues and the leaving nothing else runs. `MirrorsMatchQueues`,
  without `compact()` and for messages with distinct texts: `QueueInv` adds that
  messages occur once in queues, mirrors and the one on its way.
  *History.* `TypeCorrect` has no hypotheses; `Types` splits the type invariant by
  what changes together. `RetriesAreClosed` and `ResultsFollowCalls` are about one
  prompt after another in a session that is not compacted by hand.
  `AskedInv`: what the provider is asked ends with something to answer, and from
  its end to the handling of its run the last answer ends the transcript.
  `OpenInv`: a retry that was announced is under way in a thread that closes it,
  which needs that the thread finds something to answer when it wakes;
  `RetriesAreClosed` follows. `PairInv`: results follow calls in the session and in
  the transcript, and every compaction, past or under way, keeps from a place that
  is no result (`KeptAtCuts`); then a rebuilt context has the call of each result
  it has (`ContextFollows`), and `ResultsFollowCalls` follows.
  `SessionMatches` needs only that the session is not compacted by hand; prompts may
  overlap. The sound entries of the transcript and of the rebuilt context are the same
  (`MatchInv`): `HistorySteps` says that a step appends the same message to both,
  flushes the commands to both, rebuilds one from the other, or drops the tail
  of the transcript. The last is the hard one, as a compaction that another thread
  finishes meanwhile may have put an older answer there. `FollowInv` shows that it is no
  good one: while an answer is owed, or the last one was no good, every good answer of
  the session has been followed by a message, so that no rebuilt context ends with
  a good answer (`FollowedContext`). A run that continues from the transcript starts so
  because `MatchInv` carries what its tail says over to the session (`AskedFollows`), which needs
  that every compaction keeps a message (`KeptInv`). `DropInv` carries the fact
  from the end of the run, or from the prompt, to the check that drops.
  Contexts are selections (`Pick`); the lemmas
  about them say that a selection has the type of its entries (`PickType`), grows
  at the end only (`PickAppend`), and keeps neighbours together (`PickAdjacent`).
  They are inductions on the length, by the least counterexample (`Least`).
  The hypotheses are what the code needs: without any one of them TLC finds a
  counterexample to each of these properties. `compact()` unsubscribes the session
  from its agent, whose events then reach neither the session nor the mirrors nor the
  retry, and a prompt accepted meanwhile runs on while the transcript is rebuilt. With
  overlapping prompts a second thread resets flags the first relies on (section 3).
  A mirror forgets by text: the first one with the text of the message
  (`agent-session.ts:558`), so that of two equal texts the wrong one may go.
- `FileMutationQueue_proofs`. The invariant is `TypeOK`, `NumberInv` (the
  registration queue numbers the calls and lets them out one by one), `ChainInv`
  (the live calls of a key form a chain by `pred`, the map entry is its last) and
  `StartInv` (on a key, started calls precede live ones). `KeyExclusionHolds`,
  `CallOrderHolds` and `MapHoldsLiveChainsHolds` follow; exclusion needs the order,
  since a call runs only when its predecessor released. `SameFileExclusionHolds`
  adds `KeyInv`: a call that found its file has the canonical path as its key.
- `JobScheduler_proofs`. `AttemptsBoundedHolds`: every record in the file and in
  every copy is sound (its attempts are bounded, strictly while it is queued or scheduled)
  and whoever executes has a job. `RunningIsLiveHolds`, `OneExecutionHolds` and
  `JobsAreKept`, without hypotheses: the invariant `FInv` adds `CountInv` (copies and
  walks concern enqueued jobs only), `CopyInv` (the copy of a call agrees with the
  file but for the jobs in `behind`) and `FlightInv` (the record of an execution is
  running or cancelled, unless the job was resumed or overwritten), so that no
  walk takes a job that is in flight, with those exceptions. The three properties
  are parts of the invariant: each needs the others.

- `SessionTree_proofs`. `TypeCorrect`, `TreesAreSound`, `EntriesAreSaved`: the three
  are one induction, `IInv`, with `BookInv` (files hold only entries that were made,
  a session not made yet has no file, a file taken for written has its header).
  That parents come first in a file needs that a process has in memory what its
  file has or lost (`Saved`), and the other way round: an append adds a child
  of the leaf, which is in `mem`, hence in the file or lost. A fork is sound
  because `Rechained` looks at nothing but the entries retained.
  `ForksKeepBranches`: the path from a leaf is the least set that has the leaf and
  the parents of its members (`ChainPath`), and in a fork each entry's parent is
  the one before it, so that the path from the last one is all of them
  (`ForkPath`). The induction is on the number of an entry, by the least
  counterexample (`Least`), which exists since `<` on the naturals is well-founded.
  `RefInv` adds that a compaction names an entry made before it, which tells
  it from the labels a fork makes.
- `Missions_proofs`. `LeaseInv`: as long as no two have changed the leases at once,
  the copy of the one who is about to write is still the file. `RunInv`: a run
  that is about to write its verdict has written its evidence, and without
  overlap no verdict stands while one is under way. `FailInv`: a record is
  resolved, or about to be, only after its command has passed. With the types and
  `Bounded` they are inductive; `LeasesAreKept`, `VerdictsHaveEvidence` and the
  action property `FailuresBlock` follow.
- `Credentials_proofs`. `LockInv`: a refresh that asks has the lock or has lost it,
  and while it has it the file is what it read, or empty. `Known` and `Private`:
  tokens are issued before they are seen, and the one in an answer is nowhere
  else until it is written. `UsableInv`: what the file holds, and what the holder of the
  lock has read, is usable, so that writing it back is harmless. `FileIsUsable` is the
  first part of it; `WritesChangeOne` follows from `LockInv`. A step that ends a
  refresh with or without an answer is `Drops`: it may take the lock of another,
  who is then among the lapsed.
- `SessionRuntime_proofs`. `SessionIsUsable`: each command that is past the
  disposal owes the mode a binding (`Owed`), and the mode's variable points to the
  current session once nothing is owed (`Pointed`); only a command that fails leaves
  its debt, until a session is created (`broken`). `SessionsKeepOrder`: without
  overlap at most one command is under way (`Alone`), its number is new
  (`Numbered`, `Unused`), and sessions other than the current one have ended (`Past`,
  `Present`).

Model-checked and not proved: the liveness properties (`RunsSettle`, `PromptsSettle`,
`CompactSettles`, `EveryCallSettles`, `RunReturns`), which are out of the prover's
reach. Every safety property that holds in a run is a theorem. `CommandsLeased`
does not hold.

## 5. Plan

The loop and session came first, then what processes share, then replacement of
the session. What is left, by importance:

1. Proofs: what remains of the session's properties while `compact()` is under way.
2. `CircuitBreaker` with half-open probes, and the ship pipeline's phases with its
   gates: pure state machines.
3. The settings file: its creation race and the merge of a process's changed fields
   into what another one wrote.
4. `EventStream` and the pairing of RPC requests and responses.

## 6. Not modelled

Provider adapters, tools and the native engine are input and output around child
processes and sockets. The terminal toolkit, the interactive mode, the web and
mobile clients and the exporters render text. Model lists and package
installation are data and downloads. Most of the repository's lines are of these
kinds; what the modules cover is where state is kept by more than one actor.
Inside the modelled components, what is left out is named in section 2 and in the
notes of `PROJECT.json`.
