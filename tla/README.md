# Verification of the agent harness

TLA+ models, TLC runs and TLAPS proofs for the agent harness in `src/`: a NestJS
service that takes runs of content channels through a lifecycle, lets agents ask
for tools through a broker, and keeps everything it decides in PostgreSQL.

Run a model with `tlc -config X.cfg M` (the table of runs names both), a proof with
`tlapm M.tla`.

## The system

Paths are under `src/src/`.

| Part | State | Operations | Talks to |
| --- | --- | --- | --- |
| Run Orchestrator (`harness/orchestrator`) | none of its own; a command's locals between awaits | `createRun`, `queueRun`, `preflightRun` | Runtime Store, Context Loader, Run Policy |
| Run lifecycle and policy (`harness/run`, `harness/control-plane/run-policy`) | none: transition table, active states, checks | `canTransitionRun`, `consumesChannelCapacity`, `checkCapacity` | - |
| Runtime Store (`database/runtime-store`) and repositories | tables `harness_runs`, `audit_events`, `run_checkpoints`, `tool_calls` | one transaction per operation; optimistic version on runs | PostgreSQL |
| Channel runtime (`harness/runtime`, `channel-registry`) | files of a channel's workspace, read anew each time | `loadChannelConfig`, `loadChannelContext` | file system |
| Tool Broker (`harness/tool-broker`) | rows of `tool_calls`; a call's locals; timers; executors at work | `execute` | Runtime Store, Tool Registry, executors |
| Tool Registry, schema validator | map of tools, filled at start | `register`, `resolve`, `validate` | - |
| MCP client (`mcp/mcp-client`) | `connection`, `connecting`, `destroyed`, a child process | `connect`, `callTool`, `listTools`, `close` | MCP SDK, local server |
| MCP executor and local server (`mcp`) | none; mock data | `execute`; three lookups | MCP client |
| Agent Runtime (`agent`) | none | `execute`, `validateAgentResult` | LLM provider |
| Production state, gates (`production`) | none; declarations no service uses yet | `canTransitionProductionState`, `validateGate` | - |

How they interact. A caller of the orchestrator names a run and the version it
expects. The orchestrator reads the row, decides, and has the store write row,
audit events and checkpoint in one transaction that succeeds only if the version
is still the expected one. Between the two transactions of a preflight it reads
files and counts the channel's active runs. The broker keeps one row per
invocation (run, tool name, correlation id) under a unique index, moves it with
updates by id, and calls an executor under a timer. The executors of the three
MCP tools share one child process through the MCP client.

What is hard, and what makes each part correct:

- **Orchestrator.** Every await lets other commands, and editors of the channel
  config, in; a process may die at any of them. Correct means: admission never
  exceeds capacity though check and commit are apart; the audit log retells each
  run's life; the checkpoint is there exactly when the run is ready; only the one
  command that began a preflight ends it; no preflight hangs.
- **Broker.** Duplicate deliveries, lost replies of the insert, timeouts with an
  executor that goes on, retries, crashes that leave rows in flight. Correct
  means: no execution without a committed permission; one executing call per
  invocation; a bounded number of attempts; no overlap of attempts of a tool
  that is not idempotent; audit and status in step; rows and calls that end.
- **MCP client.** Concurrent first calls, requests that fail after others
  have replaced the connection, shutdown while opening. Correct means: one child
  process in use, none orphaned or closed twice, everything closed in the end.
- **Broker over client.** An attempt whose timer fired goes on in the client and
  ends by resetting a connection others share, while the broker already retries.
  Correct means: sharing alone makes nobody fail, and the harm of a
  disturbance ends with the attempts then in the client; retries and resets together spawn
  no more processes than attempts were made; every execution and every attempt left
  behind ends.
- **Channel runtime.** No file is locked; every check is an await before the read it
  guards, and three branches read at once while someone writes, cuts short,
  removes or replaces files. Correct means: a context is made of what was there, it
  grants nothing config and skill did not, and a failure tells the caller
  rightly whether to give up (final) or to try again (a race).
- **Audit trail.** Events are stamped before an await and committed after it, and read
  back by timestamp. Correct means: causes come first.
- **Agent.** Runs, contexts, tasks and tool requests are handed over by trusted code at
  different times. Correct means: a tool runs only for a ready run, in the scope of
  one run and channel, as its workspace granted it, by one definition of it.
- **Production.** Rework loops. Correct means: every loop passes a human gate, nothing is
  released that was reworked after its last gate.

The full list, each at its line, is under `hazards` in `PROJECT.json`.

## Modules

| Module | Models | Checked by |
| --- | --- | --- |
| `RunLifecycle` | states, steps, transitions, active states | through `RunOrchestrator` |
| `RunOrchestrator` | the three commands over the store | `MCRunOrchestrator` |
| `RunOrchestratorProofs` | theorems about it, and that it implements `RunLedger` | tlapm |
| `RunLedger` | what the three commands promise together | the run `orchestrator` |
| `ToolBroker` | `execute` over `tool_calls` | itself |
| `ToolInvocation` | what the broker promises of one invocation | the run `broker` |
| `ToolBrokerProofs` | theorems about it, and that it implements `ToolInvocation` | tlapm |
| `McpConnection` | the shared connection | itself |
| `McpConnectionProofs` | theorems about it | tlapm |
| `ToolSession` | retries and timeouts of the broker, the executor and `McpConnection` composed | itself |
| `ToolSessionProofs` | theorems about it, and that it implements `McpConnection` | tlapm |
| `ChannelRuntime` | `loadChannelContext` and `listChannels` against an edited workspace | `MCChannelRuntime` |
| `ChannelRuntimeProofs` | theorems about it | tlapm |
| `AuditTrail` | when events are stamped, committed and in what order read | `MCAuditTrail` |
| `AuditTrailProofs` | theorems about it | tlapm |
| `AgentSession` | preflight, contexts, agent tasks, registry and `ToolBroker` composed | `MCAgentSession` |
| `AgentSessionProofs` | theorems about it, and that it implements `ToolBroker` | tlapm |
| `Production` | walks through the production transition table, with its theorems | itself, tlapm |

Each module also holds, next to the definition they alter, the *mutants*: forms
of that definition with a plausible bug in it. `Next` uses none of them. For each
property that a passing run checks `PROJECT.json` names a mutant that breaks it.

### RunOrchestrator

A *worker* is a command in progress. `worker[w].pc` says at which await it is
and the other fields are the locals it still needs: `copy` is the row as it read
or saved it, `limit` the `max_active_runs` of the context it loaded, `failure` the
state `classifyPreflightFailure` chose. `run`, `log` and `checkpoints` are the
tables: `log[r]` has one set of events per transaction, a set because the order of
events within a transaction is not recoverable from the table. `config` is what
the channel's file would say if read now. `grant` is a history variable for
`CapacityRespected`: the limit a run was admitted under.

| Code | Actions |
| --- | --- |
| `createRun` | `BeginCreateRun`, `CreateRunWithAudit` |
| `queueRun` | `BeginQueueRun`, `QueueRun` |
| `preflightRun`, first transaction | `BeginPreflightRun`, `EnterPreflight` |
| its `try` | `LoadChannelContext`, `ChannelDisabled`, `ContextInvalid`, `PreflightReadFails`, `CheckCapacity`, `CapacityExceeded` |
| its end | `CompletePreflight`, `PersistPreflightFailure` |
| `RunVersionConflictError` of a save | `VersionConflict` |
| the environment | `EditConfig`, `Abandon` |

A command refused before it read anything it keeps (unknown run, other version,
illegal transition, disabled channel) changes nothing and is no step. The
version a caller expects is the one in the row when the command starts; one with
another version is refused. `Abandon` covers three things a worker cannot tell
apart: the process dies, a transaction rolls back, a transaction commits and its
reply is lost (the commit first, then `Abandon` of what follows).
`checkCanEnterStep` has no failing case: the run it is given is in `PREFLIGHT`, of
that channel, and the skill was just loaded. `max_retries` and `retry_count` are
written and never read, and are left out.

### RunLedger

The abstract specification: per run an `entry` (channel, state, number of moves), the
`slot` it reserves or occupies and the `checkpoints` to resume it from. It has no
commands, copies or config files. `Reserve` takes a slot atomically while fewer runs
of the channel than the limit hold one, `Start` occupies it and stores the
checkpoint, `Lapse` gives up the reservation of a lost command, any other `Move` is
a legal transition that gives the slot up. `ImplementsLedger` is `RunLedger!Spec`
under the mapping `entry <- ` the row, `slot <- Grants`: `CheckCapacity` by the owner
of a preflight is `Reserve`, the same check by a worker whose run went on without
it is a stutter, `CompletePreflight` is `Start`, the other commits are `Move`.

### ToolBroker

A member of `Calls` is one `execute(...)`. A duplicate delivery, a repeated call
after a crash, and a call in another process are further members. `call[c].copy`
is the `ToolCall` in memory on which transitions are asserted; `status` is the
row; `inFlight[c]` are the attempts on which the executor still works, which
outlive a timeout and even the call. `raced` is a history variable: the invocations
that two calls found without a row at the same time. What registry, allowlists and
schema say is any of `Verdicts`; what an executor answers is free.

| Code | Actions |
| --- | --- |
| `findByInvocation` in `execute` | `ReturnExisting`, `FindNothing` |
| `createRequestedToolCall` | `InsertRequested` (reply received or lost), `InsertFails`, `Reread` |
| decision | `Deny`, `Allow` |
| `transition(RUNNING)` | `StartRunning` |
| `executeWithRetry`, `executeWithTimeout` | `StartAttempt`, `AttemptAnswers`, `AttemptThrows`, `AttemptTimesOut` |
| an attempt nobody waits for | `LeftoverEnds` |
| `completeFailed`, last transition | `Complete` |
| crash, failed transaction | `Abandon` |

The checks at the top of `execute` (scope, run state) throw before the first await
and change nothing; a request they refuse is no call in the model.

### ToolInvocation

The abstract specification: per invocation a `record` that moves along its lifecycle, how often each
call `asked` the executor, and per call the `answer` it was given. It has no copies,
inserts, timers, retries or lost replies. `Ask` is for the first call that asks,
while the record is `RUNNING` and within the tool's budget; `End` needs somebody to have
asked. `Contest` gives an invocation up before it has a record, and of a `contested`
one nothing is promised (`Dispute`), except that each caller is still told what
the record says (`Told`). `ImplementsInvocation` is `ToolInvocation!Spec` under the mapping
`record <- ` the row, `asked <- ` the attempts counted per call, `contested <- raced`,
`answer <- ` the copy a call returned with: `Allow` and `Deny` are `Decide`,
`StartRunning` is `Run`, `StartAttempt` is `Ask`, `Complete` is `End`, an
insert is `Request`, a second lookup that finds nothing is `Contest`; answers,
timeouts, rereads and lost calls are stutters.

### McpConnection

`connection`, `connecting` and `destroyed` are the fields of the service, holding
the number of a connection where the code holds an object or a promise. `server`
is the life of each connection's client, transport and child process. `caller`
and `closer` are where the users of the service and `close()` are. One settled
opening resumes its opener and all who joined it in one action: their
continuations are microtasks and no other event comes between. Requests on a
connection fail at the latest when its child process has ended (`Drained`), because
the SDK rejects them on the transport's close event before `close()` resolves; the
SDK, the child process and this fact about them are external. `close()` awaits
either a connection or an opening, never both, which is a part of `OneServing`.

| Code | Actions |
| --- | --- |
| `getConnection` | `UseConnection`, `JoinConnecting`, `OpenConnection` |
| `openConnection` and the rest of `getConnection` | `OpenSucceeds`, `OpenFails` |
| `connect` / a request that is answered | `Connected` / `Answered` |
| `mapRequestError`, `resetConnection` | `RequestFails`, `ResetDone` |
| `close` | `Close`, `ClosePending`, `CloseDone` |
| the child process | `ServerBreaks` |

### ToolSession

`Mcp == INSTANCE McpConnection WITH Callers <- Attempts`: an attempt, the n-th of one
execution, is one caller of the client. `session[e]` is where `executeWithRetry` is,
how many attempts it made and the code of the last error. The timer takes the
broker's interest from an attempt (`Awaited` is false from then on) and nothing from
the client: the attempt goes on opening, requesting or resetting. A request ends by an
answer, because its connection is gone, or because its signal is aborted, which
is to say that nobody awaits it; in the last two cases it resets whatever
connection the client has. `calm` is a history variable. It is true at first, a
failed opening, a broken server, a fired timer and `close()` make it false (`Disturbed`), and
the first undisturbed step from a client at rest makes it true again (`Calmed`, `Rested`: not
destroyed, no attempt in it, no broken child). Whether a connection is left, and which,
is not part of rest: that the client has none that is of no use is the client's to
achieve. All tools of the local server are
idempotent, so each retryable error is retried.

| Code | Actions |
| --- | --- |
| `executeWithRetry`, `McpToolExecutor.execute` | `StartAttempt`, `StartRefused`, `AttemptAnswered` |
| `executeWithTimeout` | `AttemptTimesOut` |
| the client on behalf of an attempt | `OpeningSettles`, `RequestFails`, `ResetDone` |
| `close()`, server faults | `ClosingStep`, `Disturbance` |

### ChannelRuntime

`disk` is the sequence of all trees the workspace went through; the operations read
the last one and the properties speak of the ones since an operation began. An
entry is missing, a directory where a file should be, or one of a few bodies, of which
only what the parsers find in it is given (`Configs`: valid with these tools,
invalid, or of another channel; `Grants`: the tools a skill names). Each await of
the code is an action, so an edit fits between any two of them. `branch` holds the
three reads that `Promise.all` starts; the first rejection is the answer.

| Code | Actions |
| --- | --- |
| `getChannelWorkspace` | `ResolveWorkspace`, `ResolveWorkspaceAgain`, `ProbeEntry` (by `Probe`) |
| `readChannelConfig` | `CheckConfig`, `ReadConfig` |
| `loadMarkdownDirectory` | `AssertDirectory`, `ListDirectory`, `CheckDocument`, `ReadDocument` |
| `loadSkills` | `ResolveWorkspaceAgain`, `AssertDirectory`, `LookUpSkill`, `CheckDocument`, `ReadDocument` |
| rest of `loadChannelContext` | `BeginLoad`, `AssembleContext` |
| `listChannels` | `BeginList`, `ReadRoot`, `NextEntry`, `ProbeEntry` |
| editors | `Edit` |

### AuditTrail

One run, its commands (`command[w]`, as in `RunOrchestrator`, of which only reading
the row, taking the timestamp and saving at the version read are kept) and its tool
calls (`call[c]`, of which only the stamps and the transactions are kept). `events` is in
the order of insertion, `findByRunId` in that of the query. Ids are numbers drawn in
any order. One clock that does not go back is assumed.

### AgentSession

`Broker == INSTANCE ToolBroker`, with one invocation per run and the sessions as
calls. The repository has no caller yet of `AgentRuntimeService` and
`ToolBrokerService`; a session is any trusted caller, which may read a run again, load
the context of any channel, use a task another session made, in any order, and so
hold any combination of stale copies. `history[ch]` is what the workspace held,
a context is a reference into it (`ChannelRuntime` says what one load may
combine). `Authorized` gives the verdict that is free in `ToolBroker`: registered,
in the task's list, in the context's list, valid input. Preflight is the one of
`RunOrchestrator` without its contention; a failed run is not queued again here.

| Code | Actions |
| --- | --- |
| `preflightRun` | `EnterPreflight`, `LoadChannelContext`, `CompletePreflight`, `FailPreflight` |
| `ToolRegistryService.register` | `register` |
| `AgentRuntimeService.execute` | `ExecuteAgent`, `ProviderAnswers` |
| `ToolBrokerService.execute` | `RequestTool`, `DecideRequest`, `CallStep` |
| callers, editors | `ReadRun`, `LoadContext`, `Edit` |

### Production

`Move` is any step the table allows. `unreviewed` and `reviewed` are history variables: the
work done on an episode since its last gate, and the work that came to a gate.

## Runs

| Run | Module, cfg | Bounds | Shows |
| --- | --- | --- | --- |
| `orchestrator` | `MCRunOrchestrator` | 2 runs of 1 channel, 2 workers, limit edited between 1 and 2 and channel switched off and on, requeueing up to version 4, 1 lost command | `CapacityRespected`, `AuditRetellsRun`, `CheckpointIffRunning`, `OnlyOwnerEndsPreflight`, `ImplementsLedger`, `PreflightEnds`, `TypeOK` |
| `orchestrator_requeue` | `MCRunOrchestrator`, `RunOrchestrator_requeue` | 1 run, 1 worker | refutes `QueuesScheduledOnly` |
| `broker` | `ToolBroker` | 2 calls, 2 invocations (one idempotent), 2 retries, 2 lost calls | `EveryExecutionWasAllowed`, `ExecutedOnceUnlessRaced`, `AttemptBudget`, `OverlapOnlyIfIdempotent`, `AuditTellsStatus`, `ImplementsInvocation`, `NobodyTakesOver`, `RowsSettle`, `CallsReturn`, `TypeOK` |
| `broker_double_execution` | `ToolBroker`, `ToolBroker_double_execution` | 2 calls, 1 invocation | refutes `ExecutedOnce` |
| `broker_reopened` | `ToolBroker`, `ToolBroker_reopened` | 2 calls, 1 invocation | refutes `CompletedIsFinal` |
| `mcp` | `McpConnection` | 3 callers, 4 child processes | `OneServing`, `NoOrphan`, `ShutdownCloses`, `CallsEnd`, `TypeOK` |
| `mcp_wrong_drop` | `McpConnection`, `McpConnection_wrong_drop` | 3 callers, 2 child processes | refutes `DropsOnlyWhatFailed` |
| `session` | `ToolSession` | 2 executions, 1 retry, 4 child processes | `HarmPasses`, `SpawnsWithinAttempts`, `ExecutionsEnd`, `LeftoversEnd`, `TypeOK` |
| `channel` | `MCChannelRuntime` | 2 channels and a stray directory; a rule, two memories (one approved), a skill; any 2 edits | `ContextWasThere`, `EffectiveToolsWereGranted`, `FailureHasCause`, `ListingIsHonest`, `TypeOK` |
| `audit` | `MCAuditTrail` | 2 workers, 1 call, 3 milliseconds, 5 events | `TrailShowsCausesFirst` |
| `agent` | `MCAgentSession` | 2 runs, 2 channels, 2 sessions, 2 definitions of one tool, 1 edit | `ExecutedInScope`, `ExecutedAsGranted`, `OneDefinition`, `ResultIsGrounded`, `TypeOK` |
| `production` | `Production` | 2 episodes | `ReleasedWasReviewed`, `LoopsPassAGate` |

The cfg has the module's name where none is given.

Why the bounds are enough. Two runs and two workers are the fewest that compete for
a slot and hold stale copies of each other's row. Version 4 is a run that was blocked
and is queued once more, and so passes a second preflight. Two calls are
the fewest to race, or for one to come after the other was lost. Three
callers are the fewest for one to drop a connection, one to open the next and one
to fail late on the first; four child processes allow that twice. Two
executions with a retry each make four attempts, so that a leftover, its retry and
a bystander meet on one connection; the definitions of the local tools grant one retry.
Two edits are a removal and a return, or a change of the config and one of
a skill, between any two awaits of one load or listing. Two sessions are the
fewest to race for an invocation and to swap tasks; two runs, in two channels
or in one (both are initial states), the fewest to swap them between; the one edit revokes the
tool (`GrantedAtFirst`), after which a session may hold a task or a context of either
moment with the other of the other, as it might had the edit granted it. Three
milliseconds and five events hold a run's life to `RUNNING_STEP` with a stale
command in between and a tool call after it. What a small instance could still hide
is a matter of liveness only: every invariant and action property of a passing run
is also proved for all values of the constants (see Proofs).

Fingerprint symmetry is used in `audit` and `agent`, which check safety only.
`MaxVersion`, `MaxAbandons`, `MaxRetries`, `MaxConnections`, `MaxEdits`, `MaxTime` and `MaxEvents`
bound counters; the first is a guard of `BeginQueueRun` alone, so a run in
progress is never cut off. The orchestrator runs check for deadlock. The others do
not: calls are one-shot, connections are numbered, loads, listings, sessions
and episodes end, and the system stops when all are used up.

### Fairness

`RunOrchestrator!FairSpec` has weak fairness of each worker's `Continue`: the
event loop resumes a command whose I/O completed. Starting a command, editing
the config and losing a command have none, and `PreflightEnds` is stated for
behaviours in which no command is lost, since a command lost in a preflight does
leave its run there; so are `RowsSettle` and `CallsReturn`.
`ToolBroker!FairSpec` has weak fairness of each call's `BrokerStep`, the timer
included, and none of what the executor does. `McpConnection!FairSpec` has it of
what the SDK bounds by its own timeouts (handshake, request, termination of the
child) and of the continuations of `close()`; nothing obliges anyone to call or
the server to break.
`ToolSession!FairSpec` has it of the broker's continuations and timers, of the client's
reaction to an aborted signal or a closed connection, of the settling of an opening and of `close()`; no
server ever has to answer. `Production!FairSpec` says that whoever moves
episodes keeps moving each: without it every property of loops would fail for a
person on holiday.

## Findings

1. `queueRun` requeues `BLOCKED`, `PAUSED` and `FAILED_RECOVERABLE` runs; the
   documentation says it makes exactly `SCHEDULED -> QUEUED`.
2. Two concurrent calls for one invocation both execute it. The unique index
   refuses the second insert, but the call then takes the row it finds for its own
   as long as that row is still `REQUESTED`. `createRequestedToolCall` cannot tell
   "my insert committed and the reply was lost" from "another call inserted".
3. The loser of that race writes `ALLOWED` over a terminal status, since the
   update has no condition on the status it moves from.
4. A request that fails late resets the connection of the moment. After one
   call dropped a hung server and another opened a new one, the third closes the new
   one, and the requests on it with it.

The properties named `...UnlessRaced`, and those that quantify over
`Invocations \ raced`, say what remains true apart from 2 and 3: the race needs two
calls that both hold the answer "no row", and no loss, retry or timeout brings
it about by itself.

Three more things a reader of the models should know, which no run refutes:

- Within one millisecond `findByRunId` orders by a random id, so that two events of one
  call or run may come back either way (`typeorm-audit-event.repository.ts:34`).
  `TrailShowsCausesFirst` says what is left: across milliseconds no effect
  precedes its cause.
- A request whose own signal was aborted counts as a transport error, so the timeout of
  one attempt closes the shared connection though its server is well
  (`mcp-client.service.ts:163`). A bystander with a request on it fails
  with it. `HarmPasses`, `LeftoversEnd` and `SpawnsWithinAttempts` bound what that costs
  the others: the attempts then in the client, which leave it, and no child
  process that no attempt paid for.
- The checkpoint's `context_snapshot` is that of preflight, while the agent gets the context
  its caller loads later; nothing compares the two.

## Proofs

`RunOrchestratorProofs` proves for every value of the constants, from
`RunIdsAssumption` (a finite set of ids), `ChannelConfigsAssumption` (the parser
accepts `max_active_runs >= 1` only) and `BoundsAssumption`:

| Theorem | Says |
| --- | --- |
| `TypeCorrect` | `Spec => []TypeOK` |
| `OwnersAreUnique` | `Spec => []OwnerUnique` |
| `CapacityIsRespected` | `Spec => []CapacityRespected` |
| `PreflightHasOneEnd` | `Spec => OnlyOwnerEndsPreflight` |
| `CheckpointsMatchRuns` | `Spec => []CheckpointIffRunning` |
| `AuditIsFaithful` | `Spec => []AuditRetellsRun` |
| `NoUpdateIsLost` | `Spec => RowsMoveOn` |
| `RunOrchestratorImplementsLedger` | `Spec => ImplementsLedger` |

The argument. `TypeOK` alone does not say that a worker past its first await holds a
run id and a row; `TypeInv` adds that (`WorkerTypes`). None of the properties is
inductive on types: whether a commit is legal depends on the copy the worker made
before its await. `CommandsSound` says what a command may rely on: its copy is the
stored row as long as the versions agree, the state it asserted is the one in
the copy, a run being created is nobody else's. `OwnerUnique` says that at most one
worker holds the current version of a run in `PREFLIGHT`. Together with types they
are inductive (`IInv`, theorem `IInvInvariant`). The central lemmas are that
a commit replaces exactly the copy (`CommitReplacesCopy`) and that it takes the run
from every other worker (`CommitKeepsOthers`).

Each property then is inductive relative to `IInv`. For `CapacityRespected` the
point is that a run in `PREFLIGHT` is already counted by `findActiveByChannel`: when
worker w passes the check under limit n, every run that holds a slot is among the
fewer than n competitors it counted, so n allows them all; every later step keeps
or gives up grants, and the limit that allowed a larger set allows its subsets. For
`AuditRetellsRun` it is that the `from` of the event is the state of the copy, which
is the state of the row, which is what the last commit logged. For `NoUpdateIsLost`
it is `CommitReplacesCopy` again: what is saved is the successor of what is stored.
`AgentSession` takes the same of its runs for granted, and that a run which is ready
is moved by no command.

The refinement uses `IInv` and one more invariant, `LimitsAreConfigured`: the limit a
worker checks against is one that a config file states. Each action that commits is
mapped to its ledger action (`CreateIsCreate`, `CommitIsMove`, `CompleteIsStart`),
the check to `AdmissionIsReserve`, a command that ends without a commit to
`FinishIsLapse`; every other action keeps rows, grants and checkpoints.

### The broker

`ToolBrokerProofs`, from `InvocationsAssumption` and `BrokerBoundsAssumption`, for any
number of invocations, calls, retries and lost calls:

| Theorem | Says |
| --- | --- |
| `BrokerInvariant`, `BrokerTypes` | `Spec => []BrokerInv`, `[]TypeOK` |
| `ExecutedByOne` | `Spec => []ExecutedOnceUnlessRaced` |
| `AttemptsWithinBudget` | `Spec => []AttemptBudget` |
| `OverlapIsIdempotent` | `Spec => []OverlapOnlyIfIdempotent` |
| `RowFollowsLifecycle` | `Spec => LifecycleUnlessRaced` |
| `LogTellsStatus` | `Spec => []AuditTellsStatus` |
| `AllowedBeforeExecuted` | `Spec => []EveryExecutionWasAllowed` |
| `LeftBehindStays` | `Spec => NobodyTakesOver` |
| `CallsAreBounded` | `Spec => CallsRunDown` |
| `BrokerIsNeverStuck` | `Spec => []NobodyStuck` |
| `BrokerImplementsInvocation` | `Spec => ImplementsInvocation` |

The argument. A row has no owner in the table; the invariant `BrokerInv` says that
the row of an unraced invocation has one in effect. A call is *engaged* if it has
executed or may still come to, and of an unraced invocation at most one call is
(`SoleEngaged`): whoever looks later finds the row and returns. `CopyOf` says that the copy
in memory is the one the call's place demands and, unraced, what the row says;
from it `RowFollowsLifecycle` follows at once, although the update is by id alone.
`StepOfOne` is the lemma all steps go through: a step that changes the locals of
one call, and the row only if it was engaged, harms no other. `LogTellsStatus`
needs `LogInv` on top (the log says what the row says, and an ended row has its executor), `AllowedBeforeExecuted`, which holds raced
or not, a count: the calls that hold a permission are never more than the
permissions in the log (`PermitInv`).

`CallsAreBounded` and `BrokerIsNeverStuck` are what `CallsReturn` and `RowsSettle` rest on, short of fairness.
`StepsLeft(c)` counts what a call still has before it; each of its own steps lowers it
and no other call's step touches it, so a call makes at most `2 * MaxRetries + 10`
steps. `NobodyStuck` says that a call in progress may always take one: every
transition it asserts is legal on its copy, raced or not, and an attempt it waits
for is one its timer can end.

The refinement needs `BrokerInv` before the step. `StepKeepsPromise` has one
case per action: of an unraced invocation `SoleEngaged` says that nobody else asked and
`CopyOf` that the row is where the copy says it is, so that the step is the one `ToolInvocation`
allows; of a raced one it is a `Dispute`, which asks only that no other invocation is
touched. `CallersAreTold` holds in both: the three actions that return
(`Reread`, `Deny`, `Complete`) and the lookup hand out what the row holds after
that very step. In `AgentSessionProofs` the theorem carries over to sessions
(`SessionsKeepThePromise`).

### The MCP client

`McpConnectionProofs`, for any number of callers and child processes:
`ConnectionInvariant`, `ConnectionTypes` (`TypeOK`), `ServedByOne` (`OneServing`),
`NothingOrphaned` (`NoOrphan`) and `WaitersHaveSomethingToWaitFor`. What the service knows of a child is spread over `connection`,
`connecting`, `close()` and the callers that reset; `ConnectionInv` says that each
holds what the child's state says it does, that a destroyed service holds
nothing, and that a child is closed by one caller or by `close()`. On top of it
`NobodyWaitsInVain` is inductive: who waits for an opening waits for one that can
still settle, and a request is on a child that was opened and has not ended, so that
the fairness of `CallsEnd` and `ShutdownCloses` finds something to act on.

### Broker over client

`ToolSessionProofs`, from `SessionAssumption` (finitely many executions), for any number
of executions, retries and child processes:

| Theorem | Says |
| --- | --- |
| `SessionInvariant`, `SessionTyped` | `Spec => []SessionInv`, `[]TypeOK` |
| `HarmEnds` | `Spec => HarmPasses` |
| `NoSpawnBeyondAttempts` | `Spec => []SpawnsWithinAttempts` |
| `AttemptsShareTheClient` | `Spec => Client!Spec` |
| `SharedClientIsSound` | `Spec => [](Client!OneServing /\ Client!NoOrphan)` |

The argument. `Client` is `McpConnection` with the attempts as callers. The composition
has actions of its own for several things the client does at once with the broker,
and `StepMaps` takes each to a step of the client or to none; all that is proved of
the client then holds here and is used for the rest. `NoSpawnBeyondAttempts` compares
two cardinalities: the one step that spawns a child begins an attempt too, and no
step takes an attempt back; the client must know of no attempt before it is made
(`OnlyMadeAttempts`). `Undisturbed` says what calm leaves possible: no child
is broken or being closed, nobody closes or resets, every attempt the client works
on is one that its execution still waits for, and what it requests is on an open
connection. `RestIsUndisturbed` gets it from rest: `ConnectionInv` knows a closer of each
child that is being closed, and at rest there is none, so what `this.connection` has left is
open. An undisturbed step keeps it, and none of these fails an attempt that is waited
for (`CalmStepFailsNobody`), which is `HarmEnds`.

### The channel runtime

`ChannelRuntimeProofs`, from `ChannelsAssumption`, `FilesAssumption`, `NamesAssumption` (files,
directories, their contents and the marks for what is missing have different names)
and `LoadBoundsAssumption`, for any channels, files, contents and edits:

| Theorem | Says |
| --- | --- |
| `RuntimeInvariant`, `RuntimeTyped` | `Spec => []RuntimeInv`, `[]TypeOK` |
| `ContextsWereThere` | `Spec => []ContextWasThere` |
| `SkillsOnlyNarrow` | `Spec => []EffectiveToolsWereGranted` |
| `FailuresHaveCauses` | `Spec => []FailureHasCause` |
| `ListingsAreHonest` | `Spec => []ListingIsHonest` |

The argument. All of it is about the history of the disk, which edits only make longer
(`Grown`): what was seen once stays seen, so every part of the invariant is a statement that
growth preserves. `RuntimeInv` says of a load that its config was there at a moment n, of a
branch that each file it has read or skipped is accounted for at a moment not before
n, and that a file it is about to read has been seen to be a file, which is why a
failure to read it is a race and not the workspace's fault. `FailuresHaveCauses` then needs
each check only once, at the action that fails.

### Production

`ReleaseFollowsReview`: `Spec => []ReleasedWasReviewed` for any number of episodes,
by an invariant that a package being made is unreviewed and that
the one way from it leads through gate 3. `NoWorkTwice`: `Spec => WorkOncePerGate`, that
no piece of work is begun twice between two gates, by `DoneBefore`, which says what
may have been done since the last gate where an episode is; hence the table has no loop
without a gate, which is what `LoopsPassAGate` adds fairness to.

### The agent session

`AgentSessionProofs`, from `ContentsAssumption`, for any number of runs, channels,
sessions, contents, definitions and edits, over the composition with `ToolBroker`:

| Theorem | Says |
| --- | --- |
| `SessionInvariant` | `Spec => []SessionInv` |
| `ExecutionInScope` | `Spec => []ExecutedInScope` |
| `ExecutionAsGranted` | `Spec => []ExecutedAsGranted` |
| `ExecutionByOneDefinition` | `Spec => []OneDefinition` |
| `ResultsAreGrounded` | `Spec => []ResultIsGrounded` |
| `SessionsTyped` | `Spec => []TypeOK` |
| `SessionsCallTheBroker` | `Spec => Calling!Spec` |
| `SessionsKeepThePromise` | `Spec => Calling!ImplementsInvocation` |
| `RunsExecuteOnce` | `Spec => []OneExecutionPerRun` |

The argument. Every copy a session holds may be old; `SessionInv` says what of it cannot
be: a run that was read at its step still is (`CopiesHold`), what a context was loaded
from is still in the history (`InHistory`), a task is as it was made and alone has its id
(`TasksInScope`). From its request on a session changes none of its copies, so that what was
compared then holds when the tool is executed (`RequestsInScope`), and what was decided
was decided on them (`PermittedAsGranted`). Of the broker the proof needs one thing,
`CallsGoOn`: its steps leave a call with its invocation, and none but `Allow` permits one.
`Calling` is `ToolBroker` with one invocation per run: a session's request and
decision are steps of it (the verdict, free there, is computed here), so that all that is
proved of the broker holds for sessions (`CallsAreSound`), and `RunsExecuteOnce` says
what of it matters to them. `SessionsTyped` needs that a context is a moment of the
history, of the channel it was loaded for (`TypeInv`).

### The audit trail

`AuditTrailProofs`, from `TrailAssumption`, for any number of commands, calls, events and
versions: `TrailInvariant`, `CausesBearEarlierStamps`, `AnswersShowCausesFirst` and
`TrailsShowCausesFirst` (`TrailShowsCausesFirst`). The
invariant says that a stamp that can still be stored is not older than what its source
has stored: of the commands that hold old stamps only one that read the last version
can save (`CommandsInTime`), and calls stamp when no command can save any more
(`CallsInTime`); ids are unique. `AnswersShowCausesFirst` speaks of any answer sorted by
`created_at` and id. That `findByRunId` of the model is one is a lemma: it puts at each place
the event that as many events come before, and every place has one since ids break
ties. (An operator that sorts, like `SortSeq`, could not be reasoned about:
its definition chooses a permutation.)

### What proving changed

Two models were rewritten so that they could be reasoned about: `ChannelRuntime` keeps the
files a branch has left as a set instead of a sequence, and `AuditTrail` ranks events
instead of sorting. One flaw came to light: two
arms of the CASE by which `ChannelRuntime` says where a branch begins both applied to a
directory in which no file was ever wanted, and TLC had silently taken the first. Only
the branch of the skills is done before it begins, when no skill is requested;
now the arms say so. `NamesAssumption` states a second thing that the model had
relied on: a document is neither a directory nor the config.

### Only model-checked

Every invariant and every action property of the passing runs is stated by a theorem.
What only TLC checks is liveness: `PreflightEnds`, `RowsSettle`, `CallsReturn`, `ShutdownCloses`,
`CallsEnd`, `ExecutionsEnd`, `LeftoversEnd` and `LoopsPassAGate`. Fairness is
defined by ENABLED, of which the prover knows nothing, so a leads-to cannot be
concluded here. What there is of safety in them is proved: `CallsRunDown` and `NobodyStuck`
for the broker, `NobodyWaitsInVain` for the client, `WorkOncePerGate` for production.
The refuted properties of the findings have no theorem, of course; the theorems named
`...UnlessRaced` say what holds instead.

## Not modelled

- Symbolic links and path arithmetic; YAML and Markdown (what the parsers find in a
  body is a constant of `ChannelRuntime`); JSON schemas (their verdict is a
  constant of `AgentSession` and free in `ToolBroker`).
- The latest checkpoint: a run has at most one, by `CheckpointIffRunning`.
- The lookups of the local tools in mock data, which keep no state.
- `validateGate`: three independent guards on one record that nothing calls.
- A provider that works on the context it is given in any other way than citing it.
- Clocks that go back or differ between hosts; delays (a `timeout_ms` above
  2^31-1 fires at once, see `hazards`).
- Wording of errors, schema versions, framework wiring.

Some hazards have no property because the repository promises nothing of them: a
process that dies in `PREFLIGHT` leaves the run there, contenders may block each other,
a channel may be disabled between preflight's read and its commit, and a `channel.yaml` read
half-written is a final error like an invalid one.

## Plan

The modules were written in this order: `RunLifecycle`, `RunOrchestrator` and its
proofs; `ToolBroker`; `McpConnection`; `RunLedger` and the refinement;
`ChannelRuntime`; `AuditTrail`; `ToolSession`; `AgentSession`; the proofs of
`McpConnection` and `ToolBroker`; `Production`; the proofs of `AgentSession` and
`AuditTrail`; the proofs of `ToolSession` and `ChannelRuntime`; the refinements between the
modules that are composed; `ToolInvocation` and the broker's refinement of it. What is
left, most useful first:

1. The other halves of the liveness properties: for `PreflightEnds` and `ExecutionsEnd` a
   bound on the steps of a command and of an execution, as `CallsRunDown` is for calls.
2. Recovery of a run left in `PREFLIGHT` and the scheduler, when the code has them.
