-------------------------- MODULE RunOrchestrator --------------------------
(***************************************************************************)
(* RunOrchestratorService over PostgreSQL: any number of callers execute   *)
(* createRun, queueRun and preflightRun at the same time.  A caller is a   *)
(* worker; each await of the service is a boundary between two actions, so *)
(* the others may move while a worker holds what it read.  A transaction   *)
(* (the row, its audit events, its checkpoint) is one action.              *)
(*                                                                         *)
(* The environment edits the channel's config file at any time, makes any  *)
(* file or database read fail, and abandons a worker at any await: the     *)
(* process dies, a transaction rolls back, or it commits and the reply is  *)
(* lost.  In all three the command goes no further.                        *)
(***************************************************************************)
EXTENDS RunLifecycle, Sequences, FiniteSets

CONSTANTS
  RunIds,         \* what RuntimeIdFactory can hand out
  ChannelIds,     \* the channels that have a workspace
  Workers,        \* concurrent calls of the service
  ChannelConfigs, \* [enabled, maxActiveRuns]: what config files can hold
  MaxVersion,     \* bound: a run at a higher version is not queued again
  MaxAbandons     \* bound: how many commands are lost half-way

ASSUME RunIdsAssumption == IsFiniteSet(RunIds) /\ "none" \notin RunIds
ASSUME ChannelConfigsAssumption ==
  ChannelConfigs \subseteq [enabled : BOOLEAN, maxActiveRuns : Nat \ {0}]
ASSUME BoundsAssumption == MaxVersion \in Nat /\ MaxAbandons \in Nat

VARIABLES
  config,      \* the config file of each channel
  run,         \* table harness_runs: the row of each run id
  log,         \* table audit_events: per run, the event set of each commit
  checkpoints, \* table run_checkpoints: per run, what was appended
  worker,      \* the command each worker is executing, with its locals
  abandons,    \* how many commands were lost so far
  grant        \* history: the capacity limit a run was admitted under

vars == <<config, run, log, checkpoints, worker, abandons, grant>>

-----------------------------------------------------------------------------
(* The rows, the events and the locals of a command. *)

RunRow == [channel : ChannelIds, state : RunStates, step : RunSteps,
           version : Nat \ {0}]
NoRow == [channel |-> "none", state |-> "ABSENT", step |-> "none",
          version |-> 0]

StateChanged(from, to) ==
  [type |-> "RUN_STATE_CHANGED", from |-> from, to |-> to]
RunCreated == [type |-> "RUN_CREATED", from |-> "ABSENT", to |-> "SCHEDULED"]
\* Events that carry no state; both fields repeat the state they belong to.
EventIn(type, state) == [type |-> type, from |-> state, to |-> state]
StepStarted == EventIn("STEP_STARTED", "PREFLIGHT")
StepCompleted == EventIn("STEP_COMPLETED", "RUNNING_STEP")
RunFailed(state) == EventIn("RUN_FAILED", state)

AuditEvent ==
  [type : {"RUN_CREATED", "RUN_STATE_CHANGED", "STEP_STARTED",
           "STEP_COMPLETED", "RUN_FAILED"},
   from : RunStates \cup {"ABSENT"}, to : RunStates]

Checkpoint == [step : RunSteps, run_state : RunStates]
PreflightCheckpoint == [step |-> "PRECHECK", run_state |-> "RUNNING_STEP"]

PreflightFailures == {"BLOCKED", "FAILED_RECOVERABLE", "FAILED_FINAL"}

Locals ==
  [pc : {"idle", "creating", "queueing", "entering", "loading", "counting",
         "admitted", "failing"},
   run : RunIds \cup {"none"},           \* command.runId
   copy : RunRow \cup {NoRow},           \* the row as this worker read it
   limit : Nat,                          \* max_active_runs of its context
   failure : PreflightFailures \cup {"none"}]
Idle == [pc |-> "idle", run |-> "none", copy |-> NoRow, limit |-> 0,
         failure |-> "none"]

Exists(r) == run[r] # NoRow
ActiveRuns(ch) ==
  {r \in RunIds : run[r].channel = ch /\ ConsumesChannelCapacity(run[r].state)}

TypeOK ==
  /\ config \in [ChannelIds -> ChannelConfigs]
  /\ run \in [RunIds -> RunRow \cup {NoRow}]
  /\ log \in [RunIds -> Seq(SUBSET AuditEvent)]
  /\ checkpoints \in [RunIds -> Seq(Checkpoint)]
  /\ worker \in [Workers -> Locals]
  /\ abandons \in Nat
  /\ grant \in [RunIds -> Nat]

Init ==
  /\ config \in [ChannelIds -> ChannelConfigs]
  /\ run = [r \in RunIds |-> NoRow]
  /\ log = [r \in RunIds |-> <<>>]
  /\ checkpoints = [r \in RunIds |-> <<>>]
  /\ worker = [w \in Workers |-> Idle]
  /\ abandons = 0
  /\ grant = [r \in RunIds |-> 0]

-----------------------------------------------------------------------------
(* The Runtime Store: one transaction per operation. *)

Finish(w) == worker' = [worker EXCEPT ![w] = Idle]

\* Mutant: the UPDATE has no version in its WHERE clause.
VersionIgnored(r, expectedVersion) == run[r] # NoRow

VersionMatches(r, expectedVersion) == run[r].version = expectedVersion

\* UPDATE ... SET <row>, version = version + 1 WHERE id AND version = expected,
\* together with the audit events.
SaveRunWithAudits(r, row, expectedVersion, events) ==
  /\ VersionMatches(r, expectedVersion)
  /\ run' = [run EXCEPT ![r] = [row EXCEPT !.version = run[r].version + 1]]
  /\ log' = [log EXCEPT ![r] = Append(@, events)]

AppendCheckpoint(r, checkpoint) ==
  checkpoints' = [checkpoints EXCEPT ![r] = Append(@, checkpoint)]

-----------------------------------------------------------------------------
(* createRun *)

\* A fresh id: no row has it and no command in flight drew it.
Fresh(r) == ~Exists(r) /\ \A w \in Workers : worker[w].run # r

\* Mutant: the row starts at version 0, as a counter would.
BeginCreateRunAtZero(w, r, ch) ==
  /\ worker[w].pc = "idle"
  /\ Fresh(r)
  /\ config[ch].enabled
  /\ worker' = [worker EXCEPT ![w] =
       [Idle EXCEPT !.pc = "creating", !.run = r,
                    !.copy = [channel |-> ch, state |-> "SCHEDULED",
                              step |-> "none", version |-> 0]]]
  /\ UNCHANGED <<config, run, log, checkpoints, abandons, grant>>

BeginCreateRun(w, r, ch) ==
  /\ worker[w].pc = "idle"
  /\ Fresh(r)
  /\ config[ch].enabled
  /\ worker' = [worker EXCEPT ![w] =
       [Idle EXCEPT !.pc = "creating", !.run = r,
                    !.copy = [channel |-> ch, state |-> "SCHEDULED",
                              step |-> "none", version |-> 1]]]
  /\ UNCHANGED <<config, run, log, checkpoints, abandons, grant>>

CreateRunWithAudit(w) ==
  LET r == worker[w].run IN
  /\ worker[w].pc = "creating"
  /\ run' = [run EXCEPT ![r] = worker[w].copy]
  /\ log' = [log EXCEPT ![r] = Append(@, {RunCreated})]
  /\ Finish(w)
  /\ UNCHANGED <<config, checkpoints, abandons, grant>>

-----------------------------------------------------------------------------
(* queueRun and preflightRun start alike: read the row, compare its version *)
(* with the command's, assert the transition.  A command with another       *)
(* version, or an illegal transition, is refused and changes nothing.       *)

BeginCommand(w, r, pc, to) ==
  /\ worker[w].pc = "idle"
  /\ Exists(r)
  /\ CanTransitionRun(run[r].state, to)
  /\ worker' = [worker EXCEPT ![w] =
                  [Idle EXCEPT !.pc = pc, !.run = r, !.copy = run[r]]]
  /\ UNCHANGED <<config, run, log, checkpoints, abandons, grant>>

BeginQueueRun(w, r) ==
  /\ run[r].version <= MaxVersion
  /\ BeginCommand(w, r, "queueing", "QUEUED")

BeginPreflightRun(w, r) == BeginCommand(w, r, "entering", "PREFLIGHT")

QueueRun(w) ==
  LET r == worker[w].run  copy == worker[w].copy IN
  /\ worker[w].pc = "queueing"
  /\ SaveRunWithAudits(r, [copy EXCEPT !.state = "QUEUED", !.step = "none"],
                       copy.version, {StateChanged(copy.state, "QUEUED")})
  /\ Finish(w)
  /\ UNCHANGED <<config, checkpoints, abandons, grant>>

-----------------------------------------------------------------------------
(* preflightRun *)

\* The first transaction; the worker goes on with the row it saved.
EnterPreflight(w) ==
  LET r == worker[w].run  copy == worker[w].copy IN
  /\ worker[w].pc = "entering"
  /\ SaveRunWithAudits(r, [copy EXCEPT !.state = "PREFLIGHT",
                                       !.step = "PRECHECK"],
                       copy.version,
                       {StateChanged(copy.state, "PREFLIGHT"), StepStarted})
  /\ worker' = [worker EXCEPT ![w].pc = "loading", ![w].copy = run'[r]]
  /\ UNCHANGED <<config, checkpoints, abandons, grant>>

Fail(w, failure) ==
  /\ worker' = [worker EXCEPT ![w].pc = "failing", ![w].failure = failure]
  /\ UNCHANGED <<config, run, log, checkpoints, abandons, grant>>

\* The context is read while others may edit the file: this worker goes on
\* with the config it saw.
LoadChannelContext(w) ==
  LET ch == worker[w].copy.channel IN
  /\ worker[w].pc = "loading"
  /\ config[ch].enabled
  /\ worker' = [worker EXCEPT ![w].pc = "counting",
                              ![w].limit = config[ch].maxActiveRuns]
  /\ UNCHANGED <<config, run, log, checkpoints, abandons, grant>>

ChannelDisabled(w) ==
  /\ worker[w].pc = "loading"
  /\ ~config[worker[w].copy.channel].enabled
  /\ Fail(w, "BLOCKED")

\* A missing or malformed config, rule, skill or path.
ContextInvalid(w) == worker[w].pc = "loading" /\ Fail(w, "FAILED_FINAL")

\* Any other error of the file system or of findActiveByChannel.
PreflightReadFails(w) ==
  worker[w].pc \in {"loading", "counting"} /\ Fail(w, "FAILED_RECOVERABLE")

CompetingRuns(w) == ActiveRuns(worker[w].copy.channel) \ {worker[w].run}

\* Mutant: as many competitors as the limit allows still leave room.
HasCapacityInclusive(w) == Cardinality(CompetingRuns(w)) <= worker[w].limit

HasCapacity(w) == Cardinality(CompetingRuns(w)) < worker[w].limit

\* Mutant: the checkpoint is appended ahead, in a transaction of its own.
CheckCapacityAndCheckpoint(w) ==
  /\ worker[w].pc = "counting"
  /\ HasCapacity(w)
  /\ AppendCheckpoint(worker[w].run, PreflightCheckpoint)
  /\ worker' = [worker EXCEPT ![w].pc = "admitted"]
  /\ UNCHANGED <<config, run, log, abandons, grant>>

CheckCapacity(w) ==
  /\ worker[w].pc = "counting"
  /\ HasCapacity(w)
  /\ worker' = [worker EXCEPT ![w].pc = "admitted"]
  /\ UNCHANGED <<config, run, log, checkpoints, abandons, grant>>

CapacityExceeded(w) ==
  /\ worker[w].pc = "counting"
  /\ ~HasCapacity(w)
  /\ Fail(w, "BLOCKED")

\* The last transaction of a preflight that passed.
CompletePreflight(w) ==
  LET r == worker[w].run  copy == worker[w].copy IN
  /\ worker[w].pc = "admitted"
  /\ SaveRunWithAudits(r, [copy EXCEPT !.state = "RUNNING_STEP",
                                       !.step = "TOPIC_RESEARCH"],
                       copy.version,
                       {StepCompleted, StateChanged("PREFLIGHT", "RUNNING_STEP")})
  /\ AppendCheckpoint(r, PreflightCheckpoint)
  /\ grant' = [grant EXCEPT ![r] = worker[w].limit]
  /\ Finish(w)
  /\ UNCHANGED <<config, abandons>>

\* Mutant: the error is thrown to the caller and its end is not stored.
RethrowPreflightFailure(w) ==
  /\ worker[w].pc = "failing"
  /\ Finish(w)
  /\ UNCHANGED <<config, run, log, checkpoints, abandons, grant>>

\* The last transaction of a preflight that did not.
PersistPreflightFailure(w) ==
  LET r == worker[w].run  copy == worker[w].copy
      failure == worker[w].failure IN
  /\ worker[w].pc = "failing"
  /\ CanTransitionRun(copy.state, failure)
  /\ SaveRunWithAudits(r, [copy EXCEPT !.state = failure], copy.version,
                       {StateChanged(copy.state, failure)} \cup
                         IF failure = "BLOCKED" THEN {}
                                                ELSE {RunFailed(failure)})
  /\ Finish(w)
  /\ UNCHANGED <<config, checkpoints, abandons, grant>>

\* RunVersionConflictError from any of the saves.
VersionConflict(w) ==
  /\ worker[w].pc \in {"queueing", "entering", "admitted", "failing"}
  /\ ~VersionMatches(worker[w].run, worker[w].copy.version)
  /\ Finish(w)
  /\ UNCHANGED <<config, run, log, checkpoints, abandons, grant>>

-----------------------------------------------------------------------------
(* The environment *)

EditConfig(ch) ==
  /\ \E c \in ChannelConfigs \ {config[ch]} :
       config' = [config EXCEPT ![ch] = c]
  /\ UNCHANGED <<run, log, checkpoints, worker, abandons, grant>>

Abandon(w) ==
  /\ worker[w].pc # "idle"
  /\ abandons < MaxAbandons
  /\ abandons' = abandons + 1
  /\ Finish(w)
  /\ UNCHANGED <<config, run, log, checkpoints, grant>>

-----------------------------------------------------------------------------
(* The specification *)

BeginAny(w) ==
  \/ \E r \in RunIds, ch \in ChannelIds : BeginCreateRun(w, r, ch)
  \/ \E r \in RunIds : BeginQueueRun(w, r)
  \/ \E r \in RunIds : BeginPreflightRun(w, r)

Continue(w) ==
  \/ CreateRunWithAudit(w)
  \/ QueueRun(w)
  \/ EnterPreflight(w)
  \/ LoadChannelContext(w)
  \/ ChannelDisabled(w)
  \/ ContextInvalid(w)
  \/ PreflightReadFails(w)
  \/ CheckCapacity(w)
  \/ CapacityExceeded(w)
  \/ CompletePreflight(w)
  \/ PersistPreflightFailure(w)
  \/ VersionConflict(w)

Next ==
  \/ \E w \in Workers : BeginAny(w) \/ Continue(w) \/ Abandon(w)
  \/ \E ch \in ChannelIds : EditConfig(ch)

Spec == Init /\ [][Next]_vars

\* The event loop resumes every command whose I/O completed; nothing obliges
\* a caller to start one, the environment to fail or the config to change.
FairSpec == Spec /\ \A w \in Workers : WF_vars(Continue(w))

-----------------------------------------------------------------------------
(* Properties *)

\* Worker w took run r into PREFLIGHT and no commit has moved the row since.
Owns(w, r) ==
  /\ worker[w].run = r
  /\ worker[w].pc \in {"loading", "counting", "admitted", "failing"}
  /\ worker[w].copy.version = run[r].version

\* What a command may rely on: the row it read is the stored one as long as
\* the version is, a run being created is its own, and the state it asserted
\* is the state in its copy.
CommandSound(w) ==
  LET r == worker[w].run  copy == worker[w].copy  pc == worker[w].pc IN
  /\ pc = "creating" =>
       /\ ~Exists(r)
       /\ copy.state = "SCHEDULED" /\ copy.version = 1
       /\ \A v \in Workers \ {w} : worker[v].run # r
  /\ pc \notin {"idle", "creating"} =>
       /\ Exists(r)
       /\ copy.version <= run[r].version
       /\ copy.version = run[r].version => copy = run[r]
  /\ pc = "queueing" => CanTransitionRun(copy.state, "QUEUED")
  /\ pc = "entering" => copy.state = "QUEUED"
  /\ pc \in {"loading", "counting", "admitted", "failing"} =>
       copy.state = "PREFLIGHT"
CommandsSound == \A w \in Workers : CommandSound(w)

OwnerUnique ==
  \A r \in RunIds : \A v, w \in Workers : Owns(v, r) /\ Owns(w, r) => v = w

\* The limits under which run r holds a slot: it runs, or its owner passed
\* the capacity check and has only to commit.
Grants(r) ==
  (IF run[r].state = "RUNNING_STEP" THEN {grant[r]} ELSE {}) \cup
  {worker[w].limit : w \in {v \in Workers : Owns(v, r) /\ worker[v].pc = "admitted"}}

Holders(ch) == {r \in RunIds : run[r].channel = ch /\ Grants(r) # {}}

\* Admission is atomic in effect though the check and the commit are two
\* awaits apart and the limit may be edited between them: among any runs of a
\* channel that hold a slot, one was admitted under a limit that allows them
\* all.  (checkCapacity and the last transaction of preflightRun.)
CapacityRespected ==
  \A ch \in ChannelIds : \A S \in SUBSET Holders(ch) :
    S # {} => \E r \in S : \E n \in Grants(r) : Cardinality(S) <= n

StateEvent(e) == e.type \in {"RUN_CREATED", "RUN_STATE_CHANGED"}

\* The state the i-th commit left run r in, as the audit log tells it.
LoggedState(r, i) == (CHOOSE e \in log[r][i] : StateEvent(e)).to

\* The audit log of a run retells its life: one commit per version, each a
\* legal move from where the one before it left the run, the last one ending
\* in the state of the row.  No concurrent command can put in a move from a
\* state the run was not in.  (saveRunWithAudits, optimistic concurrency.)
AuditRetellsRun ==
  \A r \in RunIds :
    LET n == Len(log[r]) IN
    /\ run[r].version = n
    /\ n > 0 => LoggedState(r, n) = run[r].state /\ RunCreated \in log[r][1]
    /\ \A i \in 2 .. n :
         \E e \in log[r][i] :
           /\ e = StateChanged(LoggedState(r, i - 1), LoggedState(r, i))
           /\ CanTransitionRun(e.from, e.to)

\* A run is prepared for TOPIC_RESEARCH exactly when its one PRECHECK
\* checkpoint is stored.  (saveRunWithCheckpointAndAudits.)
CheckpointIffRunning ==
  \A r \in RunIds :
    checkpoints[r] = IF run[r].state = "RUNNING_STEP"
                     THEN <<PreflightCheckpoint>> ELSE <<>>

\* A run leaves PREFLIGHT only by the hand of the one worker that took it in:
\* no other command, retried or late, can end or restart its preflight.
OnlyOwnerEndsPreflight ==
  [][\A r \in RunIds :
       run[r].state = "PREFLIGHT" /\ run'[r] # run[r] =>
         \E w \in Workers :
           Owns(w, r) /\ worker'[w] = Idle
           /\ \A v \in Workers \ {w} : ~Owns(v, r)]_vars

\* The abstract view of the tables and of the workers that were admitted.
EntryOf(row) == [channel |-> row.channel, state |-> row.state,
                 moves |-> row.version]

Ledger == INSTANCE RunLedger WITH
  Limits <- {c.maxActiveRuns : c \in ChannelConfigs},
  ReadyCheckpoint <- PreflightCheckpoint,
  entry <- [r \in RunIds |-> EntryOf(run[r])],
  slot <- [r \in RunIds |-> Grants(r)]

\* Concurrent commands with stale copies, lost half-way at any await, behave
\* as a ledger that moves one entry at a time: the capacity check reserves a
\* slot atomically, the last commit of a preflight occupies it and stores the
\* checkpoint, every other commit is one legal move, and nothing else shows.
ImplementsLedger == Ledger!Spec

\* What the documentation says of queueRun: it makes exactly the transition
\* SCHEDULED -> QUEUED.
QueuesScheduledOnly ==
  [][\A r \in RunIds :
       run'[r].state = "QUEUED" /\ run[r].state # "QUEUED" =>
         run[r].state = "SCHEDULED"]_vars

\* As long as no command is lost half-way, no run stays in PREFLIGHT: its owner
\* always commits one of the ends, whatever fails on the way.
PreflightEnds ==
  [](abandons = 0) =>
    \A r \in RunIds : run[r].state = "PREFLIGHT" ~> run[r].state # "PREFLIGHT"
=============================================================================
