----------------------- MODULE RunOrchestratorProofs -----------------------
(***************************************************************************)
(* What holds of RunOrchestrator for any number of runs, channels, workers *)
(* and configurations.                                                     *)
(***************************************************************************)
EXTENDS RunOrchestrator, FiniteSetTheorems, TLAPS

(* Every commit hands the row to the next version and appends its events. *)
LEMMA SaveTypes ==
  ASSUME TypeOK, NEW r \in RunIds, NEW row \in RunRow, NEW v \in Nat,
         NEW events \in SUBSET AuditEvent,
         SaveRunWithAudits(r, row, v, events)
  PROVE  /\ run' \in [RunIds -> RunRow \cup {NoRow}]
         /\ log' \in [RunIds -> Seq(SUBSET AuditEvent)]
         /\ run'[r] \in RunRow
<1>1. run[r].version \in Nat
  BY DEF TypeOK, RunRow, NoRow
<1>2. [row EXCEPT !.version = run[r].version + 1] \in RunRow
  BY <1>1 DEF RunRow
<1>3. run' \in [RunIds -> RunRow \cup {NoRow}] /\ run'[r] \in RunRow
  BY <1>2 DEF TypeOK, SaveRunWithAudits
<1>4. Append(log[r], events) \in Seq(SUBSET AuditEvent)
  BY DEF TypeOK
<1>5. log' \in [RunIds -> Seq(SUBSET AuditEvent)]
  BY <1>4 DEF TypeOK, SaveRunWithAudits
<1> QED BY <1>3, <1>5

(* What a worker that is past its first await holds. *)
HoldsRow(w) ==
  /\ worker[w].run \in RunIds
  /\ worker[w].copy \in RunRow
  /\ worker[w].pc = "failing" => worker[w].failure \in PreflightFailures

WorkerTypes == \A w \in Workers : worker[w].pc # "idle" => HoldsRow(w)

TypeInv == TypeOK /\ WorkerTypes

(* The worker between two commands has the type of a worker. *)
LEMMA IdleType == Idle \in Locals /\ Idle.pc = "idle"
  BY DEF Idle, Locals

(* Events the service writes are audit events. *)
LEMMA EventTypes ==
  /\ RunCreated \in AuditEvent
  /\ StepStarted \in AuditEvent
  /\ StepCompleted \in AuditEvent
  /\ \A f, t \in RunStates : StateChanged(f, t) \in AuditEvent
  /\ \A s \in RunStates : RunFailed(s) \in AuditEvent
  BY DEF AuditEvent, RunCreated, StepStarted, StepCompleted, StateChanged,
         RunFailed, EventIn, RunStates

(* A command that ends leaves every worker well-typed. *)
LEMMA FinishTypes ==
  ASSUME TypeInv, NEW w \in Workers, Finish(w)
  PROVE  /\ worker' \in [Workers -> Locals]
         /\ WorkerTypes'
  BY IdleType DEF TypeInv, TypeOK, WorkerTypes, HoldsRow, Finish

(* Worker w commits a well-typed row in the given state over the version it *)
(* read, with well-typed events.                                            *)
Commits(w, state) ==
  /\ worker[w].run \in RunIds
  /\ worker[w].copy \in RunRow
  /\ worker[w].pc \notin {"idle", "creating"}
  /\ \E row \in RunRow : \E events \in SUBSET AuditEvent :
       /\ row.state = state
       /\ row.channel = worker[w].copy.channel
       /\ SaveRunWithAudits(worker[w].run, row, worker[w].copy.version, events)

(* The save of queueRun is a commit of the state QUEUED. *)
LEMMA QueueRunCommits ==
  ASSUME TypeInv, NEW w \in Workers, QueueRun(w)
  PROVE  Commits(w, "QUEUED")
<1>1. /\ worker[w].run \in RunIds
      /\ worker[w].copy \in RunRow
      /\ worker[w].pc = "queueing"
  BY DEF QueueRun, TypeInv, WorkerTypes, HoldsRow
<1> DEFINE row == [worker[w].copy EXCEPT !.state = "QUEUED", !.step = "none"]
<1>2. /\ row \in RunRow
      /\ row.state = "QUEUED"
      /\ row.channel = worker[w].copy.channel
      /\ worker[w].copy.state \in RunStates
  BY <1>1 DEF RunRow, RunStates, RunSteps
<1>3. {StateChanged(worker[w].copy.state, "QUEUED")} \in SUBSET AuditEvent
  BY <1>2, EventTypes DEF RunStates
<1> QED BY <1>1, <1>2, <1>3 DEF QueueRun, Commits

(* The first save of preflightRun is a commit of PREFLIGHT. *)
LEMMA EnterPreflightCommits ==
  ASSUME TypeInv, NEW w \in Workers, EnterPreflight(w)
  PROVE  Commits(w, "PREFLIGHT")
<1>1. /\ worker[w].run \in RunIds
      /\ worker[w].copy \in RunRow
      /\ worker[w].pc = "entering"
  BY DEF EnterPreflight, TypeInv, WorkerTypes, HoldsRow
<1> DEFINE row == [worker[w].copy EXCEPT !.state = "PREFLIGHT",
                                         !.step = "PRECHECK"]
<1>2. /\ row \in RunRow
      /\ row.state = "PREFLIGHT"
      /\ row.channel = worker[w].copy.channel
      /\ worker[w].copy.state \in RunStates
  BY <1>1 DEF RunRow, RunStates, RunSteps
<1>3. {StateChanged(worker[w].copy.state, "PREFLIGHT"), StepStarted}
        \in SUBSET AuditEvent
  BY <1>2, EventTypes DEF RunStates
<1> QED BY <1>1, <1>2, <1>3 DEF EnterPreflight, Commits

(* The save of a passed preflight is a commit of RUNNING_STEP. *)
LEMMA CompletePreflightCommits ==
  ASSUME TypeInv, NEW w \in Workers, CompletePreflight(w)
  PROVE  Commits(w, "RUNNING_STEP")
<1>1. /\ worker[w].run \in RunIds
      /\ worker[w].copy \in RunRow
      /\ worker[w].pc = "admitted"
  BY DEF CompletePreflight, TypeInv, WorkerTypes, HoldsRow
<1> DEFINE row == [worker[w].copy EXCEPT !.state = "RUNNING_STEP",
                                         !.step = "TOPIC_RESEARCH"]
<1>2. /\ row \in RunRow
      /\ row.state = "RUNNING_STEP"
      /\ row.channel = worker[w].copy.channel
  BY <1>1 DEF RunRow, RunStates, RunSteps
<1>3. {StepCompleted, StateChanged("PREFLIGHT", "RUNNING_STEP")}
        \in SUBSET AuditEvent
  BY EventTypes DEF RunStates
<1> QED BY <1>1, <1>2, <1>3 DEF CompletePreflight, Commits

(* The save of a failed preflight is a commit of the classified state. *)
LEMMA PersistPreflightFailureCommits ==
  ASSUME TypeInv, NEW w \in Workers, PersistPreflightFailure(w)
  PROVE  /\ worker[w].failure \in PreflightFailures
         /\ Commits(w, worker[w].failure)
<1>1. /\ worker[w].run \in RunIds
      /\ worker[w].copy \in RunRow
      /\ worker[w].pc = "failing"
      /\ worker[w].failure \in PreflightFailures
  BY DEF PersistPreflightFailure, TypeInv, WorkerTypes, HoldsRow
<1>2. worker[w].failure \in RunStates
  BY <1>1 DEF PreflightFailures, RunStates
<1> DEFINE row == [worker[w].copy EXCEPT !.state = worker[w].failure]
           events == {StateChanged(worker[w].copy.state, worker[w].failure)} \cup
                       IF worker[w].failure = "BLOCKED" THEN {}
                         ELSE {RunFailed(worker[w].failure)}
<1>3. /\ row \in RunRow
      /\ row.state = worker[w].failure
      /\ row.channel = worker[w].copy.channel
      /\ worker[w].copy.state \in RunStates
  BY <1>1, <1>2 DEF RunRow
<1>4. events \in SUBSET AuditEvent
  BY <1>2, <1>3, EventTypes
<1>5. SaveRunWithAudits(worker[w].run, row, worker[w].copy.version, events)
  BY DEF PersistPreflightFailure
<1> HIDE DEF row, events
<1> QED BY <1>1, <1>3, <1>4, <1>5 DEF Commits

(* A commit leaves the tables well-typed. *)
LEMMA CommitTypes ==
  ASSUME TypeInv, NEW w \in Workers, NEW state, Commits(w, state)
  PROVE  /\ run' \in [RunIds -> RunRow \cup {NoRow}]
         /\ log' \in [RunIds -> Seq(SUBSET AuditEvent)]
         /\ run'[worker[w].run] \in RunRow
<1>1. PICK row \in RunRow, events \in SUBSET AuditEvent :
        SaveRunWithAudits(worker[w].run, row, worker[w].copy.version, events)
  BY DEF Commits
<1>2. worker[w].copy.version \in Nat
  BY DEF Commits, RunRow
<1> QED BY <1>1, <1>2, SaveTypes DEF Commits, TypeInv

(* The empty database and idle workers are well-typed. *)
THEOREM TypeInvInitial == Init => TypeInv
  BY IdleType DEF Init, TypeInv, TypeOK, WorkerTypes

(* Every step of every command and of the environment keeps the types. *)
THEOREM TypeInvStep == TypeInv /\ [Next]_vars => TypeInv'
<1> SUFFICES ASSUME TypeInv, [Next]_vars PROVE TypeInv'
  OBVIOUS
<1> USE DEF TypeInv
<1>1. ASSUME NEW w \in Workers, NEW r \in RunIds, NEW ch \in ChannelIds,
             BeginCreateRun(w, r, ch)
      PROVE  TypeInv'
  <2>1. [channel |-> ch, state |-> "SCHEDULED", step |-> "none",
         version |-> 1] \in RunRow
    BY DEF RunRow, RunStates, RunSteps
  <2> QED BY <1>1, <2>1
        DEF BeginCreateRun, TypeOK, WorkerTypes, HoldsRow, Locals, Idle
<1>2. ASSUME NEW w \in Workers, NEW r \in RunIds, NEW pc \in {"queueing", "entering"},
             NEW to, BeginCommand(w, r, pc, to)
      PROVE  TypeInv'
  <2>1. run[r] \in RunRow
    BY <1>2 DEF BeginCommand, Exists, TypeOK
  <2> QED BY <1>2, <2>1
        DEF BeginCommand, TypeOK, WorkerTypes, HoldsRow, Locals, Idle
<1>3. ASSUME NEW w \in Workers, CreateRunWithAudit(w) PROVE TypeInv'
  <2>1. worker[w].run \in RunIds /\ worker[w].copy \in RunRow
    BY <1>3 DEF CreateRunWithAudit, WorkerTypes, HoldsRow
  <2>2. run' \in [RunIds -> RunRow \cup {NoRow}]
    BY <1>3, <2>1 DEF CreateRunWithAudit, TypeOK
  <2>3. log' \in [RunIds -> Seq(SUBSET AuditEvent)]
    <3>1. {RunCreated} \in SUBSET AuditEvent
      BY EventTypes
    <3>2. Append(log[worker[w].run], {RunCreated}) \in Seq(SUBSET AuditEvent)
      BY <2>1, <3>1 DEF TypeOK
    <3> QED BY <1>3, <3>2 DEF CreateRunWithAudit, TypeOK
  <2> QED BY <1>3, <2>2, <2>3, FinishTypes DEF CreateRunWithAudit, TypeOK
<1>4. ASSUME NEW w \in Workers, QueueRun(w) PROVE TypeInv'
  BY <1>4, QueueRunCommits, CommitTypes, FinishTypes DEF QueueRun, TypeOK
<1>5. ASSUME NEW w \in Workers, EnterPreflight(w) PROVE TypeInv'
  <2>1. /\ Commits(w, "PREFLIGHT")
        /\ run' \in [RunIds -> RunRow \cup {NoRow}]
        /\ log' \in [RunIds -> Seq(SUBSET AuditEvent)]
        /\ run'[worker[w].run] \in RunRow
    BY <1>5, EnterPreflightCommits, CommitTypes
  <2>2. worker' \in [Workers -> Locals] /\ WorkerTypes'
    <3>1. PICK row : row = run'[worker[w].run]
      OBVIOUS
    <3>2. row \in RunRow /\ worker[w].run \in RunIds
      BY <2>1, <3>1 DEF Commits
    <3>3. worker' = [worker EXCEPT ![w].pc = "loading", ![w].copy = row]
      BY <1>5, <3>1 DEF EnterPreflight
    <3>4. [worker[w] EXCEPT !.pc = "loading", !.copy = row] \in Locals
      BY <3>2 DEF TypeOK, Locals
    <3>5. worker'[w] = [worker[w] EXCEPT !.pc = "loading", !.copy = row]
      BY <3>3 DEF TypeOK
    <3>6. \A v \in Workers \ {w} : worker'[v] = worker[v]
      BY <3>3 DEF TypeOK
    <3>7. worker' \in [Workers -> Locals]
      BY <3>3, <3>4 DEF TypeOK
    <3>8. /\ worker'[w].pc = "loading"
          /\ worker'[w].run \in RunIds
          /\ worker'[w].copy \in RunRow
      BY <3>2, <3>5 DEF TypeOK, Locals
    <3>9. WorkerTypes'
      BY <3>6, <3>8 DEF WorkerTypes, HoldsRow
    <3> QED BY <3>7, <3>9
  <2> QED BY <1>5, <2>1, <2>2 DEF EnterPreflight, TypeOK
<1>6. ASSUME NEW w \in Workers, NEW failure \in PreflightFailures,
             worker[w].pc # "idle", Fail(w, failure)
      PROVE  TypeInv'
  <2>1. worker' \in [Workers -> Locals]
    <3>1. worker[w] \in Locals
      BY DEF TypeOK
    <3>2. [worker[w] EXCEPT !.pc = "failing", !.failure = failure] \in Locals
      BY <3>1 DEF Locals
    <3> QED BY <1>6, <3>2 DEF Fail, TypeOK
  <2>2. \A v \in Workers :
          /\ worker'[v].run = worker[v].run
          /\ worker'[v].copy = worker[v].copy
          /\ v # w => worker'[v] = worker[v]
    BY <1>6 DEF Fail, TypeOK, Locals
  <2>3. worker'[w].failure = failure
    BY <1>6 DEF Fail, TypeOK, Locals
  <2>4. WorkerTypes'
    BY <1>6, <2>2, <2>3 DEF WorkerTypes, HoldsRow
  <2> QED BY <1>6, <2>1, <2>4 DEF Fail, TypeOK
<1>7. ASSUME NEW w \in Workers, LoadChannelContext(w) PROVE TypeInv'
  <2>1. worker[w].copy.channel \in ChannelIds
    BY <1>7 DEF LoadChannelContext, WorkerTypes, HoldsRow, RunRow
  <2>2. config[worker[w].copy.channel].maxActiveRuns \in Nat
    BY <2>1, ChannelConfigsAssumption DEF TypeOK
  <2>3. worker' \in [Workers -> Locals]
    <3>1. [worker[w] EXCEPT !.pc = "counting",
             !.limit = config[worker[w].copy.channel].maxActiveRuns] \in Locals
      BY <2>2 DEF TypeOK, Locals
    <3> QED BY <1>7, <3>1 DEF LoadChannelContext, TypeOK
  <2>4. /\ worker[w].pc # "idle" /\ worker'[w].pc = "counting"
        /\ \A v \in Workers :
             /\ worker'[v].run = worker[v].run
             /\ worker'[v].copy = worker[v].copy
             /\ v # w => worker'[v] = worker[v]
    BY <1>7 DEF LoadChannelContext, TypeOK, Locals
  <2>5. WorkerTypes'
    BY <2>4 DEF WorkerTypes, HoldsRow
  <2> QED BY <1>7, <2>3, <2>5 DEF LoadChannelContext, TypeOK
<1>8. ASSUME NEW w \in Workers, CheckCapacity(w) PROVE TypeInv'
  <2>1. worker' \in [Workers -> Locals]
    <3>1. [worker[w] EXCEPT !.pc = "admitted"] \in Locals
      BY DEF TypeOK, Locals
    <3> QED BY <1>8, <3>1 DEF CheckCapacity, TypeOK
  <2>2. /\ worker[w].pc # "idle" /\ worker'[w].pc = "admitted"
        /\ \A v \in Workers :
             /\ worker'[v].run = worker[v].run
             /\ worker'[v].copy = worker[v].copy
             /\ v # w => worker'[v] = worker[v]
    BY <1>8 DEF CheckCapacity, TypeOK, Locals
  <2>3. WorkerTypes'
    BY <2>2 DEF WorkerTypes, HoldsRow
  <2> QED BY <1>8, <2>1, <2>3 DEF CheckCapacity, TypeOK
<1>9. ASSUME NEW w \in Workers, CompletePreflight(w) PROVE TypeInv'
  <2>1. /\ worker[w].run \in RunIds
        /\ worker[w].limit \in Nat
    BY <1>9 DEF CompletePreflight, WorkerTypes, HoldsRow, TypeOK, Locals
  <2>2. /\ run' \in [RunIds -> RunRow \cup {NoRow}]
        /\ log' \in [RunIds -> Seq(SUBSET AuditEvent)]
    BY <1>9, CompletePreflightCommits, CommitTypes
  <2>3. checkpoints' \in [RunIds -> Seq(Checkpoint)]
    <3>1. PreflightCheckpoint \in Checkpoint
      BY DEF PreflightCheckpoint, Checkpoint, RunSteps, RunStates
    <3>2. Append(checkpoints[worker[w].run], PreflightCheckpoint)
            \in Seq(Checkpoint)
      BY <2>1, <3>1 DEF TypeOK
    <3> QED BY <1>9, <3>2 DEF CompletePreflight, AppendCheckpoint, TypeOK
  <2>4. grant' \in [RunIds -> Nat]
    BY <1>9, <2>1 DEF CompletePreflight, TypeOK
  <2> QED BY <1>9, <2>2, <2>3, <2>4, FinishTypes DEF CompletePreflight, TypeOK
<1>10. ASSUME NEW w \in Workers, PersistPreflightFailure(w) PROVE TypeInv'
  <2>1. /\ run' \in [RunIds -> RunRow \cup {NoRow}]
        /\ log' \in [RunIds -> Seq(SUBSET AuditEvent)]
    BY <1>10, PersistPreflightFailureCommits, CommitTypes
  <2> QED BY <1>10, <2>1, FinishTypes DEF PersistPreflightFailure, TypeOK
<1>11. ASSUME NEW w \in Workers, VersionConflict(w) PROVE TypeInv'
  BY <1>11, FinishTypes DEF VersionConflict, TypeOK
<1>12. ASSUME NEW w \in Workers, Abandon(w) PROVE TypeInv'
  BY <1>12, FinishTypes DEF Abandon, TypeOK
<1>13. ASSUME NEW ch \in ChannelIds, EditConfig(ch) PROVE TypeInv'
  BY <1>13 DEF EditConfig, TypeOK, WorkerTypes, HoldsRow
<1>14. CASE UNCHANGED vars
  BY <1>14 DEF vars, TypeOK, WorkerTypes, HoldsRow
<1> QED
  BY <1>1, <1>2, <1>3, <1>4, <1>5, <1>6, <1>7, <1>8, <1>9, <1>10, <1>11,
     <1>12, <1>13, <1>14
  DEF Next, BeginAny, BeginQueueRun, BeginPreflightRun, Continue,
      ChannelDisabled, ContextInvalid, PreflightReadFails, CapacityExceeded,
      PreflightFailures

(* Rows, events, checkpoints and every command's locals have their types. *)
THEOREM TypeCorrect == Spec => []TypeOK
<1>1. Spec => []TypeInv
  BY TypeInvInitial, TypeInvStep, PTL DEF Spec
<1> QED BY <1>1, PTL DEF TypeInv

-----------------------------------------------------------------------------
(***************************************************************************)
(* Commands and owners.  A commit moves a row to a version no other        *)
(* command has read; whatever else happens leaves the rows alone.  So a    *)
(* copy of the current version is the current row, and a run in PREFLIGHT  *)
(* has at most one worker that can move it on.                             *)
(***************************************************************************)

OwningPc == {"loading", "counting", "admitted", "failing"}

OwnershipInv == CommandsSound /\ OwnerUnique

(* A version is a natural number, that of the absent row included. *)
LEMMA RowVersions == TypeOK => \A r \in RunIds : run[r].version \in Nat
  BY DEF TypeOK, RunRow, NoRow

(* The row a commit leaves behind. *)
LEMMA CommittedRow ==
  ASSUME TypeInv, NEW w \in Workers, NEW r \in RunIds, r = worker[w].run,
         NEW state, Commits(w, state)
  PROVE  /\ run[r].version = worker[w].copy.version
         /\ run'[r].version = run[r].version + 1
         /\ run'[r].state = state
         /\ run'[r].channel = worker[w].copy.channel
         /\ run'[r] # NoRow
         /\ \A q \in RunIds \ {r} : run'[q] = run[q]
<1>1. PICK row \in RunRow, events \in SUBSET AuditEvent :
        /\ row.state = state
        /\ row.channel = worker[w].copy.channel
        /\ SaveRunWithAudits(r, row, worker[w].copy.version, events)
  BY DEF Commits
<1>2. run[r].version = worker[w].copy.version
  BY <1>1 DEF SaveRunWithAudits, VersionMatches
<1>3. run[r].version \in Nat
  BY RowVersions DEF TypeInv
<1>4. run' = [run EXCEPT ![r] = [row EXCEPT !.version = run[r].version + 1]]
  BY <1>1 DEF SaveRunWithAudits
<1>5. run'[r] = [row EXCEPT !.version = run[r].version + 1]
  BY <1>4 DEF TypeInv, TypeOK
<1>6. \A q \in RunIds \ {r} : run'[q] = run[q]
  BY <1>4 DEF TypeInv, TypeOK
<1>7. /\ run'[r].version = run[r].version + 1
      /\ run'[r].state = state
      /\ run'[r].channel = worker[w].copy.channel
  BY <1>1, <1>5 DEF RunRow
<1> QED BY <1>2, <1>3, <1>6, <1>7 DEF NoRow

(* What one worker does to its own locals does not unsettle the others. *)
LEMMA LocalStepKeepsOthers ==
  ASSUME TypeInv, CommandsSound, NEW w \in Workers, run' = run,
         \A v \in Workers \ {w} : worker'[v] = worker[v],
         \A v \in Workers \ {w} :
           worker[v].pc = "creating" => worker'[w].run # worker[v].run
  PROVE  \A v \in Workers \ {w} :
           CommandSound(v)' /\ \A r \in RunIds : Owns(v, r)' <=> Owns(v, r)
<1> SUFFICES ASSUME NEW v \in Workers \ {w}
             PROVE  CommandSound(v)' /\ \A r \in RunIds : Owns(v, r)' <=> Owns(v, r)
  OBVIOUS
<1>1. CommandSound(v) /\ worker'[v] = worker[v]
  BY DEF CommandsSound
<1>2. ASSUME worker[v].pc = "creating", NEW u \in Workers \ {v}
      PROVE  worker'[u].run # worker[v].run
  BY <1>1, <1>2 DEF CommandSound
<1>3. CommandSound(v)'
  BY <1>1, <1>2 DEF CommandSound, Exists
<1> QED BY <1>1, <1>3 DEF Owns

(* A commit by w ends every claim of another worker on the same run. *)
LEMMA CommitKeepsOthers ==
  ASSUME TypeInv, CommandsSound, NEW w \in Workers, NEW r \in RunIds,
         r = worker[w].run, NEW state, Commits(w, state),
         \A v \in Workers \ {w} : worker'[v] = worker[v],
         worker'[w].run \in {r, "none"}
  PROVE  \A v \in Workers \ {w} :
           /\ CommandSound(v)'
           /\ ~Owns(v, r)'
           /\ \A q \in RunIds \ {r} : Owns(v, q)' <=> Owns(v, q)
<1>1. worker[w].pc \notin {"idle", "creating"}
  BY DEF Commits
<1>2. /\ run'[r].version = run[r].version + 1
      /\ run'[r] # NoRow
      /\ \A q \in RunIds \ {r} : run'[q] = run[q]
  BY CommittedRow
<1>3. run[r].version \in Nat
  BY RowVersions DEF TypeInv
<1> SUFFICES ASSUME NEW v \in Workers \ {w}
             PROVE  /\ CommandSound(v)'
                    /\ ~Owns(v, r)'
                    /\ \A q \in RunIds \ {r} : Owns(v, q)' <=> Owns(v, q)
  OBVIOUS
<1>4. CommandSound(v) /\ worker'[v] = worker[v]
  BY DEF CommandsSound
<1>5. worker[v].pc # "idle" => worker[v].run \in RunIds /\ worker[v].copy.version \in Nat
  BY DEF TypeInv, WorkerTypes, HoldsRow, RunRow
<1>6. worker[v].pc \notin {"idle", "creating"} /\ worker[v].run = r
        => worker[v].copy.version < run'[r].version
  BY <1>2, <1>3, <1>4, <1>5 DEF CommandSound
<1>7. ASSUME worker[v].pc = "creating"
      PROVE  /\ worker[v].run # r
             /\ \A u \in Workers \ {v} : worker'[u].run # worker[v].run
  <2>1. \A u \in Workers \ {v} : worker[u].run # worker[v].run
    BY <1>4, <1>7 DEF CommandSound
  <2>2. worker'[w].run # worker[v].run
    BY <2>1, <1>5, <1>7, RunIdsAssumption
  <2> QED BY <2>1, <2>2
<1>8. CommandSound(v)'
  <2>1. CASE worker[v].pc = "creating"
    BY <2>1, <1>2, <1>4, <1>5, <1>7 DEF CommandSound, Exists
  <2>2. CASE worker[v].pc \notin {"idle", "creating"}
    <3>1. /\ run[worker[v].run] # NoRow
          /\ worker[v].copy.version <= run[worker[v].run].version
          /\ worker[v].copy.version = run[worker[v].run].version
               => worker[v].copy = run[worker[v].run]
      BY <2>2, <1>4 DEF CommandSound, Exists
    <3>2. /\ run'[worker[v].run] # NoRow
          /\ worker[v].copy.version <= run'[worker[v].run].version
          /\ worker[v].copy.version = run'[worker[v].run].version
               => worker[v].copy = run'[worker[v].run]
      BY <2>2, <3>1, <1>2, <1>3, <1>5, <1>6
    <3> QED BY <2>2, <3>2, <1>4 DEF CommandSound, Exists
  <2>3. CASE worker[v].pc = "idle"
    BY <2>3, <1>4 DEF CommandSound
  <2> QED BY <2>1, <2>2, <2>3
<1>9. ~Owns(v, r)'
  <2>1. SUFFICES ASSUME Owns(v, r)' PROVE FALSE
    OBVIOUS
  <2>2. /\ worker[v].pc \notin {"idle", "creating"}
        /\ worker[v].run = r
        /\ worker[v].copy.version = run'[r].version
    BY <2>1, <1>4 DEF Owns
  <2> QED BY <2>2, <1>2, <1>3, <1>5, <1>6
<1>10. \A q \in RunIds \ {r} : Owns(v, q)' <=> Owns(v, q)
  BY <1>2, <1>4 DEF Owns
<1> QED BY <1>8, <1>9, <1>10

(* A worker that goes on with the same row, or stops, claims nothing new. *)
LEMMA LocalStepOwners ==
  ASSUME TypeInv, OwnershipInv, NEW w \in Workers, run' = run,
         \A v \in Workers \ {w} : worker'[v] = worker[v],
         worker'[w].run \in {worker[w].run, "none"},
         CommandSound(w)',
         \A r \in RunIds : Owns(w, r)' => Owns(w, r)
  PROVE  OwnershipInv'
<1>1. ASSUME NEW v \in Workers \ {w}, worker[v].pc = "creating"
      PROVE  worker'[w].run # worker[v].run
  <2>1. worker[w].run # worker[v].run
    BY <1>1 DEF OwnershipInv, CommandsSound, CommandSound
  <2>2. worker[v].run \in RunIds
    BY <1>1 DEF TypeInv, WorkerTypes, HoldsRow
  <2> QED BY <2>1, <2>2, RunIdsAssumption
<1>2. \A v \in Workers \ {w} :
        CommandSound(v)' /\ \A r \in RunIds : Owns(v, r)' <=> Owns(v, r)
  BY <1>1, LocalStepKeepsOthers DEF OwnershipInv
<1>3. CommandsSound'
  BY <1>2 DEF CommandsSound
<1>4. OwnerUnique'
  BY <1>2 DEF OwnerUnique, OwnershipInv
<1> QED BY <1>3, <1>4 DEF OwnershipInv

(* An idle worker relies on nothing and owns no run. *)
LEMMA IdleSound ==
  ASSUME NEW w \in Workers, worker'[w] = Idle
  PROVE  CommandSound(w)' /\ \A r \in RunIds : ~Owns(w, r)'
  BY DEF CommandSound, Owns, Idle

(* A command that ends without a commit disturbs nobody's ownership. *)
LEMMA FinishKeepsOwnership ==
  ASSUME TypeInv, OwnershipInv, NEW w \in Workers, run' = run, Finish(w)
  PROVE  OwnershipInv'
<1>1. /\ worker'[w] = Idle
      /\ \A v \in Workers \ {w} : worker'[v] = worker[v]
  BY DEF Finish, TypeInv, TypeOK
<1>2. worker'[w].run = "none"
  BY <1>1 DEF Idle
<1>3. CommandSound(w)' /\ \A r \in RunIds : ~Owns(w, r)'
  BY <1>1, IdleSound
<1> QED BY <1>1, <1>2, <1>3, LocalStepOwners

(* A commit that ends its command takes the run from whoever else held it. *)
LEMMA CommitAndFinishKeepsOwnership ==
  ASSUME TypeInv, OwnershipInv, NEW w \in Workers, NEW state,
         Commits(w, state), Finish(w)
  PROVE  OwnershipInv'
<1>1. /\ worker'[w] = Idle
      /\ \A v \in Workers \ {w} : worker'[v] = worker[v]
  BY DEF Finish, TypeInv, TypeOK
<1>2. worker'[w].run = "none"
  BY <1>1 DEF Idle
<1>3. CommandSound(w)' /\ \A r \in RunIds : ~Owns(w, r)'
  BY <1>1, IdleSound
<1>4. PICK r \in RunIds : r = worker[w].run
  BY DEF Commits
<1>5. \A v \in Workers \ {w} :
        /\ CommandSound(v)'
        /\ ~Owns(v, r)'
        /\ \A q \in RunIds \ {r} : Owns(v, q)' <=> Owns(v, q)
  BY <1>1, <1>2, <1>4, CommitKeepsOthers DEF OwnershipInv
<1>6. CommandsSound'
  BY <1>3, <1>5 DEF CommandsSound
<1>7. OwnerUnique'
  BY <1>3, <1>5 DEF OwnerUnique, OwnershipInv
<1> QED BY <1>6, <1>7 DEF OwnershipInv

(* Nobody owns anything at first. *)
THEOREM OwnershipInitial == Init => OwnershipInv
<1> SUFFICES ASSUME Init PROVE OwnershipInv
  OBVIOUS
<1>1. \A w \in Workers : worker[w] = Idle
  BY DEF Init
<1> QED BY <1>1 DEF OwnershipInv, CommandsSound, CommandSound, OwnerUnique, Owns, Idle

(* Every step keeps what commands rely on, and one owner per run. *)
THEOREM OwnershipStep == TypeInv /\ OwnershipInv /\ [Next]_vars => OwnershipInv'
<1> SUFFICES ASSUME TypeInv, OwnershipInv, [Next]_vars PROVE OwnershipInv'
  OBVIOUS
<1>1. ASSUME NEW w \in Workers, NEW r \in RunIds, NEW ch \in ChannelIds,
             BeginCreateRun(w, r, ch)
      PROVE  OwnershipInv'
  <2>1. /\ worker'[w].pc = "creating"
        /\ worker'[w].run = r
        /\ worker'[w].copy.state = "SCHEDULED"
        /\ worker'[w].copy.version = 1
        /\ \A v \in Workers \ {w} : worker'[v] = worker[v]
    BY <1>1 DEF BeginCreateRun, TypeInv, TypeOK, Idle
  <2>2. run' = run /\ ~Exists(r) /\ \A v \in Workers : worker[v].run # r
    BY <1>1 DEF BeginCreateRun, Fresh
  <2>3. \A v \in Workers \ {w} :
          CommandSound(v)' /\ \A q \in RunIds : Owns(v, q)' <=> Owns(v, q)
    BY <2>1, <2>2, LocalStepKeepsOthers DEF OwnershipInv
  <2>4. CommandSound(w)' /\ \A q \in RunIds : ~Owns(w, q)'
    BY <2>1, <2>2 DEF CommandSound, Owns, Exists
  <2> QED BY <2>3, <2>4 DEF OwnershipInv, CommandsSound, OwnerUnique
<1>2. ASSUME NEW w \in Workers, NEW r \in RunIds,
             NEW pc \in {"queueing", "entering"}, NEW to,
             BeginCommand(w, r, pc, to),
             <<pc, to>> \in {<<"queueing", "QUEUED">>, <<"entering", "PREFLIGHT">>}
      PROVE  OwnershipInv'
  <2>1. /\ worker'[w].pc = pc
        /\ worker'[w].run = r
        /\ worker'[w].copy = run[r]
        /\ \A v \in Workers \ {w} : worker'[v] = worker[v]
    BY <1>2 DEF BeginCommand, TypeInv, TypeOK, Idle
  <2>2. run' = run /\ Exists(r) /\ CanTransitionRun(run[r].state, to)
    BY <1>2 DEF BeginCommand
  <2>3. \A v \in Workers \ {w} : worker[v].pc = "creating" => worker[v].run # r
    BY <2>2 DEF OwnershipInv, CommandsSound, CommandSound
  <2>4. \A v \in Workers \ {w} :
          CommandSound(v)' /\ \A q \in RunIds : Owns(v, q)' <=> Owns(v, q)
    BY <2>1, <2>2, <2>3, LocalStepKeepsOthers DEF OwnershipInv
  <2>5. pc = "entering" => run[r].state = "QUEUED"
    BY <1>2, <2>2 DEF CanTransitionRun, RunTransitions
  <2>6. pc = "queueing" => CanTransitionRun(run[r].state, "QUEUED")
    BY <1>2, <2>2
  <2>7. run[r].version \in Nat
    BY RowVersions DEF TypeInv
  <2>8. CommandSound(w)' /\ \A q \in RunIds : ~Owns(w, q)'
    BY <2>1, <2>2, <2>5, <2>6, <2>7 DEF CommandSound, Owns, Exists
  <2> QED BY <2>4, <2>8 DEF OwnershipInv, CommandsSound, OwnerUnique
<1>3. ASSUME NEW w \in Workers, CreateRunWithAudit(w) PROVE OwnershipInv'
  <2>1. PICK r \in RunIds : r = worker[w].run
    BY <1>3 DEF CreateRunWithAudit, TypeInv, WorkerTypes, HoldsRow
  <2>2. \A v \in Workers \ {w} : worker[v].run # r
    BY <1>3, <2>1 DEF CreateRunWithAudit, OwnershipInv, CommandsSound, CommandSound
  <2>3. \A q \in RunIds \ {r} : run'[q] = run[q]
    BY <1>3, <2>1 DEF CreateRunWithAudit, TypeInv, TypeOK
  <2>4. /\ worker'[w] = Idle
        /\ \A v \in Workers \ {w} : worker'[v] = worker[v]
    BY <1>3 DEF CreateRunWithAudit, Finish, TypeInv, TypeOK
  <2>5. CommandSound(w)' /\ \A q \in RunIds : ~Owns(w, q)'
    BY <2>4, IdleSound
  <2>6. ASSUME NEW v \in Workers \ {w}
        PROVE  CommandSound(v)' /\ \A q \in RunIds : Owns(v, q)' <=> Owns(v, q)
    <3>1. CommandSound(v)
      BY DEF OwnershipInv, CommandsSound
    <3>2. worker[v].pc # "idle" => run'[worker[v].run] = run[worker[v].run]
      BY <2>2, <2>3 DEF TypeInv, WorkerTypes, HoldsRow
    <3>3. worker'[w].run = "none"
      BY <2>4 DEF Idle
    <3>4. worker[v].pc = "creating" =>
            /\ worker[v].run \in RunIds
            /\ \A u \in Workers \ {v} : worker'[u].run # worker[v].run
      BY <2>4, <3>1, <3>3, RunIdsAssumption
         DEF CommandSound, TypeInv, WorkerTypes, HoldsRow
    <3>5. CommandSound(v)'
      BY <2>4, <3>1, <3>2, <3>4 DEF CommandSound, Exists
    <3>6. \A q \in RunIds : Owns(v, q)' <=> Owns(v, q)
      BY <2>2, <2>3, <2>4 DEF Owns
    <3> QED BY <3>5, <3>6
  <2> QED BY <2>5, <2>6 DEF OwnershipInv, CommandsSound, OwnerUnique
<1>4. ASSUME NEW w \in Workers, QueueRun(w) PROVE OwnershipInv'
  BY <1>4, QueueRunCommits, CommitAndFinishKeepsOwnership DEF QueueRun
<1>5. ASSUME NEW w \in Workers, EnterPreflight(w) PROVE OwnershipInv'
  <2>1. PICK r \in RunIds : r = worker[w].run
    BY <1>5 DEF EnterPreflight, TypeInv, WorkerTypes, HoldsRow
  <2>2. Commits(w, "PREFLIGHT")
    BY <1>5, EnterPreflightCommits
  <2>3. run'[r].state = "PREFLIGHT" /\ run'[r] # NoRow /\ run'[r].version \in Nat
    <3>1. run[r].version \in Nat
      BY RowVersions DEF TypeInv
    <3> QED BY <2>1, <2>2, <3>1, CommittedRow
  <2>4. /\ worker'[w].pc = "loading"
        /\ worker'[w].run = r
        /\ worker'[w].copy = run'[r]
        /\ \A v \in Workers \ {w} : worker'[v] = worker[v]
    BY <1>5, <2>1 DEF EnterPreflight, TypeInv, TypeOK, Locals
  <2>5. \A v \in Workers \ {w} :
          /\ CommandSound(v)'
          /\ ~Owns(v, r)'
          /\ \A q \in RunIds \ {r} : Owns(v, q)' <=> Owns(v, q)
    BY <2>1, <2>2, <2>4, CommitKeepsOthers DEF OwnershipInv
  <2>6. CommandSound(w)' /\ \A q \in RunIds : Owns(w, q)' <=> q = r
    BY <2>3, <2>4 DEF CommandSound, Exists, Owns
  <2>7. CommandsSound'
    BY <2>5, <2>6 DEF CommandsSound
  <2>8. OwnerUnique'
    BY <2>5, <2>6 DEF OwnerUnique, OwnershipInv
  <2> QED BY <2>7, <2>8 DEF OwnershipInv
<1>6. ASSUME NEW w \in Workers,
             worker[w].pc \in OwningPc, worker'[w].pc \in OwningPc,
             worker'[w].run = worker[w].run, worker'[w].copy = worker[w].copy,
             \A v \in Workers \ {w} : worker'[v] = worker[v], run' = run
      PROVE  OwnershipInv'
  <2>1. CommandSound(w)
    BY DEF OwnershipInv, CommandsSound
  <2>2. CommandSound(w)' /\ \A r \in RunIds : Owns(w, r)' => Owns(w, r)
    BY <1>6, <2>1 DEF CommandSound, Owns, Exists, OwningPc
  <2> QED BY <1>6, <2>2, LocalStepOwners
<1>7. ASSUME NEW w \in Workers, NEW failure,
             worker[w].pc \in OwningPc, Fail(w, failure)
      PROVE  OwnershipInv'
  <2>1. /\ worker'[w].pc = "failing"
        /\ worker'[w].run = worker[w].run /\ worker'[w].copy = worker[w].copy
        /\ \A v \in Workers \ {w} : worker'[v] = worker[v]
    BY <1>7 DEF Fail, TypeInv, TypeOK, Locals
  <2>2. run' = run
    BY <1>7 DEF Fail
  <2> QED BY <1>6, <1>7, <2>1, <2>2 DEF OwningPc
<1>8. ASSUME NEW w \in Workers, LoadChannelContext(w) \/ CheckCapacity(w)
      PROVE  OwnershipInv'
  <2>1. /\ worker[w].pc \in OwningPc /\ worker'[w].pc \in OwningPc
        /\ worker'[w].run = worker[w].run /\ worker'[w].copy = worker[w].copy
        /\ \A v \in Workers \ {w} : worker'[v] = worker[v]
        /\ run' = run
    BY <1>8 DEF LoadChannelContext, CheckCapacity, TypeInv, TypeOK, Locals, OwningPc
  <2> QED BY <1>6, <2>1
<1>9. ASSUME NEW w \in Workers, CompletePreflight(w) PROVE OwnershipInv'
  BY <1>9, CompletePreflightCommits, CommitAndFinishKeepsOwnership
     DEF CompletePreflight
<1>10. ASSUME NEW w \in Workers, PersistPreflightFailure(w) PROVE OwnershipInv'
  BY <1>10, PersistPreflightFailureCommits, CommitAndFinishKeepsOwnership
     DEF PersistPreflightFailure
<1>11. ASSUME NEW w \in Workers, VersionConflict(w) \/ Abandon(w)
       PROVE  OwnershipInv'
  BY <1>11, FinishKeepsOwnership DEF VersionConflict, Abandon
<1>12. CASE (\E ch \in ChannelIds : EditConfig(ch)) \/ UNCHANGED vars
  <2>1. worker' = worker /\ run' = run
    BY <1>12 DEF EditConfig, vars
  <2> QED BY <2>1 DEF OwnershipInv, CommandsSound, CommandSound, OwnerUnique,
                      Owns, Exists
<1> QED
  BY <1>1, <1>2, <1>3, <1>4, <1>5, <1>7, <1>8, <1>9, <1>10, <1>11, <1>12
  DEF Next, BeginAny, BeginQueueRun, BeginPreflightRun, Continue,
      ChannelDisabled, ContextInvalid, PreflightReadFails, CapacityExceeded,
      OwningPc

(* A row in PREFLIGHT never has two workers that could move it on. *)
THEOREM OwnersAreUnique == Spec => []OwnerUnique
<1>1. Spec => [](TypeInv /\ OwnershipInv)
  BY TypeInvInitial, TypeInvStep, OwnershipInitial, OwnershipStep, PTL DEF Spec
<1> QED BY <1>1, PTL DEF OwnershipInv

-----------------------------------------------------------------------------
(* Only the owner ends a preflight *)

IInv == TypeInv /\ OwnershipInv

(* The inductive invariant of the service: types and ownership. *)
THEOREM IInvInvariant == Spec => []IInv
<1> QED BY TypeInvInitial, TypeInvStep, OwnershipInitial, OwnershipStep, PTL
        DEF Spec, IInv

(* A commit over version v of a run finds the row its worker read. *)
LEMMA CommitReplacesCopy ==
  ASSUME IInv, NEW w \in Workers, NEW r \in RunIds, r = worker[w].run,
         NEW state, Commits(w, state)
  PROVE  worker[w].copy = run[r]
<1>1. worker[w].copy.version = run[r].version
  BY CommittedRow DEF IInv
<1> QED BY <1>1 DEF IInv, OwnershipInv, CommandsSound, CommandSound, Commits

Stores(w) == \/ CreateRunWithAudit(w)
             \/ QueueRun(w)
             \/ EnterPreflight(w)
             \/ CompletePreflight(w)
             \/ PersistPreflightFailure(w)

(* Only five actions write to the database. *)
LEMMA QuietStep ==
  ASSUME [Next]_vars, \A w \in Workers : ~Stores(w)
  PROVE  run' = run /\ log' = log /\ checkpoints' = checkpoints
<1>1. ASSUME NEW w \in Workers, BeginAny(w)
      PROVE  run' = run /\ log' = log /\ checkpoints' = checkpoints
  BY <1>1 DEF BeginAny, BeginCreateRun, BeginQueueRun, BeginPreflightRun,
              BeginCommand
<1>2. ASSUME NEW w \in Workers, Continue(w)
      PROVE  run' = run /\ log' = log /\ checkpoints' = checkpoints
  <2>1. ~Stores(w)
    OBVIOUS
  <2> QED BY <1>2, <2>1
      DEF Continue, Stores, Fail, LoadChannelContext, ChannelDisabled,
          ContextInvalid, PreflightReadFails, CheckCapacity, CapacityExceeded,
          VersionConflict
<1>3. ASSUME NEW w \in Workers, Abandon(w)
      PROVE  run' = run /\ log' = log /\ checkpoints' = checkpoints
  BY <1>3 DEF Abandon
<1>4. ASSUME NEW ch \in ChannelIds, EditConfig(ch)
      PROVE  run' = run /\ log' = log /\ checkpoints' = checkpoints
  BY <1>4 DEF EditConfig
<1>5. CASE UNCHANGED vars
  BY <1>5 DEF vars
<1> QED BY <1>1, <1>2, <1>3, <1>4, <1>5 DEF Next

(* One step of OnlyOwnerEndsPreflight. *)
LEMMA OnlyOwnerStep ==
  ASSUME IInv, [Next]_vars, NEW r \in RunIds,
         run[r].state = "PREFLIGHT", run'[r] # run[r]
  PROVE  \E w \in Workers :
           /\ Owns(w, r)
           /\ worker'[w] = Idle
           /\ \A v \in Workers \ {w} : ~Owns(v, r)
<1>1. ASSUME NEW w \in Workers, CreateRunWithAudit(w) PROVE FALSE
  <2>1. worker[w].run \in RunIds /\ ~Exists(worker[w].run)
    BY <1>1 DEF CreateRunWithAudit, IInv, TypeInv, WorkerTypes, HoldsRow,
                OwnershipInv, CommandsSound, CommandSound
  <2>2. worker[w].run # r
    BY <2>1 DEF Exists, NoRow
  <2> QED BY <1>1, <2>1, <2>2 DEF CreateRunWithAudit, IInv, TypeInv, TypeOK
<1>2. ASSUME NEW w \in Workers, NEW state, Commits(w, state)
      PROVE  worker[w].run = r /\ worker[w].copy = run[r]
  <2>1. worker[w].run \in RunIds
    BY <1>2 DEF Commits
  <2>2. worker[w].run = r
    BY <1>2, <2>1, CommittedRow DEF IInv
  <2> QED BY <1>2, <2>2, CommitReplacesCopy
<1>3. ASSUME NEW w \in Workers, QueueRun(w) PROVE FALSE
  <2>1. worker[w].copy = run[r]
    BY <1>2, <1>3, QueueRunCommits DEF IInv
  <2>2. CanTransitionRun(worker[w].copy.state, "QUEUED")
    BY <1>3 DEF QueueRun, IInv, OwnershipInv, CommandsSound, CommandSound
  <2> QED BY <2>1, <2>2 DEF CanTransitionRun, RunTransitions
<1>4. ASSUME NEW w \in Workers, EnterPreflight(w) PROVE FALSE
  <2>1. worker[w].copy = run[r]
    BY <1>2, <1>4, EnterPreflightCommits DEF IInv
  <2>2. worker[w].copy.state = "QUEUED"
    BY <1>4 DEF EnterPreflight, IInv, OwnershipInv, CommandsSound, CommandSound
  <2> QED BY <2>1, <2>2
<1>5. ASSUME NEW w \in Workers, CompletePreflight(w) \/ PersistPreflightFailure(w)
      PROVE  Owns(w, r) /\ worker'[w] = Idle
  <2>1. worker[w].run = r /\ worker[w].copy = run[r]
    BY <1>2, <1>5, CompletePreflightCommits, PersistPreflightFailureCommits DEF IInv
  <2>2. worker[w].pc \in {"admitted", "failing"} /\ worker'[w] = Idle
    BY <1>5 DEF CompletePreflight, PersistPreflightFailure, Finish, IInv,
                TypeInv, TypeOK
  <2> QED BY <2>1, <2>2 DEF Owns
<1>6. ASSUME NEW w \in Workers, Owns(w, r)
      PROVE  \A v \in Workers \ {w} : ~Owns(v, r)
  BY <1>6 DEF IInv, OwnershipInv, OwnerUnique
<1> QED BY <1>1, <1>3, <1>4, <1>5, <1>6, QuietStep DEF Stores

(* No command, however late or repeated, ends or restarts a preflight it    *)
(* does not own.                                                            *)
THEOREM PreflightHasOneEnd == Spec => OnlyOwnerEndsPreflight
<1>1. IInv /\ [Next]_vars =>
        [\A r \in RunIds :
           run[r].state = "PREFLIGHT" /\ run'[r] # run[r] =>
             \E w \in Workers :
               Owns(w, r) /\ worker'[w] = Idle
               /\ \A v \in Workers \ {w} : ~Owns(v, r)]_vars
  BY OnlyOwnerStep
<1> QED BY <1>1, IInvInvariant, PTL DEF Spec, OnlyOwnerEndsPreflight

-----------------------------------------------------------------------------
(***************************************************************************)
(* Capacity.  A run that passes the check was counted against every other  *)
(* active run of its channel, and every run that holds a slot is active:   *)
(* so its limit allows all the holders together, itself included.  Every   *)
(* other step keeps the grants of a run or gives them all up.              *)
(***************************************************************************)

Claims(w, r, n) ==
  Owns(w, r) /\ worker[w].pc = "admitted" /\ worker[w].limit = n

(* The two ways to hold a grant. *)
LEMMA GrantsAre ==
  ASSUME NEW r \in RunIds, NEW n
  PROVE  n \in Grants(r) <=> \/ run[r].state = "RUNNING_STEP" /\ n = grant[r]
                             \/ \E w \in Workers : Claims(w, r, n)
<1>1. n \in (IF run[r].state = "RUNNING_STEP" THEN {grant[r]} ELSE {})
        <=> run[r].state = "RUNNING_STEP" /\ n = grant[r]
  OBVIOUS
<1>2. n \in {worker[w].limit : w \in {v \in Workers :
                                 Owns(v, r) /\ worker[v].pc = "admitted"}}
        <=> \E w \in Workers : Claims(w, r, n)
  BY DEF Claims
<1> QED BY <1>1, <1>2 DEF Grants

(* The two ways to hold a grant after a step. *)
LEMMA GrantsAreNext ==
  ASSUME NEW r \in RunIds, NEW n
  PROVE  n \in Grants(r)' <=> \/ run'[r].state = "RUNNING_STEP" /\ n = grant'[r]
                              \/ \E w \in Workers : Claims(w, r, n)'
<1>1. n \in (IF run'[r].state = "RUNNING_STEP" THEN {grant'[r]} ELSE {})
        <=> run'[r].state = "RUNNING_STEP" /\ n = grant'[r]
  OBVIOUS
<1>2. n \in {worker'[w].limit : w \in {v \in Workers :
                                 Owns(v, r)' /\ worker'[v].pc = "admitted"}}
        <=> \E w \in Workers : Claims(w, r, n)'
  BY DEF Claims
<1> QED BY <1>1, <1>2 DEF Grants

(* A run whose row, grant and claims stay keeps its grants. *)
LEMMA SameGrants ==
  ASSUME NEW r \in RunIds, run'[r] = run[r], grant'[r] = grant[r],
         \A w \in Workers : \A n : Claims(w, r, n)' <=> Claims(w, r, n)
  PROVE  Grants(r)' = Grants(r)
<1>1. ASSUME NEW n PROVE n \in Grants(r)' <=> n \in Grants(r)
  <2>1. n \in Grants(r) <=> \/ run[r].state = "RUNNING_STEP" /\ n = grant[r]
                            \/ \E w \in Workers : Claims(w, r, n)
    BY GrantsAre
  <2>2. n \in Grants(r)' <=> \/ run'[r].state = "RUNNING_STEP" /\ n = grant'[r]
                             \/ \E w \in Workers : Claims(w, r, n)'
    BY GrantsAreNext
  <2> QED BY <2>1, <2>2
<1> QED BY <1>1

(* A run that neither runs nor is claimed has no grant. *)
LEMMA NoGrants ==
  ASSUME NEW r \in RunIds, run'[r].state # "RUNNING_STEP",
         \A w \in Workers : \A n : ~Claims(w, r, n)'
  PROVE  Grants(r)' = {}
<1>1. ASSUME NEW n PROVE n \notin Grants(r)'
  <2>1. n \in Grants(r)' <=> \/ run'[r].state = "RUNNING_STEP" /\ n = grant'[r]
                             \/ \E w \in Workers : Claims(w, r, n)'
    BY GrantsAreNext
  <2> QED BY <2>1
<1> QED BY <1>1

(* A run that holds a slot is one findActiveByChannel would count. *)
LEMMA HoldersAreActive ==
  ASSUME IInv, NEW ch \in ChannelIds
  PROVE  Holders(ch) \subseteq ActiveRuns(ch)
<1> SUFFICES ASSUME NEW r \in RunIds, run[r].channel = ch, Grants(r) # {}
             PROVE  r \in ActiveRuns(ch)
  BY DEF Holders
<1>1. PICK n : n \in Grants(r)
  OBVIOUS
<1>2. CASE run[r].state = "RUNNING_STEP"
  BY <1>2 DEF ActiveRuns, ConsumesChannelCapacity, ActiveRunStates
<1>3. CASE \E w \in Workers : Claims(w, r, n)
  <2>1. run[r].state = "PREFLIGHT"
    BY <1>3 DEF Claims, Owns, IInv, OwnershipInv, CommandsSound, CommandSound
  <2> QED BY <2>1 DEF ActiveRuns, ConsumesChannelCapacity, ActiveRunStates
<1> QED BY <1>1, <1>2, <1>3, GrantsAre

(* A step that takes no new slot keeps the capacity respected. *)
LEMMA NoNewSlot ==
  ASSUME CapacityRespected,
         \A r \in RunIds : Grants(r)' # {} =>
           Grants(r)' = Grants(r) /\ run'[r].channel = run[r].channel
  PROVE  CapacityRespected'
<1> SUFFICES ASSUME NEW ch \in ChannelIds, NEW S \in SUBSET (Holders(ch)'), S # {}
             PROVE  \E r \in S : \E n \in Grants(r)' : Cardinality(S) <= n
  BY DEF CapacityRespected
<1>1. \A r \in S : r \in RunIds /\ Grants(r)' = Grants(r) /\ r \in Holders(ch)
  BY DEF Holders
<1>2. PICK r \in S : \E n \in Grants(r) : Cardinality(S) <= n
  BY <1>1 DEF CapacityRespected
<1> QED BY <1>1, <1>2

(* Only the owner claims; a worker outside "admitted" claims nothing. *)
LEMMA ClaimsAreOwners ==
  ASSUME NEW w \in Workers, NEW r \in RunIds, NEW n, Claims(w, r, n)
  PROVE  worker[w].run = r /\ worker[w].pc = "admitted"
  BY DEF Claims, Owns

(* A commit on r ends every other worker's claim on r and moves no other. *)
LEMMA CommitMovesClaims ==
  ASSUME IInv, NEW w \in Workers, NEW r \in RunIds, r = worker[w].run,
         NEW state, Commits(w, state),
         worker'[w].pc # "admitted", worker'[w].run \in {r, "none"},
         \A v \in Workers \ {w} : worker'[v] = worker[v]
  PROVE  \A v \in Workers : \A n :
           /\ ~Claims(v, r, n)'
           /\ \A q \in RunIds \ {r} : Claims(v, q, n)' <=> Claims(v, q, n)
<1>1. \A v \in Workers \ {w} :
        /\ ~Owns(v, r)'
        /\ \A q \in RunIds \ {r} : Owns(v, q)' <=> Owns(v, q)
  BY CommitKeepsOthers DEF IInv, OwnershipInv
<1>2. \A q \in RunIds \ {r} : ~Owns(w, q)
  BY DEF Owns
<1> QED BY <1>1, <1>2 DEF Claims

(* A commit to a state other than RUNNING_STEP takes no slot. *)
LEMMA CommitTakesNoSlot ==
  ASSUME IInv, CapacityRespected, NEW w \in Workers, NEW state,
         Commits(w, state), state # "RUNNING_STEP", grant' = grant,
         worker'[w].pc # "admitted",
         worker'[w].run \in {worker[w].run, "none"},
         \A v \in Workers \ {w} : worker'[v] = worker[v]
  PROVE  CapacityRespected'
<1>1. PICK r \in RunIds : r = worker[w].run
  BY DEF Commits
<1>2. \A v \in Workers : \A n :
        /\ ~Claims(v, r, n)'
        /\ \A q \in RunIds \ {r} : Claims(v, q, n)' <=> Claims(v, q, n)
  BY <1>1, CommitMovesClaims
<1>3. run'[r].state = state /\ \A q \in RunIds \ {r} : run'[q] = run[q]
  BY <1>1, CommittedRow DEF IInv
<1>4. Grants(r)' = {}
  BY <1>2, <1>3, NoGrants
<1>5. \A q \in RunIds \ {r} : Grants(q)' = Grants(q)
  BY <1>2, <1>3, SameGrants
<1> QED BY <1>3, <1>4, <1>5, NoNewSlot

(* A worker whose run is free, whose copy is stale or which is not admitted, *)
(* before and after, changes no grant.                                       *)
LEMMA LocalStepTakesNoSlot ==
  ASSUME IInv, CapacityRespected, NEW w \in Workers,
         run' = run, grant' = grant,
         \A v \in Workers \ {w} : worker'[v] = worker[v],
         worker[w].pc # "admitted", worker'[w].pc # "admitted"
  PROVE  CapacityRespected'
<1>1. ASSUME NEW v \in Workers, NEW r \in RunIds, NEW n
      PROVE  Claims(v, r, n)' <=> Claims(v, r, n)
  BY DEF Claims, Owns
<1>2. \A r \in RunIds : Grants(r)' = Grants(r)
  BY <1>1, SameGrants
<1> QED BY <1>2, NoNewSlot

(* A worker that stops gives up what it claimed. *)
LEMMA FinishTakesNoSlot ==
  ASSUME IInv, CapacityRespected, NEW w \in Workers,
         run' = run, grant' = grant, Finish(w)
  PROVE  CapacityRespected'
<1>1. worker'[w] = Idle /\ \A v \in Workers \ {w} : worker'[v] = worker[v]
  BY DEF Finish, IInv, TypeInv, TypeOK
<1>2. \A v \in Workers \ {w} : \A r \in RunIds : \A n :
        Claims(v, r, n)' <=> Claims(v, r, n)
  BY <1>1 DEF Claims, Owns
<1>3. \A r \in RunIds : \A n : ~Claims(w, r, n)'
  BY <1>1 DEF Claims, Owns, Idle
<1>4. ASSUME NEW r \in RunIds, Grants(r)' # {} PROVE Grants(r)' = Grants(r)
  <2>1. CASE \A n : ~Claims(w, r, n)
    BY <2>1, <1>2, <1>3, SameGrants
  <2>2. CASE \E n : Claims(w, r, n)
    <3>1. run[r].state = "PREFLIGHT"
      BY <2>2 DEF Claims, Owns, IInv, OwnershipInv, CommandsSound, CommandSound
    <3>2. \A v \in Workers \ {w} : \A n : ~Claims(v, r, n)
      BY <2>2 DEF Claims, IInv, OwnershipInv, OwnerUnique
    <3>3. Grants(r)' = {}
      BY <3>1, <3>2, <1>2, <1>3, NoGrants
    <3> QED BY <3>3, <1>4
  <2> QED BY <2>1, <2>2
<1> QED BY <1>4, NoNewSlot

(* The last transaction turns the owner's claim into the run's grant. *)
LEMMA CompleteKeepsCapacity ==
  ASSUME IInv, CapacityRespected, NEW w \in Workers, CompletePreflight(w)
  PROVE  CapacityRespected'
<1>1. Commits(w, "RUNNING_STEP")
  BY CompletePreflightCommits DEF IInv
<1>2. PICK r \in RunIds : r = worker[w].run
  BY <1>1 DEF Commits
<1>3. /\ worker'[w] = Idle
      /\ \A v \in Workers \ {w} : worker'[v] = worker[v]
      /\ grant'[r] = worker[w].limit
      /\ \A q \in RunIds \ {r} : grant'[q] = grant[q]
      /\ worker[w].pc = "admitted"
  BY <1>2 DEF CompletePreflight, Finish, IInv, TypeInv, TypeOK
<1>4. \A v \in Workers : \A n :
        /\ ~Claims(v, r, n)'
        /\ \A q \in RunIds \ {r} : Claims(v, q, n)' <=> Claims(v, q, n)
  BY <1>1, <1>2, <1>3, CommitMovesClaims DEF Idle
<1>5. /\ run'[r].state = "RUNNING_STEP"
      /\ run'[r].channel = worker[w].copy.channel
      /\ run[r].version = worker[w].copy.version
      /\ \A q \in RunIds \ {r} : run'[q] = run[q]
  BY <1>1, <1>2, CommittedRow DEF IInv
<1>6. worker[w].copy = run[r]
  BY <1>1, <1>2, CommitReplacesCopy
<1>7. run[r].state = "PREFLIGHT"
  BY <1>3, <1>6 DEF IInv, OwnershipInv, CommandsSound, CommandSound
<1>8. \A q \in RunIds \ {r} : Grants(q)' = Grants(q)
  BY <1>3, <1>4, <1>5, SameGrants
<1>9. Owns(w, r)
  BY <1>2, <1>3, <1>5 DEF Owns
<1>10. \A v \in Workers : \A n : Claims(v, r, n) <=> v = w /\ n = worker[w].limit
  BY <1>3, <1>9 DEF Claims, IInv, OwnershipInv, OwnerUnique
<1>11. \A n : n \in Grants(r) <=> n = worker[w].limit
  BY <1>7, <1>10, GrantsAre
<1>12. \A n : n \in Grants(r)' <=> n = worker[w].limit
  BY <1>3, <1>4, <1>5, GrantsAreNext
<1>13. Grants(r)' = Grants(r)
  BY <1>11, <1>12
<1> QED BY <1>5, <1>6, <1>8, <1>13, NoNewSlot

(* The check that admits a run. *)
LEMMA AdmissionKeepsCapacity ==
  ASSUME IInv, CapacityRespected, NEW w \in Workers, CheckCapacity(w)
  PROVE  CapacityRespected'
<1>1. PICK r \in RunIds : r = worker[w].run
  BY DEF CheckCapacity, IInv, TypeInv, WorkerTypes, HoldsRow
<1>2. /\ worker'[w].pc = "admitted"
      /\ worker'[w].run = r
      /\ worker'[w].copy = worker[w].copy
      /\ worker'[w].limit = worker[w].limit
      /\ worker[w].limit \in Nat
      /\ \A v \in Workers \ {w} : worker'[v] = worker[v]
      /\ run' = run
      /\ grant' = grant
      /\ worker[w].pc = "counting"
      /\ HasCapacity(w)
  BY <1>1 DEF CheckCapacity, IInv, TypeInv, TypeOK, Locals
<1>3. \A v \in Workers \ {w} : \A q \in RunIds : \A n :
        Claims(v, q, n)' <=> Claims(v, q, n)
  BY <1>2 DEF Claims, Owns
<1>4. \A q \in RunIds : \A n : ~Claims(w, q, n)
  BY <1>2 DEF Claims
<1>5. \A q \in RunIds \ {r} : \A n : ~Claims(w, q, n)'
  BY <1>2 DEF Claims, Owns
<1>6. \A q \in RunIds \ {r} : Grants(q)' = Grants(q)
  BY <1>2, <1>3, <1>4, <1>5, SameGrants
<1>7. CASE ~Owns(w, r)
  <2>1. \A n : ~Claims(w, r, n)'
    BY <1>1, <1>2, <1>7 DEF Claims, Owns
  <2>2. Grants(r)' = Grants(r)
    BY <2>1, <1>2, <1>3, <1>4, SameGrants
  <2> QED BY <2>2, <1>2, <1>6, NoNewSlot
<1>8. CASE Owns(w, r)
  <2>1. worker[w].copy = run[r]
    BY <1>2, <1>8 DEF Owns, IInv, OwnershipInv, CommandsSound, CommandSound
  <2>2. worker[w].limit \in Grants(r)'
    <3>1. PICK n : n = worker[w].limit
      OBVIOUS
    <3>2. Claims(w, r, n)'
      BY <1>2, <1>8, <3>1 DEF Claims, Owns
    <3> QED BY <3>1, <3>2, GrantsAreNext
  <2> SUFFICES ASSUME NEW ch \in ChannelIds, NEW S \in SUBSET (Holders(ch)'),
                      S # {}
               PROVE  \E q \in S : \E n \in Grants(q)' : Cardinality(S) <= n
    BY DEF CapacityRespected
  <2>3. /\ S \subseteq RunIds
        /\ \A q \in S : run[q].channel = ch
        /\ \A q \in S \ {r} : Grants(q)' = Grants(q) /\ q \in Holders(ch)
    BY <1>2, <1>6 DEF Holders
  <2>4. CASE r \notin S
    <3>1. S \in SUBSET Holders(ch)
      BY <2>3, <2>4
    <3>2. PICK q \in S : \E n \in Grants(q) : Cardinality(S) <= n
      BY <3>1 DEF CapacityRespected
    <3> QED BY <3>2, <2>3, <2>4
  <2>5. CASE r \in S
    <3>1. S \ {r} \subseteq CompetingRuns(w)
      BY <1>1, <2>1, <2>3, <2>5, HoldersAreActive DEF CompetingRuns
    <3>2. IsFiniteSet(CompetingRuns(w)) /\ IsFiniteSet(S)
      BY <2>3, RunIdsAssumption, FS_Subset DEF CompetingRuns, ActiveRuns
    <3>3. Cardinality(S \ {r}) <= Cardinality(CompetingRuns(w))
      BY <3>1, <3>2, FS_Subset
    <3>4. Cardinality(S \ {r}) = Cardinality(S) - 1
      BY <2>5, <3>2, FS_RemoveElement
    <3>5. Cardinality(S) \in Nat /\ Cardinality(CompetingRuns(w)) \in Nat
      BY <3>2, FS_CardinalityType
    <3>6. Cardinality(S) <= worker[w].limit
      BY <1>2, <3>3, <3>4, <3>5 DEF HasCapacity
    <3> QED BY <2>2, <2>5, <3>6
  <2> QED BY <2>4, <2>5
<1> QED BY <1>7, <1>8

(* No run holds a slot at first. *)
THEOREM CapacityInitial == Init => CapacityRespected
<1> SUFFICES ASSUME Init, NEW ch \in ChannelIds PROVE Holders(ch) = {}
  BY DEF CapacityRespected
<1> SUFFICES ASSUME NEW r \in RunIds, NEW n PROVE n \notin Grants(r)
  BY DEF Holders
<1>1. run[r].state # "RUNNING_STEP"
  BY DEF Init, NoRow
<1>2. \A w \in Workers : ~Claims(w, r, n)
  BY DEF Init, Idle, Claims
<1> QED BY <1>1, <1>2, GrantsAre

(* Every step respects capacity: a slot is gained only in CheckCapacity. *)
THEOREM CapacityStep ==
  IInv /\ CapacityRespected /\ [Next]_vars => CapacityRespected'
<1> SUFFICES ASSUME IInv, CapacityRespected, [Next]_vars
             PROVE  CapacityRespected'
  OBVIOUS
<1>1. ASSUME NEW w \in Workers, BeginAny(w) PROVE CapacityRespected'
  <2>1. run' = run /\ grant' = grant /\ worker[w].pc = "idle"
    BY <1>1 DEF BeginAny, BeginCreateRun, BeginQueueRun, BeginPreflightRun,
                BeginCommand
  <2>2. \A v \in Workers \ {w} : worker'[v] = worker[v]
    BY <1>1 DEF BeginAny, BeginCreateRun, BeginQueueRun, BeginPreflightRun,
                BeginCommand, IInv, TypeInv, TypeOK
  <2>3. worker'[w].pc # "admitted"
    <3>1. ASSUME NEW r \in RunIds, NEW ch \in ChannelIds, BeginCreateRun(w, r, ch)
          PROVE  worker'[w].pc = "creating"
      BY <3>1 DEF BeginCreateRun, IInv, TypeInv, TypeOK, Idle
    <3>2. ASSUME NEW r \in RunIds, NEW pc, NEW to, BeginCommand(w, r, pc, to)
          PROVE  worker'[w].pc = pc
      BY <3>2 DEF BeginCommand, IInv, TypeInv, TypeOK, Idle
    <3> QED BY <1>1, <3>1, <3>2 DEF BeginAny, BeginQueueRun, BeginPreflightRun
  <2> QED BY <2>1, <2>2, <2>3, LocalStepTakesNoSlot
<1>2. ASSUME NEW w \in Workers, CreateRunWithAudit(w) PROVE CapacityRespected'
  <2>1. PICK r \in RunIds : r = worker[w].run
    BY <1>2 DEF CreateRunWithAudit, IInv, TypeInv, WorkerTypes, HoldsRow
  <2>2. /\ worker[w].copy.state = "SCHEDULED"
        /\ \A v \in Workers \ {w} : worker[v].run # r
    BY <1>2, <2>1 DEF CreateRunWithAudit, IInv, OwnershipInv, CommandsSound,
                      CommandSound
  <2>3. /\ run'[r].state = "SCHEDULED"
        /\ \A q \in RunIds \ {r} : run'[q] = run[q]
        /\ grant' = grant
        /\ worker'[w] = Idle /\ worker[w].pc = "creating"
        /\ \A v \in Workers \ {w} : worker'[v] = worker[v]
    BY <1>2, <2>1, <2>2 DEF CreateRunWithAudit, Finish, IInv, TypeInv, TypeOK
  <2>4. \A v \in Workers : \A n :
          /\ ~Claims(v, r, n)'
          /\ \A q \in RunIds \ {r} : Claims(v, q, n)' <=> Claims(v, q, n)
    BY <2>2, <2>3 DEF Claims, Owns, Idle
  <2>5. Grants(r)' = {}
    BY <2>3, <2>4, NoGrants
  <2>6. \A q \in RunIds \ {r} : Grants(q)' = Grants(q)
    BY <2>3, <2>4, SameGrants
  <2> QED BY <2>3, <2>5, <2>6, NoNewSlot
<1>3. ASSUME NEW w \in Workers, QueueRun(w) PROVE CapacityRespected'
  <2>1. Commits(w, "QUEUED") /\ grant' = grant
    BY <1>3, QueueRunCommits DEF IInv, QueueRun
  <2>2. /\ worker'[w] = Idle
        /\ \A v \in Workers \ {w} : worker'[v] = worker[v]
    BY <1>3 DEF QueueRun, Finish, IInv, TypeInv, TypeOK
  <2> QED BY <2>1, <2>2, CommitTakesNoSlot DEF Idle
<1>4. ASSUME NEW w \in Workers, EnterPreflight(w) PROVE CapacityRespected'
  <2>1. Commits(w, "PREFLIGHT") /\ grant' = grant
    BY <1>4, EnterPreflightCommits DEF IInv, EnterPreflight
  <2>2. /\ worker'[w].pc = "loading"
        /\ worker'[w].run = worker[w].run
        /\ \A v \in Workers \ {w} : worker'[v] = worker[v]
    BY <1>4 DEF EnterPreflight, IInv, TypeInv, TypeOK, Locals
  <2> QED BY <2>1, <2>2, CommitTakesNoSlot
<1>5. ASSUME NEW w \in Workers,
             \/ LoadChannelContext(w)
             \/ ChannelDisabled(w)
             \/ ContextInvalid(w)
             \/ PreflightReadFails(w)
             \/ CapacityExceeded(w)
      PROVE  CapacityRespected'
  <2>1. /\ run' = run /\ grant' = grant
        /\ worker[w].pc # "admitted" /\ worker'[w].pc # "admitted"
        /\ \A v \in Workers \ {w} : worker'[v] = worker[v]
    BY <1>5 DEF LoadChannelContext, ChannelDisabled, ContextInvalid,
                PreflightReadFails, CapacityExceeded, Fail, IInv, TypeInv,
                TypeOK, Locals
  <2> QED BY <2>1, LocalStepTakesNoSlot
<1>6. ASSUME NEW w \in Workers, CheckCapacity(w) PROVE CapacityRespected'
  BY <1>6, AdmissionKeepsCapacity
<1>7. ASSUME NEW w \in Workers, CompletePreflight(w) PROVE CapacityRespected'
  BY <1>7, CompleteKeepsCapacity
<1>8. ASSUME NEW w \in Workers, PersistPreflightFailure(w)
      PROVE  CapacityRespected'
  <2>1. /\ Commits(w, worker[w].failure)
        /\ worker[w].failure \in PreflightFailures
        /\ grant' = grant
    BY <1>8, PersistPreflightFailureCommits DEF IInv, PersistPreflightFailure
  <2>2. PICK state : state = worker[w].failure
    OBVIOUS
  <2>3. Commits(w, state) /\ state # "RUNNING_STEP"
    BY <2>1, <2>2 DEF PreflightFailures
  <2>4. /\ worker'[w] = Idle
        /\ \A v \in Workers \ {w} : worker'[v] = worker[v]
    BY <1>8 DEF PersistPreflightFailure, Finish, IInv, TypeInv, TypeOK
  <2> QED BY <2>1, <2>3, <2>4, CommitTakesNoSlot DEF Idle
<1>9. ASSUME NEW w \in Workers, VersionConflict(w) \/ Abandon(w)
      PROVE  CapacityRespected'
  BY <1>9, FinishTakesNoSlot DEF VersionConflict, Abandon
<1>10. CASE (\E ch \in ChannelIds : EditConfig(ch)) \/ UNCHANGED vars
  <2>1. worker' = worker /\ run' = run /\ grant' = grant
    BY <1>10 DEF EditConfig, vars
  <2>2. \A v \in Workers : \A r \in RunIds : \A n :
          Claims(v, r, n)' <=> Claims(v, r, n)
    BY <2>1 DEF Claims, Owns
  <2>3. \A r \in RunIds : Grants(r)' = Grants(r)
    BY <2>1, <2>2, SameGrants
  <2> QED BY <2>1, <2>3, NoNewSlot
<1> QED BY <1>1, <1>2, <1>3, <1>4, <1>5, <1>6, <1>7, <1>8, <1>9, <1>10
    DEF Next, Continue

(* Any runs of a channel that hold a slot were let in under a limit that     *)
(* allows them all, whatever the interleaving and however the config file is *)
(* edited while commands are in flight.                                      *)
THEOREM CapacityIsRespected == Spec => []CapacityRespected
<1> QED BY CapacityInitial, CapacityStep, IInvInvariant, PTL DEF Spec

-----------------------------------------------------------------------------
(***************************************************************************)
(* The stored history.  Each commit is a legal move from the stored state, *)
(* because the copy it was computed from is the stored row.                *)
(***************************************************************************)

(* The states the four kinds of commit leave. *)
LEMMA CommitMoves ==
  ASSUME IInv, NEW w \in Workers, NEW r \in RunIds, r = worker[w].run,
         NEW state, Commits(w, state)
  PROVE  /\ QueueRun(w) => CanTransitionRun(run[r].state, "QUEUED")
         /\ EnterPreflight(w) => run[r].state = "QUEUED"
         /\ CompletePreflight(w) => run[r].state = "PREFLIGHT"
         /\ PersistPreflightFailure(w) => run[r].state = "PREFLIGHT"
<1>1. worker[w].copy = run[r]
  BY CommitReplacesCopy
<1> QED BY <1>1 DEF IInv, OwnershipInv, CommandsSound, CommandSound, QueueRun,
                    EnterPreflight, CompletePreflight, PersistPreflightFailure

(* No run and no checkpoint at first. *)
THEOREM CheckpointInitial == Init => CheckpointIffRunning
  BY DEF Init, CheckpointIffRunning, NoRow

(* A commit that stores no checkpoint neither reaches nor leaves RUNNING_STEP. *)
LEMMA CommitWithoutCheckpoint ==
  ASSUME IInv, CheckpointIffRunning, NEW w \in Workers, NEW state,
         Commits(w, state), state # "RUNNING_STEP",
         run[worker[w].run].state # "RUNNING_STEP", checkpoints' = checkpoints
  PROVE  CheckpointIffRunning'
<1>1. PICK r \in RunIds : r = worker[w].run
  BY DEF Commits
<1>2. run'[r].state = state /\ \A q \in RunIds \ {r} : run'[q] = run[q]
  BY <1>1, CommittedRow DEF IInv
<1> QED BY <1>1, <1>2 DEF CheckpointIffRunning

(* Only CompletePreflight stores a checkpoint, and only it makes a run run. *)
THEOREM CheckpointStep ==
  IInv /\ CheckpointIffRunning /\ [Next]_vars => CheckpointIffRunning'
<1> SUFFICES ASSUME IInv, CheckpointIffRunning, [Next]_vars
             PROVE  CheckpointIffRunning'
  OBVIOUS
<1>1. ASSUME NEW w \in Workers, CreateRunWithAudit(w) PROVE CheckpointIffRunning'
  <2>1. PICK r \in RunIds : r = worker[w].run
    BY <1>1 DEF CreateRunWithAudit, IInv, TypeInv, WorkerTypes, HoldsRow
  <2>2. run[r] = NoRow /\ worker[w].copy.state = "SCHEDULED"
    BY <1>1, <2>1 DEF CreateRunWithAudit, IInv, OwnershipInv, CommandsSound,
                      CommandSound, Exists
  <2>3. /\ run'[r].state = "SCHEDULED"
        /\ \A q \in RunIds \ {r} : run'[q] = run[q]
        /\ checkpoints' = checkpoints
    BY <1>1, <2>1, <2>2 DEF CreateRunWithAudit, IInv, TypeInv, TypeOK
  <2> QED BY <2>2, <2>3 DEF CheckpointIffRunning, NoRow
<1>2. ASSUME NEW w \in Workers, QueueRun(w) PROVE CheckpointIffRunning'
  <2>1. Commits(w, "QUEUED") /\ checkpoints' = checkpoints
    BY <1>2, QueueRunCommits DEF IInv, QueueRun
  <2>2. CanTransitionRun(run[worker[w].run].state, "QUEUED")
    BY <1>2, <2>1, CommitMoves DEF Commits
  <2>3. run[worker[w].run].state # "RUNNING_STEP"
    BY <2>2 DEF CanTransitionRun, RunTransitions
  <2> QED BY <2>1, <2>3, CommitWithoutCheckpoint
<1>3. ASSUME NEW w \in Workers, EnterPreflight(w) PROVE CheckpointIffRunning'
  <2>1. Commits(w, "PREFLIGHT") /\ checkpoints' = checkpoints
    BY <1>3, EnterPreflightCommits DEF IInv, EnterPreflight
  <2>2. run[worker[w].run].state # "RUNNING_STEP"
    BY <1>3, <2>1, CommitMoves DEF Commits
  <2> QED BY <2>1, <2>2, CommitWithoutCheckpoint
<1>4. ASSUME NEW w \in Workers, PersistPreflightFailure(w)
      PROVE  CheckpointIffRunning'
  <2>1. PICK state : state = worker[w].failure
    OBVIOUS
  <2>2. Commits(w, state) /\ state # "RUNNING_STEP" /\ checkpoints' = checkpoints
    BY <1>4, <2>1, PersistPreflightFailureCommits
       DEF IInv, PersistPreflightFailure, PreflightFailures
  <2>3. run[worker[w].run].state # "RUNNING_STEP"
    BY <1>4, <2>2, CommitMoves DEF Commits
  <2> QED BY <2>2, <2>3, CommitWithoutCheckpoint
<1>5. ASSUME NEW w \in Workers, CompletePreflight(w) PROVE CheckpointIffRunning'
  <2>1. Commits(w, "RUNNING_STEP")
    BY <1>5, CompletePreflightCommits DEF IInv
  <2>2. PICK r \in RunIds : r = worker[w].run
    BY <2>1 DEF Commits
  <2>3. run[r].state = "PREFLIGHT"
    BY <1>5, <2>1, <2>2, CommitMoves
  <2>4. run'[r].state = "RUNNING_STEP" /\ \A q \in RunIds \ {r} : run'[q] = run[q]
    BY <2>1, <2>2, CommittedRow DEF IInv
  <2>5. checkpoints' = [checkpoints EXCEPT ![r] = Append(@, PreflightCheckpoint)]
    BY <1>5, <2>2 DEF CompletePreflight, AppendCheckpoint
  <2>6. checkpoints[r] = <<>>
    BY <2>3 DEF CheckpointIffRunning
  <2>7. checkpoints'[r] = <<PreflightCheckpoint>>
    BY <2>5, <2>6 DEF IInv, TypeInv, TypeOK
  <2>8. \A q \in RunIds \ {r} : checkpoints'[q] = checkpoints[q]
    BY <2>5 DEF IInv, TypeInv, TypeOK
  <2> QED BY <2>4, <2>7, <2>8 DEF CheckpointIffRunning
<1>6. CASE run' = run /\ checkpoints' = checkpoints
  BY <1>6 DEF CheckpointIffRunning
<1> QED BY <1>1, <1>2, <1>3, <1>4, <1>5, <1>6, QuietStep DEF Stores

(* A run that is prepared for its first step has its one checkpoint, and no *)
(* other run has any.                                                       *)
THEOREM CheckpointsMatchRuns == Spec => []CheckpointIffRunning
<1> QED BY CheckpointInitial, CheckpointStep, IInvInvariant, PTL DEF Spec

(* Appending one commit with one state event extends the tale by that event. *)
LEMMA AppendExtendsTale ==
  ASSUME IInv, AuditRetellsRun, NEW r \in RunIds, NEW events \in SUBSET AuditEvent,
         NEW move \in events, StateEvent(move),
         \A e \in events : StateEvent(e) => e = move,
         log' = [log EXCEPT ![r] = Append(@, events)],
         run'[r].version = run[r].version + 1, run'[r].state = move.to,
         \A q \in RunIds \ {r} : run'[q] = run[q],
         IF run[r].version = 0
           THEN move = RunCreated
           ELSE /\ move = StateChanged(run[r].state, move.to)
                /\ CanTransitionRun(run[r].state, move.to)
  PROVE  AuditRetellsRun'
<1> PICK n : n = Len(log[r])
  OBVIOUS
<1>1. /\ log[r] \in Seq(SUBSET AuditEvent)
      /\ \A q \in RunIds : log[q] \in Seq(SUBSET AuditEvent)
  BY DEF IInv, TypeInv, TypeOK
<1>2. n \in Nat /\ run[r].version = n
  BY <1>1 DEF AuditRetellsRun
<1>3. log'[r] = Append(log[r], events) /\ \A q \in RunIds \ {r} : log'[q] = log[q]
  BY DEF IInv, TypeInv, TypeOK
<1>4. /\ Len(log'[r]) = n + 1
      /\ log'[r][n + 1] = events
      /\ \A i \in 1 .. n : log'[r][i] = log[r][i]
  BY <1>1, <1>2, <1>3
<1>5. LoggedState(r, n + 1)' = move.to
  <2>1. \A e : e \in events /\ StateEvent(e) <=> e = move
    OBVIOUS
  <2>2. (CHOOSE e \in events : StateEvent(e)) = move
    BY <2>1
  <2> QED BY <2>2, <1>4 DEF LoggedState, StateEvent
<1>6. \A i \in 1 .. n : LoggedState(r, i)' = LoggedState(r, i)
  BY <1>4 DEF LoggedState, StateEvent
<1>7. run'[r].version = n + 1 /\ run'[r].state = LoggedState(r, n + 1)'
  BY <1>2, <1>5
<1>8. RunCreated \in log'[r][1]
  <2>1. CASE n = 0
    BY <2>1, <1>2, <1>4
  <2>2. CASE n > 0
    <3>1. RunCreated \in log[r][1]
      BY <2>2 DEF AuditRetellsRun
    <3> QED BY <3>1, <2>2, <1>2, <1>4
  <2> QED BY <2>1, <2>2, <1>2
<1>9. ASSUME NEW i \in 2 .. n + 1
      PROVE  \E e \in log'[r][i] :
               /\ e = StateChanged(LoggedState(r, i - 1)', LoggedState(r, i)')
               /\ CanTransitionRun(e.from, e.to)
  <2>1. CASE i = n + 1
    <3>1. n > 0
      BY <1>2, <2>1
    <3>2. LoggedState(r, n)' = run[r].state
      BY <3>1, <1>2, <1>6 DEF AuditRetellsRun
    <3>3. /\ move = StateChanged(run[r].state, move.to)
          /\ CanTransitionRun(run[r].state, move.to)
      BY <3>1, <1>2
    <3>4. move = StateChanged(LoggedState(r, i - 1)', LoggedState(r, i)')
      BY <2>1, <3>2, <3>3, <1>2, <1>5
    <3>5. move.from = run[r].state
      BY <3>3 DEF StateChanged
    <3>6. CanTransitionRun(move.from, move.to)
      BY <3>3, <3>5
    <3> QED BY <2>1, <3>4, <3>6, <1>4
  <2>2. CASE i \in 2 .. n
    <3>1. PICK e \in log[r][i] :
            /\ e = StateChanged(LoggedState(r, i - 1), LoggedState(r, i))
            /\ CanTransitionRun(e.from, e.to)
      BY <2>2 DEF AuditRetellsRun
    <3>2. LoggedState(r, i - 1)' = LoggedState(r, i - 1)
      BY <2>2, <1>2, <1>6
    <3>3. LoggedState(r, i)' = LoggedState(r, i) /\ log'[r][i] = log[r][i]
      BY <2>2, <1>2, <1>4, <1>6
    <3> QED BY <3>1, <3>2, <3>3
  <2> QED BY <2>1, <2>2, <1>2
<1>10. ASSUME NEW q \in RunIds \ {r}
       PROVE  \A i : LoggedState(q, i)' = LoggedState(q, i)
  BY <1>3 DEF LoggedState, StateEvent
<1> QED BY <1>2, <1>3, <1>4, <1>7, <1>8, <1>9, <1>10 DEF AuditRetellsRun

(* Which of the events that commits append carry a state. *)
LEMMA StateEvents ==
  /\ StateEvent(RunCreated) /\ RunCreated.to = "SCHEDULED"
  /\ \A f, t \in RunStates : /\ StateEvent(StateChanged(f, t))
                             /\ StateChanged(f, t).to = t
  /\ ~StateEvent(StepStarted)
  /\ ~StateEvent(StepCompleted)
  /\ \A s \in RunStates : ~StateEvent(RunFailed(s))
  BY DEF StateEvent, RunCreated, StateChanged, StepStarted, StepCompleted,
         RunFailed, EventIn

(* A commit of a legal move, told by the events it appends. *)
LEMMA CommitExtendsTale ==
  ASSUME IInv, AuditRetellsRun, NEW w \in Workers, NEW r \in RunIds,
         r = worker[w].run, NEW state \in RunStates, Commits(w, state),
         NEW events \in SUBSET AuditEvent,
         log' = [log EXCEPT ![r] = Append(@, events)],
         CanTransitionRun(run[r].state, state),
         StateChanged(run[r].state, state) \in events,
         \A e \in events : StateEvent(e) => e = StateChanged(run[r].state, state)
  PROVE  AuditRetellsRun'
<1>1. /\ run'[r].version = run[r].version + 1
      /\ run'[r].state = state
      /\ \A q \in RunIds \ {r} : run'[q] = run[q]
  BY CommittedRow DEF IInv
<1>2. run[r] \in RunRow
  <2>1. worker[w].copy \in RunRow /\ worker[w].copy = run[r]
    BY CommitReplacesCopy DEF Commits
  <2> QED BY <2>1
<1>3. run[r].state \in RunStates /\ run[r].version # 0
  BY <1>2 DEF RunRow
<1>4. PICK move \in events : move = StateChanged(run[r].state, state)
  OBVIOUS
<1>5. StateEvent(move) /\ move.to = state
  BY <1>3, <1>4, StateEvents
<1> QED BY <1>1, <1>3, <1>4, <1>5, AppendExtendsTale

(* No run and no event at first. *)
THEOREM AuditInitial == Init => AuditRetellsRun
<1> SUFFICES ASSUME Init, NEW r \in RunIds
             PROVE  log[r] = <<>> /\ run[r].version = 0
  BY DEF AuditRetellsRun
<1> QED BY DEF Init, NoRow

(* Every step keeps the log telling the life of its run. *)
THEOREM AuditStep == IInv /\ AuditRetellsRun /\ [Next]_vars => AuditRetellsRun'
<1> SUFFICES ASSUME IInv, AuditRetellsRun, [Next]_vars PROVE AuditRetellsRun'
  OBVIOUS
<1>1. ASSUME NEW w \in Workers, CreateRunWithAudit(w) PROVE AuditRetellsRun'
  <2>1. PICK r \in RunIds : r = worker[w].run
    BY <1>1 DEF CreateRunWithAudit, IInv, TypeInv, WorkerTypes, HoldsRow
  <2>2. /\ run[r] = NoRow
        /\ worker[w].copy.state = "SCHEDULED" /\ worker[w].copy.version = 1
    BY <1>1, <2>1 DEF CreateRunWithAudit, IInv, OwnershipInv, CommandsSound,
                      CommandSound, Exists
  <2>3. /\ run'[r] = worker[w].copy
        /\ \A q \in RunIds \ {r} : run'[q] = run[q]
        /\ log' = [log EXCEPT ![r] = Append(@, {RunCreated})]
    BY <1>1, <2>1 DEF CreateRunWithAudit, IInv, TypeInv, TypeOK
  <2>4. {RunCreated} \in SUBSET AuditEvent /\ run[r].version = 0
    BY <2>2, EventTypes DEF NoRow
  <2>5. PICK events \in SUBSET AuditEvent : events = {RunCreated}
    BY <2>4
  <2>6. PICK move \in events : move = RunCreated
    BY <2>5
  <2>7. /\ StateEvent(move)
        /\ \A e \in events : StateEvent(e) => e = move
        /\ move.to = "SCHEDULED"
    BY <2>5, <2>6, StateEvents
  <2>8. /\ run'[r].version = run[r].version + 1
        /\ run'[r].state = move.to
    BY <2>2, <2>3, <2>4, <2>7
  <2> QED BY <2>3, <2>4, <2>5, <2>6, <2>7, <2>8, AppendExtendsTale
<1>2. ASSUME NEW w \in Workers,
             \/ QueueRun(w)
             \/ EnterPreflight(w)
             \/ CompletePreflight(w)
             \/ PersistPreflightFailure(w)
      PROVE  AuditRetellsRun'
  <2> PICK r : r = worker[w].run
    OBVIOUS
  <2>1. CASE QueueRun(w)
    <3>1. Commits(w, "QUEUED") /\ r \in RunIds
      BY <2>1, QueueRunCommits DEF IInv, Commits
    <3>2. worker[w].copy = run[r] /\ run[r].state \in RunStates
      BY <3>1, CommitReplacesCopy DEF Commits, RunRow
    <3>3. CanTransitionRun(run[r].state, "QUEUED")
      BY <2>1, <3>1, CommitMoves
    <3>4. PICK events : events = {StateChanged(run[r].state, "QUEUED")}
      OBVIOUS
    <3>5. events \in SUBSET AuditEvent
      BY <3>2, <3>4, EventTypes DEF RunStates
    <3>6. log' = [log EXCEPT ![r] = Append(@, events)]
      BY <2>1, <3>2, <3>4 DEF QueueRun, SaveRunWithAudits
    <3>7. "QUEUED" \in RunStates
      BY DEF RunStates
    <3>8. /\ StateChanged(run[r].state, "QUEUED") \in events
          /\ \A e \in events :
               StateEvent(e) => e = StateChanged(run[r].state, "QUEUED")
      BY <3>4
    <3> QED BY <3>1, <3>3, <3>5, <3>6, <3>7, <3>8, CommitExtendsTale
  <2>2. CASE EnterPreflight(w)
    <3>1. Commits(w, "PREFLIGHT") /\ r \in RunIds
      BY <2>2, EnterPreflightCommits DEF IInv, Commits
    <3>2. worker[w].copy = run[r] /\ run[r].state \in RunStates
      BY <3>1, CommitReplacesCopy DEF Commits, RunRow
    <3>3. CanTransitionRun(run[r].state, "PREFLIGHT")
      BY <2>2, <3>1, CommitMoves DEF CanTransitionRun, RunTransitions
    <3>4. PICK events :
            events = {StateChanged(run[r].state, "PREFLIGHT"), StepStarted}
      OBVIOUS
    <3>5. events \in SUBSET AuditEvent
      BY <3>2, <3>4, EventTypes DEF RunStates
    <3>6. log' = [log EXCEPT ![r] = Append(@, events)]
      BY <2>2, <3>2, <3>4 DEF EnterPreflight, SaveRunWithAudits
    <3>7. "PREFLIGHT" \in RunStates
      BY DEF RunStates
    <3>8. /\ StateChanged(run[r].state, "PREFLIGHT") \in events
          /\ \A e \in events :
               StateEvent(e) => e = StateChanged(run[r].state, "PREFLIGHT")
      BY <3>4, StateEvents
    <3> QED BY <3>1, <3>3, <3>5, <3>6, <3>7, <3>8, CommitExtendsTale
  <2>3. CASE CompletePreflight(w)
    <3>1. Commits(w, "RUNNING_STEP") /\ r \in RunIds
      BY <2>3, CompletePreflightCommits DEF IInv, Commits
    <3>2. run[r].state = "PREFLIGHT"
      BY <2>3, <3>1, CommitMoves
    <3>3. CanTransitionRun(run[r].state, "RUNNING_STEP")
      BY <3>2 DEF CanTransitionRun, RunTransitions
    <3>4. PICK events :
            events = {StepCompleted, StateChanged("PREFLIGHT", "RUNNING_STEP")}
      OBVIOUS
    <3>5. events \in SUBSET AuditEvent
      BY <3>4, EventTypes DEF RunStates
    <3>6. log' = [log EXCEPT ![r] = Append(@, events)]
      BY <2>3, <3>4 DEF CompletePreflight, SaveRunWithAudits
    <3>7. "RUNNING_STEP" \in RunStates
      BY DEF RunStates
    <3>8. /\ StateChanged(run[r].state, "RUNNING_STEP") \in events
          /\ \A e \in events :
               StateEvent(e) => e = StateChanged(run[r].state, "RUNNING_STEP")
      BY <3>2, <3>4, StateEvents
    <3> QED BY <3>1, <3>3, <3>5, <3>6, <3>7, <3>8, CommitExtendsTale
  <2>4. CASE PersistPreflightFailure(w)
    <3>1. PICK state : state = worker[w].failure
      OBVIOUS
    <3>2. Commits(w, state) /\ state \in PreflightFailures /\ r \in RunIds
      BY <2>4, <3>1, PersistPreflightFailureCommits DEF IInv, Commits
    <3>3. worker[w].copy = run[r] /\ run[r].state = "PREFLIGHT"
      BY <2>4, <3>2, CommitMoves, CommitReplacesCopy
    <3>4. CanTransitionRun(run[r].state, state)
      BY <3>2, <3>3 DEF CanTransitionRun, RunTransitions, PreflightFailures
    <3>5. state \in RunStates /\ run[r].state \in RunStates
      BY <3>2, <3>3 DEF PreflightFailures, RunStates
    <3>6. PICK events :
            events = {StateChanged(run[r].state, state)} \cup
                       IF state = "BLOCKED" THEN {} ELSE {RunFailed(state)}
      OBVIOUS
    <3>7. events \in SUBSET AuditEvent
      BY <3>5, <3>6, EventTypes
    <3>8. log' = [log EXCEPT ![r] = Append(@, events)]
      BY <2>4, <3>1, <3>3, <3>6 DEF PersistPreflightFailure, SaveRunWithAudits
    <3>9. /\ StateChanged(run[r].state, state) \in events
          /\ \A e \in events :
               StateEvent(e) => e = StateChanged(run[r].state, state)
      BY <3>5, <3>6, StateEvents
    <3> QED BY <3>2, <3>4, <3>5, <3>7, <3>8, <3>9, CommitExtendsTale
  <2> QED BY <1>2, <2>1, <2>2, <2>3, <2>4
<1>3. CASE \E w \in Workers : Stores(w)
  BY <1>1, <1>2, <1>3 DEF Stores
<1>4. CASE \A w \in Workers : ~Stores(w)
  <2>1. run' = run /\ log' = log
    BY <1>4, QuietStep
  <2>2. \A r, i : LoggedState(r, i)' = LoggedState(r, i)
    BY <2>1 DEF LoggedState, StateEvent
  <2> QED BY <2>1, <2>2 DEF AuditRetellsRun
<1> QED BY <1>3, <1>4

(* The audit log of every run retells its life, move by legal move. *)
THEOREM AuditIsFaithful == Spec => []AuditRetellsRun
<1> QED BY AuditInitial, AuditStep, IInvInvariant, PTL DEF Spec

-----------------------------------------------------------------------------
(***************************************************************************)
(* No update is lost.                                                      *)
(***************************************************************************)

(* A row moves from where it is, one version and one legal transition at a  *)
(* time, and stays in its channel; no command moves a run that is ready.    *)
RowsMoveOn ==
  [][\A r \in RunIds :
       Exists(r) /\ run'[r] # run[r] =>
         /\ run'[r].version = run[r].version + 1
         /\ run'[r].channel = run[r].channel
         /\ CanTransitionRun(run[r].state, run'[r].state)
         /\ run[r].state # "RUNNING_STEP"]_vars

\* A step that changes a row saves the successor of what is stored.
LEMMA RowMovesOn ==
  ASSUME IInv, [Next]_vars, NEW r \in RunIds, Exists(r), run'[r] # run[r]
  PROVE  /\ run'[r].version = run[r].version + 1
         /\ run'[r].channel = run[r].channel
         /\ CanTransitionRun(run[r].state, run'[r].state)
         /\ run[r].state # "RUNNING_STEP"
<1> DEFINE MovesOn(state) == /\ run'[r].version = run[r].version + 1
                             /\ run'[r].channel = run[r].channel
                             /\ run'[r].state = state
<1>1. ASSUME NEW w \in Workers, NEW state, Commits(w, state)
      PROVE  worker[w].run = r /\ MovesOn(state)
  <2>1. worker[w].run \in RunIds
    BY <1>1 DEF Commits
  <2>2. worker[w].run = r
    BY <1>1, <2>1, CommittedRow DEF IInv
  <2> QED BY <1>1, <2>2, CommittedRow, CommitReplacesCopy DEF IInv
<1>2. ASSUME NEW w \in Workers, CreateRunWithAudit(w) PROVE FALSE
  <2>1. worker[w].run \in RunIds /\ ~Exists(worker[w].run)
    BY <1>2 DEF CreateRunWithAudit, IInv, TypeInv, WorkerTypes, HoldsRow,
                OwnershipInv, CommandsSound, CommandSound
  <2> QED BY <1>2, <2>1 DEF CreateRunWithAudit, IInv, TypeInv, TypeOK
<1>3. ASSUME NEW w \in Workers, QueueRun(w)
      PROVE  MovesOn("QUEUED") /\ CanTransitionRun(run[r].state, "QUEUED")
  <2>1. Commits(w, "QUEUED")
    BY <1>3, QueueRunCommits DEF IInv
  <2> QED BY <1>1, <1>3, <2>1, CommitMoves
<1>4. ASSUME NEW w \in Workers, EnterPreflight(w)
      PROVE  MovesOn("PREFLIGHT") /\ run[r].state = "QUEUED"
  <2>1. Commits(w, "PREFLIGHT")
    BY <1>4, EnterPreflightCommits DEF IInv
  <2> QED BY <1>1, <1>4, <2>1, CommitMoves
<1>5. ASSUME NEW w \in Workers, CompletePreflight(w)
      PROVE  MovesOn("RUNNING_STEP") /\ run[r].state = "PREFLIGHT"
  <2>1. Commits(w, "RUNNING_STEP")
    BY <1>5, CompletePreflightCommits DEF IInv
  <2> QED BY <1>1, <1>5, <2>1, CommitMoves
<1>6. ASSUME NEW w \in Workers, PersistPreflightFailure(w)
      PROVE  /\ \E state \in PreflightFailures : MovesOn(state)
             /\ run[r].state = "PREFLIGHT"
  <2>1. PICK state \in PreflightFailures : Commits(w, state)
    BY <1>6, PersistPreflightFailureCommits DEF IInv
  <2>2. worker[w].run = r /\ MovesOn(state)
    BY <1>1, <2>1
  <2>3. run[r].state = "PREFLIGHT"
    BY <1>6, <2>1, <2>2, CommitMoves
  <2> QED BY <2>2, <2>3
<1>7. \E w \in Workers : Stores(w)
  BY QuietStep
<1> QED BY <1>2, <1>3, <1>4, <1>5, <1>6, <1>7
    DEF Stores, CanTransitionRun, RunTransitions, PreflightFailures

(* However commands interleave and whatever copies they hold, a commit is   *)
(* made over the row it was decided for, so that a run that is ready is     *)
(* left alone (saveRunWithAudits, assertRunTransition).                     *)
THEOREM NoUpdateIsLost == Spec => RowsMoveOn
<1>1. IInv /\ [Next]_vars =>
        [\A r \in RunIds :
           Exists(r) /\ run'[r] # run[r] =>
             /\ run'[r].version = run[r].version + 1
             /\ run'[r].channel = run[r].channel
             /\ CanTransitionRun(run[r].state, run'[r].state)
             /\ run[r].state # "RUNNING_STEP"]_vars
  BY RowMovesOn
<1> QED BY <1>1, IInvInvariant, PTL DEF Spec, RowsMoveOn

-----------------------------------------------------------------------------
(***************************************************************************)
(* RunOrchestrator implements RunLedger for any number of runs, channels,  *)
(* workers and configurations: each step of a command or of the            *)
(* environment is one step of the ledger, or none.                         *)
(***************************************************************************)

Limits == {c.maxActiveRuns : c \in ChannelConfigs}

(* A worker about to check capacity holds a limit some config file states. *)
LimitsAreConfigured ==
  \A w \in Workers : worker[w].pc = "counting" => worker[w].limit \in Limits

(* No worker is anywhere near the check at first. *)
THEOREM LimitsInitial == Init => LimitsAreConfigured
  BY DEF Init, LimitsAreConfigured, Idle

(* Only LoadChannelContext brings a worker there, with the limit it read. *)
THEOREM LimitsStep ==
  IInv /\ LimitsAreConfigured /\ [Next]_vars => LimitsAreConfigured'
<1> SUFFICES ASSUME IInv, LimitsAreConfigured, [Next]_vars
             PROVE  LimitsAreConfigured'
  OBVIOUS
<1>1. ASSUME NEW w \in Workers,
             \A v \in Workers \ {w} : worker'[v] = worker[v],
             worker'[w].pc = "counting" => worker'[w].limit \in Limits
      PROVE  LimitsAreConfigured'
  BY <1>1 DEF LimitsAreConfigured, Limits
<1>2. ASSUME NEW w \in Workers, Finish(w) PROVE LimitsAreConfigured'
  <2>1. worker'[w] = Idle /\ \A v \in Workers \ {w} : worker'[v] = worker[v]
    BY <1>2 DEF Finish, IInv, TypeInv, TypeOK
  <2> QED BY <1>1, <2>1 DEF Idle
<1>3. ASSUME NEW w \in Workers, LoadChannelContext(w) PROVE LimitsAreConfigured'
  <2>1. worker[w].copy.channel \in ChannelIds
    BY <1>3 DEF LoadChannelContext, IInv, TypeInv, WorkerTypes, HoldsRow, RunRow
  <2>2. config[worker[w].copy.channel].maxActiveRuns \in Limits
    BY <2>1 DEF Limits, IInv, TypeInv, TypeOK
  <2>3. /\ worker'[w].limit = config[worker[w].copy.channel].maxActiveRuns
        /\ \A v \in Workers \ {w} : worker'[v] = worker[v]
    BY <1>3 DEF LoadChannelContext, IInv, TypeInv, TypeOK, Locals
  <2> QED BY <1>1, <2>2, <2>3
<1>4. ASSUME NEW w \in Workers, worker'[w].pc # "counting",
             \A v \in Workers \ {w} : worker'[v] = worker[v]
      PROVE  LimitsAreConfigured'
  BY <1>1, <1>4
<1>5. ASSUME NEW w \in Workers, NEW r \in RunIds, NEW ch \in ChannelIds,
             BeginCreateRun(w, r, ch)
      PROVE  LimitsAreConfigured'
  BY <1>4, <1>5 DEF BeginCreateRun, IInv, TypeInv, TypeOK, Idle
<1>6. ASSUME NEW w \in Workers, NEW r \in RunIds,
             NEW pc \in {"queueing", "entering"}, NEW to, BeginCommand(w, r, pc, to)
      PROVE  LimitsAreConfigured'
  BY <1>4, <1>6 DEF BeginCommand, IInv, TypeInv, TypeOK, Idle
<1>7. ASSUME NEW w \in Workers, NEW failure, Fail(w, failure)
      PROVE  LimitsAreConfigured'
  BY <1>4, <1>7 DEF Fail, IInv, TypeInv, TypeOK, Locals
<1>8. ASSUME NEW w \in Workers, EnterPreflight(w) \/ CheckCapacity(w)
      PROVE  LimitsAreConfigured'
  BY <1>4, <1>8 DEF EnterPreflight, CheckCapacity, IInv, TypeInv, TypeOK, Locals
<1>9. CASE worker' = worker
  BY <1>9 DEF LimitsAreConfigured, Limits
<1> QED BY <1>2, <1>3, <1>5, <1>6, <1>7, <1>8, <1>9
    DEF Next, vars, BeginAny, BeginQueueRun, BeginPreflightRun, Continue,
        CreateRunWithAudit, QueueRun, CompletePreflight,
        PersistPreflightFailure, VersionConflict, Abandon, ChannelDisabled,
        ContextInvalid, PreflightReadFails, CapacityExceeded, EditConfig

-----------------------------------------------------------------------------
(***************************************************************************)
(* What the ledger sees: the rows, the grants and the checkpoints.         *)
(***************************************************************************)

(* The ledger's table of legal transitions is that of the service. *)
LEMMA LedgerKnowsTransitions ==
  \A from, to :
    CanTransitionRun(from, to) => /\ Ledger!CanTransitionRun(from, to)
                                  /\ to \in Ledger!RunStates
  BY DEF CanTransitionRun, RunTransitions, Ledger!CanTransitionRun,
         Ledger!RunTransitions, Ledger!RunStates

(* The ledger counts as the service counts. *)
LEMMA LedgerCounts == \A S : Ledger!Cardinality(S) = Cardinality(S)
  BY DEF Ledger!Cardinality, Cardinality

(* Where no row, no grant and no checkpoint changes, the ledger stutters. *)
LEMMA StutterIsStutter ==
  ASSUME run' = run, checkpoints' = checkpoints,
         \A r \in RunIds : Grants(r)' = Grants(r)
  PROVE  UNCHANGED Ledger!ledger
  BY DEF Ledger!ledger, EntryOf

(* The owner of the slot, and what it gives up when it is lost. *)
LEMMA FinishIsLapse ==
  ASSUME IInv, NEW w \in Workers, run' = run, grant' = grant,
         checkpoints' = checkpoints, Finish(w)
  PROVE  [Ledger!Next]_(Ledger!ledger)
<1>1. worker'[w] = Idle /\ \A v \in Workers \ {w} : worker'[v] = worker[v]
  BY DEF Finish, IInv, TypeInv, TypeOK
<1>2. \A v \in Workers \ {w} : \A r \in RunIds : \A n :
        Claims(v, r, n)' <=> Claims(v, r, n)
  BY <1>1 DEF Claims, Owns
<1>3. \A r \in RunIds : \A n : ~Claims(w, r, n)'
  BY <1>1 DEF Claims, Owns, Idle
<1>4. ASSUME NEW r \in RunIds, \A n : ~Claims(w, r, n)
      PROVE  Grants(r)' = Grants(r)
  BY <1>2, <1>3, <1>4, SameGrants
<1>5. CASE \A r \in RunIds : \A n : ~Claims(w, r, n)
  BY <1>4, <1>5, StutterIsStutter
<1>6. CASE \E r \in RunIds : \E n : Claims(w, r, n)
  <2>1. PICK r \in RunIds : \E n : Claims(w, r, n)
    BY <1>6
  <2>2. run[r].state = "PREFLIGHT"
    BY <2>1 DEF Claims, Owns, IInv, OwnershipInv, CommandsSound, CommandSound
  <2>3. \A v \in Workers \ {w} : \A n : ~Claims(v, r, n)
    BY <2>1 DEF Claims, IInv, OwnershipInv, OwnerUnique
  <2>4. Grants(r)' = {}
    BY <2>2, <2>3, <1>2, <1>3, NoGrants
  <2>5. \A q \in RunIds \ {r} : \A n : ~Claims(w, q, n)
    BY <2>1 DEF Claims, Owns
  <2>6. \A q \in RunIds \ {r} : Grants(q)' = Grants(q)
    BY <1>4, <2>5
  <2>7. Ledger!Lapse(r)
    BY <2>2, <2>4, <2>6 DEF Ledger!Lapse, EntryOf
  <2> QED BY <2>7 DEF Ledger!Next
<1> QED BY <1>5, <1>6

(* A commit to a state other than RUNNING_STEP is a legal move. *)
LEMMA CommitIsMove ==
  ASSUME IInv, NEW w \in Workers, NEW r \in RunIds, r = worker[w].run,
         NEW state, Commits(w, state), state # "RUNNING_STEP",
         CanTransitionRun(run[r].state, state),
         grant' = grant, checkpoints' = checkpoints,
         worker'[w].pc # "admitted", worker'[w].run \in {r, "none"},
         \A v \in Workers \ {w} : worker'[v] = worker[v]
  PROVE  Ledger!Next
<1>1. \A v \in Workers : \A n :
        /\ ~Claims(v, r, n)'
        /\ \A q \in RunIds \ {r} : Claims(v, q, n)' <=> Claims(v, q, n)
  BY CommitMovesClaims
<1>2. /\ run'[r].state = state
      /\ run'[r].version = run[r].version + 1
      /\ run'[r].channel = worker[w].copy.channel
      /\ \A q \in RunIds \ {r} : run'[q] = run[q]
  BY CommittedRow DEF IInv
<1>3. worker[w].copy = run[r]
  BY CommitReplacesCopy
<1>4. Grants(r)' = {}
  BY <1>1, <1>2, NoGrants
<1>5. \A q \in RunIds \ {r} : Grants(q)' = Grants(q)
  BY <1>1, <1>2, SameGrants
<1>6. Ledger!MoveTo(r, state)
  <2>1. EntryOf(run'[r]) = [channel |-> EntryOf(run[r]).channel, state |-> state,
                            moves |-> EntryOf(run[r]).moves + 1]
    BY <1>2, <1>3 DEF EntryOf
  <2> QED BY <2>1, <1>2 DEF Ledger!MoveTo
<1>7. Ledger!Move(r, state) /\ state \in Ledger!RunStates
  BY <1>4, <1>5, <1>6, LedgerKnowsTransitions DEF Ledger!Move, EntryOf
<1> QED BY <1>7 DEF Ledger!Next

(* The capacity check reserves the slot, or is made by a worker whose run   *)
(* went on without it and reserves nothing.                                 *)
LEMMA AdmissionIsReserve ==
  ASSUME IInv, LimitsAreConfigured, NEW w \in Workers, CheckCapacity(w)
  PROVE  [Ledger!Next]_(Ledger!ledger)
<1>1. PICK r \in RunIds : r = worker[w].run
  BY DEF CheckCapacity, IInv, TypeInv, WorkerTypes, HoldsRow
<1>2. /\ worker'[w].pc = "admitted"
      /\ worker'[w].run = r
      /\ worker'[w].copy = worker[w].copy
      /\ worker'[w].limit = worker[w].limit
      /\ worker[w].limit \in Nat
      /\ \A v \in Workers \ {w} : worker'[v] = worker[v]
      /\ run' = run /\ grant' = grant /\ checkpoints' = checkpoints
      /\ worker[w].pc = "counting"
      /\ HasCapacity(w)
  BY <1>1 DEF CheckCapacity, IInv, TypeInv, TypeOK, Locals
<1>3. \A v \in Workers \ {w} : \A q \in RunIds : \A n :
        Claims(v, q, n)' <=> Claims(v, q, n)
  BY <1>2 DEF Claims, Owns
<1>4. \A q \in RunIds : \A n : ~Claims(w, q, n)
  BY <1>2 DEF Claims
<1>5. \A q \in RunIds \ {r} : \A n : ~Claims(w, q, n)'
  BY <1>2 DEF Claims, Owns
<1>6. \A q \in RunIds \ {r} : Grants(q)' = Grants(q)
  BY <1>2, <1>3, <1>4, <1>5, SameGrants
<1>7. CASE ~Owns(w, r)
  <2>1. \A n : ~Claims(w, r, n)'
    BY <1>1, <1>2, <1>7 DEF Claims, Owns
  <2>2. Grants(r)' = Grants(r)
    BY <2>1, <1>2, <1>3, <1>4, SameGrants
  <2> QED BY <2>2, <1>2, <1>6, StutterIsStutter
<1>8. CASE Owns(w, r)
  <2>1. worker[w].copy = run[r] /\ run[r].state = "PREFLIGHT"
    BY <1>2, <1>8 DEF Owns, IInv, OwnershipInv, CommandsSound, CommandSound
  <2>2. \A v \in Workers \ {w} : \A n : ~Claims(v, r, n)
    BY <1>8 DEF Claims, IInv, OwnershipInv, OwnerUnique
  <2>3. Grants(r) = {}
    BY <2>1, <2>2, <1>4, GrantsAre
  <2>4. Grants(r)' = {worker[w].limit}
    <3>1. \A n : Claims(w, r, n)' <=> n = worker[w].limit
      BY <1>2, <1>8 DEF Claims, Owns
    <3>2. \A v \in Workers \ {w} : \A n : ~Claims(v, r, n)'
      BY <2>2, <1>3
    <3>3. run'[r].state # "RUNNING_STEP"
      BY <2>1, <1>2
    <3>4. ASSUME NEW n PROVE n \in Grants(r)' <=> n = worker[w].limit
      <4>1. n \in Grants(r)' <=> \/ run'[r].state = "RUNNING_STEP" /\ n = grant'[r]
                                 \/ \E v \in Workers : Claims(v, r, n)'
        BY GrantsAreNext
      <4> QED BY <4>1, <3>1, <3>2, <3>3
    <3> QED BY <3>4
  <2>5. Cardinality(Ledger!OtherHolders(r)) < worker[w].limit
    <3>1. worker[w].copy.channel \in ChannelIds
      BY <1>2 DEF IInv, TypeInv, WorkerTypes, HoldsRow, RunRow
    <3>2. Ledger!OtherHolders(r) = Holders(run[r].channel) \ {r}
      BY DEF Ledger!OtherHolders, Holders, EntryOf
    <3>3. Ledger!OtherHolders(r) \subseteq CompetingRuns(w)
      BY <1>1, <2>1, <3>1, <3>2, HoldersAreActive DEF CompetingRuns
    <3>4. IsFiniteSet(CompetingRuns(w))
      BY RunIdsAssumption, FS_Subset DEF CompetingRuns, ActiveRuns
    <3>5. /\ Cardinality(Ledger!OtherHolders(r)) <= Cardinality(CompetingRuns(w))
          /\ IsFiniteSet(Ledger!OtherHolders(r))
      BY <3>3, <3>4, FS_Subset
    <3>6. /\ Cardinality(Ledger!OtherHolders(r)) \in Nat
          /\ Cardinality(CompetingRuns(w)) \in Nat
      BY <3>4, <3>5, FS_CardinalityType
    <3> QED BY <1>2, <3>5, <3>6 DEF HasCapacity
  <2>6. Ledger!Reserve(r, worker[w].limit)
    <3>1. Ledger!Cardinality(Ledger!OtherHolders(r)) < worker[w].limit
      BY <2>5, LedgerCounts
    <3> QED BY <2>1, <2>3, <2>4, <3>1, <1>2, <1>6 DEF Ledger!Reserve, EntryOf
  <2>7. worker[w].limit \in Limits
    BY <1>2 DEF LimitsAreConfigured
  <2> QED BY <2>6, <2>7 DEF Ledger!Next, Limits
<1> QED BY <1>7, <1>8

(* The last transaction of a preflight occupies the reserved slot. *)
LEMMA CompleteIsStart ==
  ASSUME IInv, NEW w \in Workers, CompletePreflight(w)
  PROVE  Ledger!Next
<1>1. Commits(w, "RUNNING_STEP")
  BY CompletePreflightCommits DEF IInv
<1>2. PICK r \in RunIds : r = worker[w].run
  BY <1>1 DEF Commits
<1>3. /\ worker'[w] = Idle
      /\ \A v \in Workers \ {w} : worker'[v] = worker[v]
      /\ grant'[r] = worker[w].limit
      /\ \A q \in RunIds \ {r} : grant'[q] = grant[q]
      /\ worker[w].pc = "admitted"
      /\ checkpoints' = [checkpoints EXCEPT ![r] = Append(@, PreflightCheckpoint)]
  BY <1>2 DEF CompletePreflight, AppendCheckpoint, Finish, IInv, TypeInv, TypeOK
<1>4. \A v \in Workers : \A n :
        /\ ~Claims(v, r, n)'
        /\ \A q \in RunIds \ {r} : Claims(v, q, n)' <=> Claims(v, q, n)
  BY <1>1, <1>2, <1>3, CommitMovesClaims DEF Idle
<1>5. /\ run'[r].state = "RUNNING_STEP"
      /\ run'[r].version = run[r].version + 1
      /\ run'[r].channel = worker[w].copy.channel
      /\ run[r].version = worker[w].copy.version
      /\ \A q \in RunIds \ {r} : run'[q] = run[q]
  BY <1>1, <1>2, CommittedRow DEF IInv
<1>6. worker[w].copy = run[r] /\ run[r].state = "PREFLIGHT"
  BY <1>1, <1>2, CommitReplacesCopy, CommitMoves
<1>7. \A q \in RunIds \ {r} : Grants(q)' = Grants(q)
  BY <1>3, <1>4, <1>5, SameGrants
<1>8. Owns(w, r)
  BY <1>2, <1>3, <1>5 DEF Owns
<1>9. \A v \in Workers : \A n : Claims(v, r, n) <=> v = w /\ n = worker[w].limit
  BY <1>3, <1>8 DEF Claims, IInv, OwnershipInv, OwnerUnique
<1>10. \A n : n \in Grants(r) <=> n = worker[w].limit
  BY <1>6, <1>9, GrantsAre
<1>11. \A n : n \in Grants(r)' <=> n = worker[w].limit
  BY <1>3, <1>4, <1>5, GrantsAreNext
<1>12. Grants(r)' = Grants(r) /\ Grants(r) # {}
  BY <1>10, <1>11
<1>13. Ledger!MoveTo(r, "RUNNING_STEP")
  <2>1. EntryOf(run'[r]) = [channel |-> EntryOf(run[r]).channel,
                            state |-> "RUNNING_STEP",
                            moves |-> EntryOf(run[r]).moves + 1]
    BY <1>5, <1>6 DEF EntryOf
  <2> QED BY <2>1, <1>5 DEF Ledger!MoveTo
<1>14. Ledger!Start(r)
  BY <1>3, <1>6, <1>7, <1>12, <1>13 DEF Ledger!Start, EntryOf
<1> QED BY <1>14 DEF Ledger!Next

(* The insert of createRun makes the entry. *)
LEMMA CreateIsCreate ==
  ASSUME IInv, NEW w \in Workers, CreateRunWithAudit(w)
  PROVE  Ledger!Next
<1>1. PICK r \in RunIds : r = worker[w].run
  BY DEF CreateRunWithAudit, IInv, TypeInv, WorkerTypes, HoldsRow
<1>2. /\ worker[w].copy.state = "SCHEDULED"
      /\ worker[w].copy.version = 1
      /\ worker[w].copy.channel \in ChannelIds
      /\ run[r] = NoRow
      /\ \A v \in Workers \ {w} : worker[v].run # r
  BY <1>1 DEF CreateRunWithAudit, IInv, OwnershipInv, CommandsSound,
              CommandSound, Exists, TypeInv, WorkerTypes, HoldsRow, RunRow
<1>3. /\ run'[r] = worker[w].copy
      /\ \A q \in RunIds \ {r} : run'[q] = run[q]
      /\ grant' = grant /\ checkpoints' = checkpoints
      /\ worker'[w] = Idle /\ worker[w].pc = "creating"
      /\ \A v \in Workers \ {w} : worker'[v] = worker[v]
  BY <1>1 DEF CreateRunWithAudit, Finish, IInv, TypeInv, TypeOK
<1>4. \A v \in Workers : \A n :
        /\ ~Claims(v, r, n) /\ ~Claims(v, r, n)'
        /\ \A q \in RunIds \ {r} : Claims(v, q, n)' <=> Claims(v, q, n)
  BY <1>2, <1>3 DEF Claims, Owns, Idle
<1>5. Grants(r)' = {}
  BY <1>2, <1>3, <1>4, NoGrants
<1>6. Grants(r) = {}
  BY <1>2, <1>4, GrantsAre DEF NoRow
<1>7. \A q \in RunIds \ {r} : Grants(q)' = Grants(q)
  BY <1>3, <1>4, SameGrants
<1>8. \A q \in RunIds : Grants(q)' = Grants(q)
  BY <1>5, <1>6, <1>7
<1>9. Ledger!Create(r, worker[w].copy.channel)
  <2>1. /\ EntryOf(run[r]) = Ledger!NoEntry
        /\ EntryOf(run'[r]) = [channel |-> worker[w].copy.channel,
                               state |-> "SCHEDULED", moves |-> 1]
    BY <1>2, <1>3 DEF Ledger!NoEntry, EntryOf, NoRow
  <2> QED BY <2>1, <1>3, <1>8 DEF Ledger!Create
<1> QED BY <1>2, <1>9 DEF Ledger!Next

-----------------------------------------------------------------------------
(* The empty database is the empty ledger. *)
THEOREM LedgerInitial == Init => Ledger!Init
<1> SUFFICES ASSUME Init PROVE Ledger!Init
  OBVIOUS
<1>1. ASSUME NEW r \in RunIds PROVE Grants(r) = {}
  <2>1. run[r].state # "RUNNING_STEP" /\ \A w \in Workers : \A n : ~Claims(w, r, n)
    BY DEF Init, NoRow, Idle, Claims
  <2> QED BY <2>1, GrantsAre
<1>2. \A r \in RunIds : EntryOf(run[r]) = Ledger!NoEntry
  BY DEF Init, NoRow, EntryOf, Ledger!NoEntry
<1> QED BY <1>1, <1>2 DEF Init, Ledger!Init

(* Every step is a step of the ledger, or none. *)
THEOREM LedgerStep ==
  IInv /\ LimitsAreConfigured /\ [Next]_vars => [Ledger!Next]_(Ledger!ledger)
<1> SUFFICES ASSUME IInv, LimitsAreConfigured, [Next]_vars
             PROVE  [Ledger!Next]_(Ledger!ledger)
  OBVIOUS
<1>1. ASSUME NEW w \in Workers, run' = run, grant' = grant,
             checkpoints' = checkpoints,
             worker[w].pc # "admitted", worker'[w].pc # "admitted",
             \A v \in Workers \ {w} : worker'[v] = worker[v]
      PROVE  UNCHANGED Ledger!ledger
  <2>1. ASSUME NEW v \in Workers, NEW r \in RunIds, NEW n
        PROVE  Claims(v, r, n)' <=> Claims(v, r, n)
    BY <1>1 DEF Claims, Owns
  <2>2. \A r \in RunIds : Grants(r)' = Grants(r)
    BY <1>1, <2>1, SameGrants
  <2> QED BY <1>1, <2>2, StutterIsStutter
<1>2. ASSUME NEW w \in Workers, NEW r \in RunIds, NEW ch \in ChannelIds,
             BeginCreateRun(w, r, ch)
      PROVE  UNCHANGED Ledger!ledger
  BY <1>1, <1>2 DEF BeginCreateRun, IInv, TypeInv, TypeOK, Idle
<1>3. ASSUME NEW w \in Workers, NEW r \in RunIds,
             NEW pc \in {"queueing", "entering"}, NEW to, BeginCommand(w, r, pc, to)
      PROVE  UNCHANGED Ledger!ledger
  BY <1>1, <1>3 DEF BeginCommand, IInv, TypeInv, TypeOK, Idle
<1>4. ASSUME NEW w \in Workers,
             \/ LoadChannelContext(w)
             \/ ChannelDisabled(w)
             \/ ContextInvalid(w)
             \/ PreflightReadFails(w)
             \/ CapacityExceeded(w)
      PROVE  UNCHANGED Ledger!ledger
  <2>1. /\ run' = run /\ grant' = grant /\ checkpoints' = checkpoints
        /\ worker[w].pc # "admitted" /\ worker'[w].pc # "admitted"
        /\ \A v \in Workers \ {w} : worker'[v] = worker[v]
    BY <1>4 DEF LoadChannelContext, ChannelDisabled, ContextInvalid,
                PreflightReadFails, CapacityExceeded, Fail, IInv, TypeInv,
                TypeOK, Locals
  <2> QED BY <1>1, <2>1
<1>5. ASSUME NEW w \in Workers, QueueRun(w) PROVE Ledger!Next
  <2>1. Commits(w, "QUEUED")
    BY <1>5, QueueRunCommits DEF IInv
  <2>2. PICK r \in RunIds : r = worker[w].run
    BY <2>1 DEF Commits
  <2>3. CanTransitionRun(run[r].state, "QUEUED")
    BY <1>5, <2>1, <2>2, CommitMoves
  <2>4. /\ worker'[w] = Idle /\ grant' = grant /\ checkpoints' = checkpoints
        /\ \A v \in Workers \ {w} : worker'[v] = worker[v]
    BY <1>5 DEF QueueRun, Finish, IInv, TypeInv, TypeOK
  <2> QED BY <2>1, <2>2, <2>3, <2>4, CommitIsMove DEF Idle
<1>6. ASSUME NEW w \in Workers, EnterPreflight(w) PROVE Ledger!Next
  <2>1. Commits(w, "PREFLIGHT")
    BY <1>6, EnterPreflightCommits DEF IInv
  <2>2. PICK r \in RunIds : r = worker[w].run
    BY <2>1 DEF Commits
  <2>3. CanTransitionRun(run[r].state, "PREFLIGHT")
    BY <1>6, <2>1, <2>2, CommitMoves DEF CanTransitionRun, RunTransitions
  <2>4. /\ worker'[w].pc = "loading" /\ worker'[w].run = r
        /\ grant' = grant /\ checkpoints' = checkpoints
        /\ \A v \in Workers \ {w} : worker'[v] = worker[v]
    BY <1>6, <2>2 DEF EnterPreflight, IInv, TypeInv, TypeOK, Locals
  <2> QED BY <2>1, <2>2, <2>3, <2>4, CommitIsMove
<1>7. ASSUME NEW w \in Workers, PersistPreflightFailure(w) PROVE Ledger!Next
  <2>1. PICK state : state = worker[w].failure
    OBVIOUS
  <2>2. Commits(w, state) /\ state \in PreflightFailures
    BY <1>7, <2>1, PersistPreflightFailureCommits DEF IInv
  <2>3. PICK r \in RunIds : r = worker[w].run
    BY <2>2 DEF Commits
  <2>4. run[r].state = "PREFLIGHT"
    BY <1>7, <2>2, <2>3, CommitMoves
  <2>5. CanTransitionRun(run[r].state, state) /\ state # "RUNNING_STEP"
    BY <2>2, <2>4 DEF CanTransitionRun, RunTransitions, PreflightFailures
  <2>6. /\ worker'[w] = Idle /\ grant' = grant /\ checkpoints' = checkpoints
        /\ \A v \in Workers \ {w} : worker'[v] = worker[v]
    BY <1>7 DEF PersistPreflightFailure, Finish, IInv, TypeInv, TypeOK
  <2> QED BY <2>2, <2>3, <2>5, <2>6, CommitIsMove DEF Idle
<1>8. ASSUME NEW w \in Workers, VersionConflict(w) \/ Abandon(w)
      PROVE  [Ledger!Next]_(Ledger!ledger)
  BY <1>8, FinishIsLapse DEF VersionConflict, Abandon
<1>9. CASE (\E ch \in ChannelIds : EditConfig(ch)) \/ UNCHANGED vars
  <2>1. /\ worker' = worker /\ run' = run /\ grant' = grant
        /\ checkpoints' = checkpoints
    BY <1>9 DEF EditConfig, vars
  <2>2. \A v \in Workers : \A r \in RunIds : \A n :
          Claims(v, r, n)' <=> Claims(v, r, n)
    BY <2>1 DEF Claims, Owns
  <2>3. \A r \in RunIds : Grants(r)' = Grants(r)
    BY <2>1, <2>2, SameGrants
  <2> QED BY <2>1, <2>3, StutterIsStutter
<1>10. ASSUME NEW w \in Workers,
              CreateRunWithAudit(w) \/ CheckCapacity(w) \/ CompletePreflight(w)
       PROVE  [Ledger!Next]_(Ledger!ledger)
  BY <1>10, CreateIsCreate, AdmissionIsReserve, CompleteIsStart
<1> QED BY <1>2, <1>3, <1>4, <1>5, <1>6, <1>7, <1>8, <1>9, <1>10
    DEF Next, BeginAny, BeginQueueRun, BeginPreflightRun, Continue

(* The service is the ledger, however its commands interleave, fail and are *)
(* lost between two awaits.                                                 *)
THEOREM RunOrchestratorImplementsLedger == Spec => ImplementsLedger
<1> QED BY LedgerInitial, LedgerStep, LimitsInitial, LimitsStep, IInvInvariant,
           PTL DEF Spec, ImplementsLedger, Ledger!Spec
=============================================================================
