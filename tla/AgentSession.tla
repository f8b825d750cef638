---------------------------- MODULE AgentSession ----------------------------
(***************************************************************************)
(* From a ready run to a tool call: the agent task AgentRuntimeService     *)
(* makes of a run and a context, and the ToolBroker's authorization of a   *)
(* request, while runs go through preflight, workspaces are edited and     *)
(* tools registered.                                                       *)
(*                                                                         *)
(* A session is trusted code that reads a run, loads a context, asks the   *)
(* agent and makes one tool request; the code has no caller of its own for *)
(* the two services, so any order of these, with any copy of a run, any    *)
(* context and any task that was handed over, is a session.  What a load   *)
(* gives (ChannelRuntime) is one of Contents, checksums and all; the calls *)
(* are those of ToolBroker.                                                *)
(***************************************************************************)
EXTENDS RunLifecycle, Naturals, Sequences, FiniteSets

CONSTANTS
  Runs, Channels,
  Tool,        \* the tool requests are made for, once for each run
  Sessions,
  Contents,    \* what a load may find: [tools, documents]
  Definitions, \* what register is called with: [name, valid, body]
  Inputs,      \* what a request brings: "valid" or "invalid" by the schema
  Failures,    \* the states in which a preflight may fail; none is runnable
  Flaws,       \* what may be wrong with a provider's answer, "none" included
  MaxEdits     \* bound: how many edits are made

\* The conditions validateAgentResult puts on the form of an answer.
AllFlaws == {"none", "raw string", "status", "schema_version", "evidence_refs",
             "warnings", "result", "topic"}

ASSUME ContentsAssumption ==
  /\ \A d \in Definitions : d.valid \in BOOLEAN
  /\ Flaws \subseteq AllFlaws /\ Inputs \subseteq {"valid", "invalid"}
  /\ Failures \subseteq {"BLOCKED", "FAILED_RECOVERABLE", "FAILED_FINAL"}
  /\ MaxEdits \in Nat
  /\ "none" \notin Runs \cup Channels \cup Sessions

VARIABLES
  run,       \* table harness_runs, with the checkpoint's context_snapshot
  history,   \* history: what the workspace of each channel held, the last now
  registry,  \* the Map of ToolRegistryService
  tasks,     \* history: the AgentTasks made so far
  session,   \* the locals of each session
  status, audit, call, inFlight, abandons, raced

\* An invocation is that of Tool for one run, under one correlation_id.
Broker == INSTANCE ToolBroker WITH
  Invocations <- Runs, Calls <- Sessions, Idempotent <- {},
  Verdicts <- {"ALLOWED", "DENIED"}, MaxRetries <- 0, MaxAbandons <- 0

brokerVars == <<status, audit, call, inFlight, abandons, raced>>
vars == <<run, history, registry, tasks, session, brokerVars>>

NoDefinition == [name |-> "none"]

-----------------------------------------------------------------------------
(* Contexts, tasks and results *)

\* A ChannelContext: the channel, and which of its contents was loaded.
ChannelContext == [channel : Channels, at : 1 .. MaxEdits + 1]
NoContext == [channel |-> "none", at |-> 0]
ContentOf(context) == history[context.channel][context.at]
Loaded(ch) == [channel |-> ch, at |-> Len(history[ch])]

\* The channel of the run a session holds, which never changes.
ChannelOf(s) == run[session[s].run].channel

\* A session asks the agent once, so that it names the task's id.
AgentTask == [task_id : Sessions, run_id : Runs, channel_id : Channels,
              context : ChannelContext]

\* Mutant: the id of the task is forgotten.
CreateWithoutId(s) ==
  [task_id |-> "none", run_id |-> session[s].run, channel_id |-> ChannelOf(s),
   context |-> session[s].context]

createTask(s) ==
  [task_id |-> s, run_id |-> session[s].run, channel_id |-> ChannelOf(s),
   context |-> session[s].context]

allowed_tools(task) == ContentOf(task.context).tools
NoTask == [task_id |-> "none"]

Evidence == {"editorial", "approved-memory"}
NoResult == [task_id |-> "none", evidence_refs |-> {}]

TypeOK ==
  /\ run \in [Runs -> [channel : Channels, state : RunStates,
                       loaded : ChannelContext \cup {NoContext},
                       snapshot : ChannelContext \cup {NoContext}]]
  /\ \A ch \in Channels : /\ history[ch] \in Seq(Contents)
                          /\ Len(history[ch]) \in 1 .. MaxEdits + 1
  /\ registry \subseteq Definitions
  /\ tasks \subseteq AgentTask
  /\ \A s \in Sessions :
       /\ session[s].run \in Runs \cup {"none"}
       /\ session[s].state \in RunStates \cup {"none"}
       /\ session[s].context \in ChannelContext \cup {NoContext}
       /\ session[s].asked \in tasks \cup {NoTask}
       /\ session[s].result \in {NoResult} \cup
            [task_id : Sessions, evidence_refs : SUBSET Evidence]
       /\ session[s].task \in tasks \cup {NoTask}
       /\ session[s].input \in Inputs \cup {"none"}
       /\ session[s].tool \in registry \cup {NoDefinition}
  /\ Broker!TypeOK

Init ==
  /\ \E channelOf \in [Runs -> Channels] :
       run = [r \in Runs |-> [channel |-> channelOf[r], state |-> "QUEUED",
                              loaded |-> NoContext, snapshot |-> NoContext]]
  /\ \E content \in Contents : history = [ch \in Channels |-> <<content>>]
  /\ registry = {}
  /\ tasks = {}
  /\ session = [s \in Sessions |->
       [run |-> "none", state |-> "none", context |-> NoContext, asked |-> NoTask,
        result |-> NoResult, task |-> NoTask, input |-> "none",
        tool |-> NoDefinition]]
  /\ Broker!Init

-----------------------------------------------------------------------------
(* Preflight, the editors and the registry *)

EnterPreflight(r) ==
  /\ run[r].state = "QUEUED"
  /\ run' = [run EXCEPT ![r].state = "PREFLIGHT"]
  /\ UNCHANGED <<history, registry, tasks, session, brokerVars>>

LoadChannelContext(r) ==
  /\ run[r].state = "PREFLIGHT" /\ run[r].loaded = NoContext
  /\ run' = [run EXCEPT ![r].loaded = Loaded(run[r].channel)]
  /\ UNCHANGED <<history, registry, tasks, session, brokerVars>>

\* The checkpoint and the state are one transaction.
CompletePreflight(r) ==
  /\ run[r].state = "PREFLIGHT" /\ run[r].loaded # NoContext
  /\ run' = [run EXCEPT ![r].state = "RUNNING_STEP", ![r].snapshot = run[r].loaded]
  /\ UNCHANGED <<history, registry, tasks, session, brokerVars>>

FailPreflight(r) ==
  /\ run[r].state = "PREFLIGHT"
  /\ \E state \in Failures :
       run' = [run EXCEPT ![r].state = state, ![r].loaded = NoContext]
  /\ UNCHANGED <<history, registry, tasks, session, brokerVars>>

Edit(ch) ==
  /\ \A other \in Channels : Len(history[other]) <= MaxEdits
  /\ \E content \in Contents \ {history[ch][Len(history[ch])]} :
       history' = [history EXCEPT ![ch] = Append(@, content)]
  /\ UNCHANGED <<run, registry, tasks, session, brokerVars>>

\* Mutant: a later definition of the same name takes the place of the first.
RegisterReplacing(d) ==
  /\ d.valid /\ d \notin registry
  /\ registry' = {e \in registry : e.name # d.name} \cup {d}
  /\ UNCHANGED <<run, history, tasks, session, brokerVars>>

\* assertDefinition, and no name twice; otherwise register throws.
register(d) ==
  /\ d.valid
  /\ \A e \in registry : e.name # d.name
  /\ registry' = registry \cup {d}
  /\ UNCHANGED <<run, history, tasks, session, brokerVars>>

-----------------------------------------------------------------------------
(* A session up to its request *)

Free(s) == call[s].pc = "idle"

ReadRun(s, r) ==
  /\ Free(s)
  /\ session' = [session EXCEPT ![s].run = r, ![s].state = run[r].state]
  /\ UNCHANGED <<run, history, registry, tasks, brokerVars>>

LoadContext(s, ch) ==
  /\ Free(s)
  /\ session' = [session EXCEPT ![s].context = Loaded(ch)]
  /\ UNCHANGED <<run, history, registry, tasks, brokerVars>>

\* A run is at the step TOPIC_RESEARCH as soon as it is RUNNING_STEP.
assertCanExecute(s) ==
  /\ session[s].state = "RUNNING_STEP"
  /\ session[s].context.channel = ChannelOf(s)

ExecuteAgent(s) ==
  /\ Free(s) /\ session[s].asked = NoTask
  /\ assertCanExecute(s)
  /\ tasks' = tasks \cup {createTask(s)}
  /\ session' = [session EXCEPT ![s].asked = createTask(s)]
  /\ UNCHANGED <<run, history, registry, brokerVars>>

\* Mutant: the documents are read when the answer is given.
EvidenceOfNow(task) ==
  LET now == history[task.channel_id][Len(history[task.channel_id])] IN
  {d \in Evidence : d \in now.documents}

\* FakeProvider cites of the documents it was given.
evidence_refs(task) == {d \in Evidence : d \in ContentOf(task.context).documents}

validateAgentResult(flaw, answered, task) ==
  flaw = "none" /\ answered.task_id = task.task_id

\* A result that is refused is thrown and nothing is kept; a provider that
\* serves several tasks may mix them up.
ProviderAnswers(s) ==
  /\ session[s].asked # NoTask /\ session[s].result = NoResult
  /\ \E flaw \in Flaws, answered \in tasks :
       /\ validateAgentResult(flaw, answered, session[s].asked)
       /\ session' = [session EXCEPT ![s].result =
            [task_id |-> answered.task_id, evidence_refs |-> evidence_refs(answered)]]
  /\ UNCHANGED <<run, history, registry, tasks, brokerVars>>

-----------------------------------------------------------------------------
(* Its tool request *)

\* Mutant: the run of a task is not compared.
AssertChannelsOnly(s, task) ==
  /\ ChannelOf(s) = task.channel_id
  /\ ChannelOf(s) = session[s].context.channel

assertTrustedScope(s, task) ==
  /\ session[s].run = task.run_id
  /\ ChannelOf(s) = task.channel_id
  /\ ChannelOf(s) = session[s].context.channel

assertRunnableState(s) == session[s].state = "RUNNING_STEP"

RequestTool(s) ==
  /\ Free(s) /\ session[s].run # "none"
  /\ \E task \in tasks, input \in Inputs :
       /\ assertTrustedScope(s, task)
       /\ assertRunnableState(s)
       /\ session' = [session EXCEPT ![s].task = task, ![s].input = input]
  /\ \/ Broker!ReturnExisting(s, session[s].run)
     \/ Broker!FindNothing(s, session[s].run)
  /\ UNCHANGED <<run, history, registry, tasks>>

\* resolve, which throws if there is none.
Resolved == {d \in registry : d.name = Tool}

\* Mutant: the context's list alone decides.
AllowedByContext(s) ==
  /\ Resolved # {}
  /\ Tool \in ContentOf(session[s].context).tools
  /\ session[s].input = "valid"

Authorized(s) ==
  /\ Resolved # {}
  /\ Tool \in allowed_tools(session[s].task)
  /\ Tool \in ContentOf(session[s].context).tools
  /\ session[s].input = "valid"

DecideRequest(s) ==
  /\ call[s].pc = "deciding"
  /\ \/ /\ Authorized(s)
        /\ Broker!Allow(s)
        /\ \E d \in Resolved : session' = [session EXCEPT ![s].tool = d]
     \/ /\ ~Authorized(s)
        /\ Broker!Deny(s)
        /\ UNCHANGED session
  /\ UNCHANGED <<run, history, registry, tasks>>

CallStep(s) ==
  /\ \/ Broker!InsertRequested(s) \/ Broker!InsertFails(s) \/ Broker!Reread(s)
     \/ Broker!StartRunning(s) \/ Broker!StartAttempt(s)
     \/ Broker!AttemptTimesOut(s) \/ Broker!Complete(s)
     \/ Broker!ExecutorStep(s)
  /\ UNCHANGED <<run, history, registry, tasks, session>>

Next ==
  \/ \E r \in Runs : \/ EnterPreflight(r) \/ LoadChannelContext(r)
                     \/ CompletePreflight(r) \/ FailPreflight(r)
  \/ \E ch \in Channels : Edit(ch)
  \/ \E d \in Definitions : register(d)
  \/ \E s \in Sessions :
       \/ \E r \in Runs : ReadRun(s, r)
       \/ \E ch \in Channels : LoadContext(s, ch)
       \/ ExecuteAgent(s) \/ ProviderAnswers(s)
       \/ RequestTool(s) \/ DecideRequest(s) \/ CallStep(s)

Spec == Init /\ [][Next]_vars

-----------------------------------------------------------------------------
(* Properties *)

Executed(s) == call[s].attempts > 0

\* However stale the copy of the run, whichever tasks and contexts sessions
\* hold and mix: a tool is executed only for a run whose row is RUNNING_STEP
\* with its checkpoint stored, for a task of that run, under a context of its
\* channel.
ExecutedInScope ==
  \A s \in Sessions : Executed(s) =>
    LET r == call[s].inv IN
    /\ run[r].state = "RUNNING_STEP"
    /\ run[r].snapshot.channel = run[r].channel
    /\ session[s].task.run_id = r
    /\ session[s].task.context.channel = run[r].channel
    /\ session[s].context.channel = run[r].channel

\* A tool is executed only if its workspace granted it twice, when the context
\* of the task was loaded and when that of the request was: a tool revoked
\* before the request's load, or granted only after the task was made, is not,
\* whichever of two racing calls goes on with the row.
ExecutedAsGranted ==
  \A s \in Sessions : Executed(s) =>
    LET channel == run[call[s].inv].channel
        Granted(at) == Tool \in history[channel][at].tools
    IN Granted(session[s].task.context.at) /\ Granted(session[s].context.at)

\* A call judges its input and its output by one definition, and every later
\* call of the tool judges by the same.
OneDefinition ==
  \A s \in Sessions : Executed(s) => Resolved = {session[s].tool}

\* The result a session is given is of the task it asked for, and cites no
\* document that task's context did not hold, whatever was edited since.
ResultIsGrounded ==
  \A s \in Sessions : session[s].result # NoResult =>
    /\ session[s].result.task_id = session[s].asked.task_id
    /\ session[s].result.evidence_refs
         \subseteq ContentOf(session[s].asked.context).documents
=============================================================================
