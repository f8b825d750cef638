------------------------- MODULE AgentSessionProofs -------------------------
(***************************************************************************)
(* Proofs that tools are executed in scope, as granted and by one          *)
(* definition, and that results are grounded, for any number of runs,      *)
(* channels, sessions, contents, definitions and edits.                    *)
(*                                                                         *)
(* Sessions hold copies, of runs, contexts and tasks, which may be old.    *)
(* The invariant says what of a copy cannot go stale: a run stays at its   *)
(* step and in its channel, what a context was loaded from stays in the    *)
(* history, a task stays as it was made; and once a session has made its   *)
(* request it changes none of its copies, so that what was compared then   *)
(* and what was decided for it still hold when the tool is executed.       *)
(***************************************************************************)
EXTENDS AgentSession, SequenceTheorems, TLAPS

(* Shapes: what EXCEPT needs to be known of the state. *)

AnyContext == [channel : Channels \cup {"none"}, at : Nat]
RunRow == [channel : Channels, state : RunStates, loaded : AnyContext,
           snapshot : AnyContext]

Locals ==
  {"run", "state", "context", "asked", "result", "task", "input", "tool"}
SessionsShape ==
  /\ session = [s \in Sessions |-> session[s]]
  /\ \A s \in Sessions : session[s] = [f \in Locals |-> session[s][f]]
CallLocals == {"pc", "inv", "copy", "attempts", "outcome"}
CallsShape ==
  /\ call = [s \in Sessions |-> call[s]]
  /\ \A s \in Sessions : call[s] = [f \in CallLocals |-> call[s][f]]

Shapes ==
  /\ run \in [Runs -> RunRow]
  /\ history \in [Channels -> Seq(Contents)]
  /\ \A ch \in Channels : Len(history[ch]) >= 1
  /\ SessionsShape /\ CallsShape

\* What the context was loaded from is in the history.
InHistory(context) ==
  /\ context.channel \in Channels
  /\ context.at \in 1 .. Len(history[context.channel])

\* A run goes on with a context of its own channel.
RunsLoadTheirChannel ==
  \A r \in Runs :
    /\ run[r].loaded # NoContext => run[r].loaded.channel = run[r].channel
    /\ run[r].state = "RUNNING_STEP" => run[r].snapshot.channel = run[r].channel

\* A task is of one run and of its channel, and tasks differ in their ids.
TasksInScope ==
  \A t \in tasks :
    /\ t.run_id \in Runs /\ t.channel_id = run[t.run_id].channel
    /\ t.context.channel = t.channel_id /\ InHistory(t.context)
    /\ t.task_id \in Sessions /\ session[t.task_id].asked = t

\* The copy of a run that was read at its step is of a run that still is.
CopiesHold ==
  \A s \in Sessions :
    /\ session[s].state = "RUNNING_STEP" =>
         session[s].run \in Runs /\ run[session[s].run].state = "RUNNING_STEP"
    /\ session[s].context # NoContext => InHistory(session[s].context)
    /\ session[s].asked # NoTask => session[s].asked \in tasks

\* What assertTrustedScope and assertRunnableState compared holds for good.
RequestsInScope ==
  \A s \in Sessions :
    /\ call[s].pc = "idle" => call[s].attempts = 0
    /\ call[s].pc # "idle" =>
         /\ call[s].inv \in Runs /\ session[s].run = call[s].inv
         /\ session[s].state = "RUNNING_STEP"
         /\ session[s].task \in tasks /\ session[s].task.run_id = call[s].inv
         /\ session[s].context.channel = run[call[s].inv].channel

OneByName == \A d, e \in registry : d.name = e.name => d = e

\* A call that was allowed, or was and has executed.
Permitted(s) ==
  \/ call[s].pc \in {"starting", "executing", "waiting", "completing"}
  \/ call[s].attempts > 0

PermittedAsGranted ==
  \A s \in Sessions : Permitted(s) =>
    /\ Tool \in allowed_tools(session[s].task)
    /\ Tool \in ContentOf(session[s].context).tools
    /\ Resolved = {session[s].tool}

ResultsKept ==
  \A s \in Sessions : session[s].result # NoResult =>
    /\ session[s].asked \in tasks
    /\ session[s].result.task_id = session[s].asked.task_id
    /\ session[s].result.evidence_refs
         \subseteq ContentOf(session[s].asked.context).documents

SessionInv ==
  /\ Shapes
  /\ RunsLoadTheirChannel
  /\ TasksInScope
  /\ CopiesHold
  /\ RequestsInScope
  /\ OneByName
  /\ PermittedAsGranted
  /\ ResultsKept

-----------------------------------------------------------------------------

LEMMA SessionInit == Init => SessionInv
<1> SUFFICES ASSUME Init PROVE SessionInv
  OBVIOUS
<1> USE ContentsAssumption DEF Init
<1>1. /\ \A s \in Sessions : call[s] = Broker!Idle
      /\ call = [s \in Sessions |-> Broker!Idle]
  BY DEF Broker!Init
<1>2. Shapes
  <2>1. run \in [Runs -> RunRow]
    BY DEF NoContext, RunStates, RunRow, AnyContext
  <2>2. history \in [Channels -> Seq(Contents)]
    OBVIOUS
  <2>3. SessionsShape
    BY DEF SessionsShape, Locals
  <2>4. CallsShape
    BY <1>1 DEF CallsShape, CallLocals, Broker!Idle
  <2> QED BY <2>1, <2>2, <2>3, <2>4 DEF Shapes
<1>3. RunsLoadTheirChannel
  BY DEF RunsLoadTheirChannel
<1>4. CopiesHold
  BY DEF CopiesHold
<1>5. RequestsInScope /\ PermittedAsGranted
  BY <1>1 DEF RequestsInScope, PermittedAsGranted, Permitted, Broker!Idle
<1>6. TasksInScope /\ OneByName /\ ResultsKept
  BY DEF TasksInScope, OneByName, ResultsKept
<1> QED BY <1>2, <1>3, <1>4, <1>5, <1>6 DEF SessionInv

-----------------------------------------------------------------------------
(* The steps of a call *)

\* Calls go on with their invocations, and none is permitted that was not.
GoesOn(s) ==
  /\ call'[s].inv = call[s].inv
  /\ call'[s].pc = "idle" <=> call[s].pc = "idle"
  /\ call'[s].pc = "idle" => call'[s].attempts = call[s].attempts
  /\ Permitted(s)' => Permitted(s)

LEMMA OneCallChanges ==
  ASSUME CallsShape, NEW s \in Sessions, NEW k,
         call' = [call EXCEPT ![s] = k], k = [f \in CallLocals |-> k[f]]
  PROVE  CallsShape' /\ call'[s] = k /\ \A t \in Sessions \ {s} : call'[t] = call[t]
<1>1. CallsShape'
  BY DEF CallsShape
<1>2. call'[s] = k /\ \A t \in Sessions \ {s} : call'[t] = call[t]
  BY DEF CallsShape
<1> QED BY <1>1, <1>2

\* A step that changes where one call is, and what it counts and copies.
LEMMA OneCallGoesOn ==
  ASSUME CallsShape, NEW s \in Sessions, NEW k,
         call' = [call EXCEPT ![s] = k], k = [f \in CallLocals |-> k[f]],
         k.inv = call[s].inv, call[s].pc # "idle", k.pc # "idle",
         \/ Permitted(s)
         \/ /\ k.pc \notin {"starting", "executing", "waiting", "completing"}
            /\ k.attempts = call[s].attempts
  PROVE  CallsShape' /\ \A t \in Sessions : GoesOn(t)
<1>1. CallsShape' /\ call'[s] = k /\ \A t \in Sessions \ {s} : call'[t] = call[t]
  BY OneCallChanges
<1>2. \A t \in Sessions : GoesOn(t)
  BY <1>1 DEF GoesOn, Permitted
<1> QED BY <1>1, <1>2

LEMMA CallsGoOn ==
  ASSUME CallsShape, NEW s \in Sessions, CallStep(s) \/ Broker!Deny(s)
  PROVE  CallsShape' /\ \A t \in Sessions : GoesOn(t)
<1> DEFINE Goal == CallsShape' /\ \A t \in Sessions : GoesOn(t)
           Becomes(k) == call' = [call EXCEPT ![s] = k]
<1>1. ASSUME call' = call PROVE Goal
  BY <1>1 DEF CallsShape, GoesOn, Permitted
<1>2. ASSUME NEW pc, call[s].pc # "idle", pc # "idle",
             Becomes([call[s] EXCEPT !.pc = pc]),
             Permitted(s) \/ pc \notin {"starting", "executing", "waiting", "completing"}
      PROVE  Goal
  <2> DEFINE k == [call[s] EXCEPT !.pc = pc]
  <2>1. /\ k = [f \in CallLocals |-> k[f]] /\ k.inv = call[s].inv /\ k.pc = pc
        /\ k.attempts = call[s].attempts
    BY DEF CallsShape, CallLocals
  <2>2. Becomes(k)
    BY <1>2
  <2> HIDE DEF k
  <2> QED BY <1>2, <2>1, <2>2, OneCallGoesOn
<1>a. ASSUME NEW pc, NEW copy, call[s].pc # "idle", pc # "idle",
             Becomes([call[s] EXCEPT !.pc = pc, !.copy = copy]),
             Permitted(s) \/ pc \notin {"starting", "executing", "waiting", "completing"}
      PROVE  Goal
  <2> DEFINE k == [call[s] EXCEPT !.pc = pc, !.copy = copy]
  <2>1. /\ k = [f \in CallLocals |-> k[f]] /\ k.inv = call[s].inv /\ k.pc = pc
        /\ k.attempts = call[s].attempts
    BY DEF CallsShape, CallLocals
  <2>2. Becomes(k)
    BY <1>a
  <2> HIDE DEF k
  <2> QED BY <1>a, <2>1, <2>2, OneCallGoesOn
<1>b. ASSUME NEW pc, NEW outcome, call[s].pc # "idle", pc # "idle",
             Becomes([call[s] EXCEPT !.pc = pc, !.outcome = outcome]),
             Permitted(s) \/ pc \notin {"starting", "executing", "waiting", "completing"}
      PROVE  Goal
  <2> DEFINE k == [call[s] EXCEPT !.pc = pc, !.outcome = outcome]
  <2>1. /\ k = [f \in CallLocals |-> k[f]] /\ k.inv = call[s].inv /\ k.pc = pc
        /\ k.attempts = call[s].attempts
    BY DEF CallsShape, CallLocals
  <2>2. Becomes(k)
    BY <1>b
  <2> HIDE DEF k
  <2> QED BY <1>b, <2>1, <2>2, OneCallGoesOn
<1>3. ASSUME Broker!StartAttempt(s) PROVE Goal
  <2> DEFINE k == [call[s] EXCEPT !.pc = "waiting", !.attempts = call[s].attempts + 1]
  <2>1. call[s].pc = "executing" /\ Becomes(k)
    BY <1>3 DEF Broker!StartAttempt, Broker!Current
  <2>2. k = [f \in CallLocals |-> k[f]] /\ k.inv = call[s].inv /\ k.pc = "waiting"
    BY DEF CallsShape, CallLocals
  <2>3. Permitted(s)
    BY <2>1 DEF Permitted
  <2> QED BY <2>1, <2>2, <2>3, OneCallGoesOn
<1> HIDE DEF Goal
<1>4. ASSUME Broker!InsertRequested(s) PROVE Goal
  <2>1. /\ call[s].pc = "inserting"
        /\ \/ Becomes([call[s] EXCEPT !.pc = "deciding", !.copy = "REQUESTED"])
           \/ Becomes([call[s] EXCEPT !.pc = "rereading"])
    BY <1>4 DEF Broker!InsertRequested
  <2> HIDE DEF Becomes
  <2>2. CASE Becomes([call[s] EXCEPT !.pc = "deciding", !.copy = "REQUESTED"])
    BY <1>a, <2>1, <2>2
  <2>3. CASE Becomes([call[s] EXCEPT !.pc = "rereading"])
    BY <1>2, <2>1, <2>3
  <2> QED BY <2>1, <2>2, <2>3
<1>5. ASSUME Broker!InsertFails(s) PROVE Goal
  <2>1. call[s].pc = "inserting" /\ Becomes([call[s] EXCEPT !.pc = "rereading"])
    BY <1>5 DEF Broker!InsertFails
  <2> QED BY <1>2, <1>a, <1>b, <2>1
<1>6. ASSUME Broker!Reread(s) PROVE Goal
  <2>1. /\ call[s].pc = "rereading"
        /\ \E pc \in {"deciding", "returned"} :
             Becomes([call[s] EXCEPT !.pc = pc, !.copy = status[call[s].inv]])
    BY <1>6 DEF Broker!Reread, Broker!Return
  <2> QED BY <1>2, <1>a, <1>b, <2>1
<1>7. ASSUME Broker!StartRunning(s) PROVE Goal
  <2>1. /\ call[s].pc = "starting"
        /\ Becomes([call[s] EXCEPT !.pc = "executing", !.copy = "RUNNING"])
    BY <1>7 DEF Broker!StartRunning
  <2> QED BY <1>2, <1>a, <1>b, <2>1 DEF Permitted
<1>8. ASSUME NEW retryable,
             \/ Broker!RetryOrConclude(s, retryable)
             \/ \E outcome \in {"SUCCEEDED", "FAILED"} : Broker!Conclude(s, outcome),
             Broker!Awaited(s)
      PROVE  Goal
  <2>1. call[s].pc = "waiting" /\ Permitted(s)
    BY <1>8 DEF Broker!Awaited, Permitted
  <2>2. \/ Becomes([call[s] EXCEPT !.pc = "executing"])
        \/ \E outcome : Becomes([call[s] EXCEPT !.pc = "completing", !.outcome = outcome])
    BY <1>8 DEF Broker!RetryOrConclude, Broker!Conclude
  <2> QED BY <1>2, <1>a, <1>b, <2>1, <2>2
<1>9. ASSUME Broker!AttemptTimesOut(s) \/ Broker!ExecutorStep(s) PROVE Goal
  BY <1>1, <1>8, <1>9 DEF Broker!AttemptTimesOut, Broker!ExecutorStep,
     Broker!AttemptAnswers, Broker!AttemptThrows, Broker!LeftoverEnds
<1>10. ASSUME Broker!Complete(s) \/ Broker!Deny(s) PROVE Goal
  <2>1. /\ call[s].pc \in {"completing", "deciding"}
        /\ \E copy : Becomes([call[s] EXCEPT !.pc = "returned", !.copy = copy])
    <3>1. CASE Broker!Complete(s)
      BY <3>1 DEF Broker!Complete, Broker!Return
    <3>2. CASE Broker!Deny(s)
      BY <3>2 DEF Broker!Deny, Broker!Return
    <3> QED BY <1>10, <3>1, <3>2
  <2>3. PICK copy : Becomes([call[s] EXCEPT !.pc = "returned", !.copy = copy])
    BY <2>1
  <2> HIDE DEF Becomes
  <2> QED BY <1>a, <2>1, <2>3
<1>11. Goal
  BY <1>3, <1>4, <1>5, <1>6, <1>7, <1>9, <1>10 DEF CallStep
<1> QED BY <1>11 DEF Goal

\* Whatever goes on keeps what the rest was asked for.
LEMMA GoingOnKeeps ==
  ASSUME SessionInv, CallsShape', \A s \in Sessions : GoesOn(s),
         UNCHANGED <<run, history, registry, tasks, session>>
  PROVE  SessionInv'
<1>1. Shapes'
  BY DEF SessionInv, Shapes, SessionsShape
<1>2. RunsLoadTheirChannel'
  BY DEF SessionInv, RunsLoadTheirChannel
<1>3. TasksInScope'
  BY DEF SessionInv, TasksInScope, InHistory
<1>4. CopiesHold'
  BY DEF SessionInv, CopiesHold, InHistory
<1>5. RequestsInScope'
  BY DEF SessionInv, RequestsInScope, GoesOn
<1>6. OneByName'
  BY DEF SessionInv, OneByName
<1>7. PermittedAsGranted'
  <2>1. \A s \in Sessions : Permitted(s)' => Permitted(s)
    BY DEF GoesOn
  <2> QED BY <2>1 DEF SessionInv, PermittedAsGranted, allowed_tools, ContentOf, Resolved
<1>8. ResultsKept'
  BY DEF SessionInv, ResultsKept, ContentOf
<1> QED BY <1>1, <1>2, <1>3, <1>4, <1>5, <1>6, <1>7, <1>8 DEF SessionInv

LEMMA SessionCallStep ==
  ASSUME SessionInv, NEW s \in Sessions, CallStep(s)
  PROVE  SessionInv'
<1>1. CallsShape
  BY DEF SessionInv, Shapes
<1>2. UNCHANGED <<run, history, registry, tasks, session>>
  BY DEF CallStep
<1> QED BY <1>1, <1>2, CallsGoOn, GoingOnKeeps

-----------------------------------------------------------------------------
(* The steps of the rest *)

\* A result stays one of its task while neither they nor the workspace change.
LEMMA ResultsStay ==
  ASSUME ResultsKept, UNCHANGED <<history, tasks>>,
         \A t \in Sessions : /\ session'[t].result = session[t].result
                             /\ session'[t].asked = session[t].asked
  PROVE  ResultsKept'
BY DEF ResultsKept, ContentOf

\* What was allowed stays granted if nothing is permitted that was not.
LEMMA GrantsStay ==
  ASSUME PermittedAsGranted, UNCHANGED <<history, registry>>,
         \A t \in Sessions : Permitted(t)' =>
           /\ Permitted(t) /\ session'[t].task = session[t].task
           /\ session'[t].context = session[t].context /\ session'[t].tool = session[t].tool
  PROVE  PermittedAsGranted'
<1>1. Resolved' = Resolved
  BY DEF Resolved
<1>2. ASSUME NEW t \in Sessions, Permitted(t)'
      PROVE  /\ Tool \in ContentOf(session[t].task.context)'.tools
             /\ Tool \in ContentOf(session[t].context)'.tools
             /\ Resolved' = {session'[t].tool}
  <2>1. /\ session'[t].task = session[t].task
        /\ session'[t].context = session[t].context /\ session'[t].tool = session[t].tool
        /\ Tool \in ContentOf(session[t].task.context).tools
        /\ Tool \in ContentOf(session[t].context).tools
        /\ Resolved = {session[t].tool}
    BY <1>2 DEF PermittedAsGranted, allowed_tools
  <2> QED BY <1>1, <2>1 DEF ContentOf
<1> QED BY <1>2 DEF PermittedAsGranted, allowed_tools

LEMMA SessionStep == SessionInv /\ [Next]_vars => SessionInv'
<1> SUFFICES ASSUME SessionInv, [Next]_vars PROVE SessionInv'
  OBVIOUS
<1> USE ContentsAssumption
<1>a. /\ Shapes /\ RunsLoadTheirChannel /\ TasksInScope /\ CopiesHold
      /\ RequestsInScope /\ OneByName /\ PermittedAsGranted /\ ResultsKept
  BY DEF SessionInv
<1>b. CallsShape /\ SessionsShape
  BY <1>a DEF Shapes
<1>1. ASSUME NEW r \in Runs, NEW new \in RunRow,
             run' = [run EXCEPT ![r] = new],
             UNCHANGED <<history, registry, tasks, session, call>>,
             new.channel = run[r].channel, run[r].state # "RUNNING_STEP",
             new.loaded # NoContext => new.loaded.channel = new.channel,
             new.state = "RUNNING_STEP" => new.snapshot.channel = new.channel
      PROVE  SessionInv'
  <2>1. Shapes'
    BY <1>a, <1>1 DEF Shapes, SessionsShape, CallsShape
  <2>2. \A q \in Runs :
          /\ run'[q].channel = run[q].channel
          /\ run[q].state = "RUNNING_STEP" => run'[q] = run[q]
    BY <1>a, <1>1 DEF Shapes
  <2>3. RunsLoadTheirChannel'
    BY <1>a, <1>1 DEF Shapes, RunsLoadTheirChannel
  <2>4. TasksInScope' /\ CopiesHold' /\ RequestsInScope'
    BY <1>a, <1>1, <2>2 DEF TasksInScope, CopiesHold, RequestsInScope, InHistory
  <2>5. OneByName' /\ PermittedAsGranted' /\ ResultsKept'
    BY <1>a, <1>1 DEF OneByName, PermittedAsGranted, ResultsKept, Permitted,
       allowed_tools, ContentOf, Resolved
  <2> QED BY <2>1, <2>3, <2>4, <2>5 DEF SessionInv
<1>p. ASSUME NEW r \in Runs,
             \/ EnterPreflight(r) \/ LoadChannelContext(r)
             \/ CompletePreflight(r) \/ FailPreflight(r)
      PROVE  SessionInv'
  <2>1. /\ run[r] \in RunRow
        /\ run[r] = [channel |-> run[r].channel, state |-> run[r].state,
                     loaded |-> run[r].loaded, snapshot |-> run[r].snapshot]
        /\ run[r].loaded # NoContext => run[r].loaded.channel = run[r].channel
    BY <1>a DEF Shapes, RunsLoadTheirChannel, RunRow
  <2>2. CASE EnterPreflight(r)
    <3> DEFINE new == [run[r] EXCEPT !.state = "PREFLIGHT"]
    <3>1. /\ new \in RunRow /\ new.channel = run[r].channel /\ new.loaded = run[r].loaded
          /\ new.state = "PREFLIGHT"
      BY <2>1 DEF RunRow, RunStates
    <3>2. /\ run' = [run EXCEPT ![r] = new] /\ run[r].state = "QUEUED"
          /\ UNCHANGED <<history, registry, tasks, session, call>>
      BY <2>2 DEF EnterPreflight, brokerVars
    <3> HIDE DEF new
    <3> QED BY <1>1, <2>1, <3>1, <3>2
  <2>3. CASE LoadChannelContext(r)
    <3> DEFINE new == [run[r] EXCEPT !.loaded = Loaded(run[r].channel)]
    <3>1. Loaded(run[r].channel) \in AnyContext
          /\ Loaded(run[r].channel).channel = run[r].channel
      BY <1>a, <2>1 DEF Loaded, AnyContext, Shapes, RunRow
    <3>2. /\ new \in RunRow /\ new.channel = run[r].channel
          /\ new.loaded = Loaded(run[r].channel) /\ new.state = run[r].state
      BY <2>1, <3>1 DEF RunRow
    <3>3. /\ run' = [run EXCEPT ![r] = new] /\ run[r].state = "PREFLIGHT"
          /\ UNCHANGED <<history, registry, tasks, session, call>>
      BY <2>3 DEF LoadChannelContext, brokerVars
    <3> HIDE DEF new
    <3> QED BY <1>1, <2>1, <3>1, <3>2, <3>3
  <2>4. CASE CompletePreflight(r)
    <3> DEFINE new == [run[r] EXCEPT !.state = "RUNNING_STEP", !.snapshot = run[r].loaded]
    <3>1. /\ new \in RunRow /\ new.channel = run[r].channel /\ new.loaded = run[r].loaded
          /\ new.snapshot = run[r].loaded
      BY <2>1 DEF RunRow, RunStates
    <3>2. /\ run' = [run EXCEPT ![r] = new]
          /\ run[r].state = "PREFLIGHT" /\ run[r].loaded # NoContext
          /\ UNCHANGED <<history, registry, tasks, session, call>>
      BY <2>4 DEF CompletePreflight, brokerVars
    <3> HIDE DEF new
    <3> QED BY <1>1, <2>1, <3>1, <3>2
  <2>5. CASE FailPreflight(r)
    <3>1. PICK state \in Failures :
            run' = [run EXCEPT ![r] = [run[r] EXCEPT !.state = state, !.loaded = NoContext]]
      BY <2>5, ZenonT(40) DEF FailPreflight
    <3> DEFINE new == [run[r] EXCEPT !.state = state, !.loaded = NoContext]
    <3>2. /\ new \in RunRow /\ new.channel = run[r].channel /\ new.loaded = NoContext
          /\ new.state # "RUNNING_STEP"
      BY <2>1 DEF RunRow, RunStates, AnyContext, NoContext
    <3>3. /\ run' = [run EXCEPT ![r] = new] /\ run[r].state = "PREFLIGHT"
          /\ UNCHANGED <<history, registry, tasks, session, call>>
      BY <2>5, <3>1 DEF FailPreflight, brokerVars
    <3> HIDE DEF new
    <3> QED BY <1>1, <3>2, <3>3
  <2> QED BY <1>p, <2>2, <2>3, <2>4, <2>5
\* An edit adds to the history, and what was loaded before is still there.
<1>2. ASSUME NEW ch \in Channels, Edit(ch) PROVE SessionInv'
  <2>1. UNCHANGED <<run, registry, tasks, session, call>>
    BY <1>2 DEF Edit, brokerVars
  <2>2. PICK content \in Contents : history' = [history EXCEPT ![ch] = Append(@, content)]
    BY <1>2 DEF Edit
  <2>3. Shapes'
    BY <1>a, <2>1, <2>2 DEF Shapes, SessionsShape, CallsShape
  <2>4. \A context : InHistory(context) =>
          InHistory(context)' /\ ContentOf(context)' = ContentOf(context)
    BY <1>a, <2>2 DEF Shapes, InHistory, ContentOf
  <2>5. TasksInScope' /\ CopiesHold'
    BY <1>a, <2>1, <2>4 DEF TasksInScope, CopiesHold
  <2>6. RunsLoadTheirChannel' /\ RequestsInScope' /\ OneByName'
    BY <1>a, <2>1 DEF RunsLoadTheirChannel, RequestsInScope, OneByName
  <2>7. PermittedAsGranted'
    <3> SUFFICES ASSUME NEW s \in Sessions, Permitted(s)'
                 PROVE  /\ Tool \in ContentOf(session[s].task.context)'.tools
                        /\ Tool \in ContentOf(session[s].context)'.tools
                        /\ Resolved' = {session[s].tool}
      BY <2>1 DEF PermittedAsGranted, allowed_tools, ContentOf, Resolved
    <3>1. Permitted(s) /\ call[s].pc # "idle"
      BY <1>a, <2>1 DEF Permitted, RequestsInScope
    <3>2. InHistory(session[s].task.context) /\ InHistory(session[s].context)
      <4>1. /\ session[s].task \in tasks /\ call[s].inv \in Runs
            /\ session[s].context.channel = run[call[s].inv].channel
        BY <1>a, <3>1 DEF RequestsInScope
      <4>2. run[call[s].inv].channel \in Channels
        BY <1>a, <4>1 DEF Shapes, RunRow
      <4>3. session[s].context # NoContext
        BY <4>1, <4>2 DEF NoContext
      <4> QED BY <1>a, <4>1, <4>3 DEF TasksInScope, CopiesHold
    <3> QED BY <1>a, <2>1, <2>4, <3>1, <3>2 DEF PermittedAsGranted, allowed_tools, Resolved
  <2>8. ResultsKept'
    BY <1>a, <2>1, <2>4 DEF ResultsKept, TasksInScope, ContentOf
  <2> QED BY <2>3, <2>5, <2>6, <2>7, <2>8 DEF SessionInv
\* A tool that was resolved keeps its definition, for its name is taken.
<1>3. ASSUME NEW d \in Definitions, register(d) PROVE SessionInv'
  <2>1. UNCHANGED <<run, history, tasks, session, call>>
    BY <1>3 DEF register, brokerVars
  <2>2. /\ Shapes' /\ RunsLoadTheirChannel' /\ TasksInScope' /\ CopiesHold'
        /\ RequestsInScope' /\ ResultsKept'
    <3>1. Shapes'
      BY <1>a, <2>1 DEF Shapes, SessionsShape, CallsShape
    <3>2. RunsLoadTheirChannel' /\ RequestsInScope'
      BY <1>a, <2>1 DEF RunsLoadTheirChannel, RequestsInScope
    <3>3. TasksInScope' /\ CopiesHold'
      BY <1>a, <2>1 DEF TasksInScope, CopiesHold, InHistory
    <3>4. ResultsKept'
      BY <1>a, <2>1 DEF ResultsKept, ContentOf
    <3> QED BY <3>1, <3>2, <3>3, <3>4
  <2>3. OneByName'
    BY <1>a, <1>3 DEF OneByName, register
  <2>4. Resolved # {} => Resolved' = Resolved
    BY <1>3 DEF Resolved, register
  <2>5. PermittedAsGranted'
    BY <1>a, <2>1, <2>4 DEF PermittedAsGranted, Permitted, allowed_tools, ContentOf
  <2> QED BY <2>2, <2>3, <2>5 DEF SessionInv
<1>4. ASSUME NEW s \in Sessions, NEW r \in Runs, ReadRun(s, r) PROVE SessionInv'
  <2>1. /\ UNCHANGED <<run, history, registry, tasks, call>> /\ call[s].pc = "idle"
        /\ session' = [session EXCEPT ![s] =
                         [session[s] EXCEPT !.run = r, !.state = run[r].state]]
    BY <1>4 DEF ReadRun, Free, brokerVars
  <2>3. /\ Shapes'
        /\ \A t \in Sessions \ {s} : session'[t] = session[t]
        /\ \A t \in Sessions :
             /\ session'[t].context = session[t].context
             /\ session'[t].asked = session[t].asked
             /\ session'[t].result = session[t].result
             /\ session'[t].task = session[t].task
             /\ session'[t].input = session[t].input
             /\ session'[t].tool = session[t].tool
        /\ session'[s].run = r
        /\ session'[s].state = run[r].state
    <3>1. SessionsShape'
      BY <1>b, <2>1 DEF SessionsShape, Locals
    <3>2. \A t \in Sessions \ {s} : session'[t] = session[t]
      BY <1>b, <2>1 DEF SessionsShape
    <3>3. /\ session'[s].context = session[s].context
          /\ session'[s].asked = session[s].asked
          /\ session'[s].result = session[s].result
          /\ session'[s].task = session[s].task
          /\ session'[s].input = session[s].input
          /\ session'[s].tool = session[s].tool
          /\ session'[s].run = r
          /\ session'[s].state = run[r].state
      <4>1. session'[s] = [session[s] EXCEPT !.run = r, !.state = run[r].state]
        BY <1>b, <2>1 DEF SessionsShape
      <4>2. session[s] = [f \in Locals |-> session[s][f]]
        BY <1>b DEF SessionsShape
      <4> QED BY <4>1, <4>2 DEF Locals
    <3>4. CallsShape'
      BY <1>b, <2>1 DEF CallsShape
    <3> QED BY <1>a, <2>1, <3>1, <3>2, <3>3, <3>4 DEF Shapes
  <2>4. TasksInScope' /\ RunsLoadTheirChannel' /\ OneByName'
    BY <1>a, <2>1, <2>3 DEF TasksInScope, RunsLoadTheirChannel, OneByName, InHistory
  <2>5. CopiesHold'
    BY <1>a, <2>1, <2>3 DEF CopiesHold, InHistory
  <2>6. RequestsInScope'
    BY <1>a, <2>1, <2>3 DEF RequestsInScope
  <2>7. PermittedAsGranted'
    BY <1>a, <2>1, <2>3, GrantsStay DEF Permitted
  <2>8. ResultsKept'
    BY <1>a, <2>1, <2>3, ResultsStay
  <2> QED BY <2>3, <2>4, <2>5, <2>6, <2>7, <2>8 DEF SessionInv
<1>5. ASSUME NEW s \in Sessions, NEW ch \in Channels, LoadContext(s, ch) PROVE SessionInv'
  <2>1. /\ UNCHANGED <<run, history, registry, tasks, call>> /\ call[s].pc = "idle"
        /\ session' = [session EXCEPT ![s] = [session[s] EXCEPT !.context = Loaded(ch)]]
    BY <1>5 DEF LoadContext, Free, brokerVars
  <2>3. /\ Shapes'
        /\ \A t \in Sessions \ {s} : session'[t] = session[t]
        /\ \A t \in Sessions :
             /\ session'[t].run = session[t].run
             /\ session'[t].state = session[t].state
             /\ session'[t].asked = session[t].asked
             /\ session'[t].result = session[t].result
             /\ session'[t].task = session[t].task
             /\ session'[t].input = session[t].input
             /\ session'[t].tool = session[t].tool
        /\ session'[s].context = Loaded(ch)
    <3>1. SessionsShape'
      BY <1>b, <2>1 DEF SessionsShape, Locals
    <3>2. \A t \in Sessions \ {s} : session'[t] = session[t]
      BY <1>b, <2>1 DEF SessionsShape
    <3>3. /\ session'[s].run = session[s].run
          /\ session'[s].state = session[s].state
          /\ session'[s].asked = session[s].asked
          /\ session'[s].result = session[s].result
          /\ session'[s].task = session[s].task
          /\ session'[s].input = session[s].input
          /\ session'[s].tool = session[s].tool
          /\ session'[s].context = Loaded(ch)
      <4>1. session'[s] = [session[s] EXCEPT !.context = Loaded(ch)]
        BY <1>b, <2>1 DEF SessionsShape
      <4>2. session[s] = [f \in Locals |-> session[s][f]]
        BY <1>b DEF SessionsShape
      <4> QED BY <4>1, <4>2 DEF Locals
    <3>4. CallsShape'
      BY <1>b, <2>1 DEF CallsShape
    <3> QED BY <1>a, <2>1, <3>1, <3>2, <3>3, <3>4 DEF Shapes
  <2>4. InHistory(Loaded(ch))
    BY <1>a DEF InHistory, Loaded, Shapes
  <2>5. TasksInScope' /\ RunsLoadTheirChannel' /\ OneByName'
    BY <1>a, <2>1, <2>3 DEF TasksInScope, RunsLoadTheirChannel, OneByName, InHistory
  <2>6. CopiesHold'
    BY <1>a, <2>1, <2>3, <2>4 DEF CopiesHold, InHistory
  <2>7. RequestsInScope'
    BY <1>a, <2>1, <2>3 DEF RequestsInScope
  <2>8. ~Permitted(s)
    BY <1>a, <2>1 DEF RequestsInScope, Permitted
  <2>9. PermittedAsGranted'
    <3>1. \A t \in Sessions : Permitted(t)' => Permitted(t) /\ t # s
      BY <2>1, <2>8 DEF Permitted
    <3> QED BY <1>a, <2>1, <2>3, <3>1, GrantsStay
  <2>10. ResultsKept'
    BY <1>a, <2>1, <2>3, ResultsStay
  <2> QED BY <2>3, <2>5, <2>6, <2>7, <2>9, <2>10 DEF SessionInv
\* The task of a session is its first, so that its id is new.
<1>6. ASSUME NEW s \in Sessions, ExecuteAgent(s) PROVE SessionInv'
  <2> DEFINE task == createTask(s)
  <2>1. /\ UNCHANGED <<run, history, registry, call>>
        /\ session' = [session EXCEPT ![s] = [session[s] EXCEPT !.asked = task]]
        /\ tasks' = tasks \cup {task} /\ session[s].asked = NoTask
        /\ session[s].state = "RUNNING_STEP"
        /\ session[s].context.channel = run[session[s].run].channel
    BY <1>6 DEF ExecuteAgent, assertCanExecute, ChannelOf, brokerVars
  <2>2. /\ task.task_id = s /\ task.run_id = session[s].run
        /\ task.channel_id = run[session[s].run].channel
        /\ task.context = session[s].context
    BY DEF createTask, ChannelOf
  <2> HIDE DEF task
  <2>4. /\ Shapes'
        /\ \A t \in Sessions \ {s} : session'[t] = session[t]
        /\ \A t \in Sessions :
             /\ session'[t].run = session[t].run
             /\ session'[t].state = session[t].state
             /\ session'[t].context = session[t].context
             /\ session'[t].result = session[t].result
             /\ session'[t].task = session[t].task
             /\ session'[t].input = session[t].input
             /\ session'[t].tool = session[t].tool
        /\ session'[s].asked = task
    <3>1. SessionsShape'
      BY <1>b, <2>1 DEF SessionsShape, Locals
    <3>2. \A t \in Sessions \ {s} : session'[t] = session[t]
      BY <1>b, <2>1 DEF SessionsShape
    <3>3. /\ session'[s].run = session[s].run
          /\ session'[s].state = session[s].state
          /\ session'[s].context = session[s].context
          /\ session'[s].result = session[s].result
          /\ session'[s].task = session[s].task
          /\ session'[s].input = session[s].input
          /\ session'[s].tool = session[s].tool
          /\ session'[s].asked = task
      <4>1. session'[s] = [session[s] EXCEPT !.asked = task]
        BY <1>b, <2>1 DEF SessionsShape
      <4>2. session[s] = [f \in Locals |-> session[s][f]]
        BY <1>b DEF SessionsShape
      <4> QED BY <4>1, <4>2 DEF Locals
    <3>4. CallsShape'
      BY <1>b, <2>1 DEF CallsShape
    <3> QED BY <1>a, <2>1, <3>1, <3>2, <3>3, <3>4 DEF Shapes
  <2>5. session[s].run \in Runs /\ session[s].context.channel \in Channels
    BY <1>a, <2>1 DEF CopiesHold, Shapes, RunRow
  <2>6. InHistory(session[s].context)
    BY <1>a, <2>5 DEF CopiesHold, NoContext
  <2>7. \A t \in tasks : t.task_id # s
    BY <1>a, <2>1 DEF TasksInScope, NoTask
  <2>8. TasksInScope'
    <3> SUFFICES ASSUME NEW t \in tasks'
                 PROVE  /\ t.run_id \in Runs /\ t.channel_id = run[t.run_id].channel
                        /\ t.context.channel = t.channel_id /\ InHistory(t.context)
                        /\ t.task_id \in Sessions /\ session'[t.task_id].asked = t
      BY <2>1 DEF TasksInScope, InHistory
    <3>1. CASE t \in tasks
      BY <1>a, <2>4, <2>7, <3>1 DEF TasksInScope
    <3>2. CASE t = task
      BY <2>1, <2>2, <2>4, <2>5, <2>6, <3>2
    <3> QED BY <2>1, <3>1, <3>2
  <2>9. RunsLoadTheirChannel' /\ OneByName'
    BY <1>a, <2>1 DEF RunsLoadTheirChannel, OneByName
  <2>10. CopiesHold'
    BY <1>a, <2>1, <2>4 DEF CopiesHold, InHistory
  <2>11. RequestsInScope'
    BY <1>a, <2>1, <2>4 DEF RequestsInScope
  <2>12. PermittedAsGranted'
    BY <1>a, <2>1, <2>4, GrantsStay DEF Permitted
  <2>13. ResultsKept'
    <3>1. session[s].result = NoResult
      BY <1>a, <2>1, <2>7 DEF ResultsKept, TasksInScope, NoTask
    <3> SUFFICES ASSUME NEW t \in Sessions, session'[t].result # NoResult
                 PROVE  /\ session'[t].asked \in tasks'
                        /\ session'[t].result.task_id = session'[t].asked.task_id
                        /\ session'[t].result.evidence_refs
                             \subseteq ContentOf(session'[t].asked.context).documents
      BY <2>1 DEF ResultsKept, ContentOf
    <3>2. t # s /\ session'[t] = session[t]
      BY <2>4, <3>1
    <3> QED BY <1>a, <2>1, <3>2 DEF ResultsKept
  <2> QED BY <2>4, <2>8, <2>9, <2>10, <2>11, <2>12, <2>13 DEF SessionInv
\* A result of the id that was asked for is of the task itself.
<1>7. ASSUME NEW s \in Sessions, ProviderAnswers(s) PROVE SessionInv'
  <2>1. UNCHANGED <<run, history, registry, tasks, call>> /\ session[s].asked # NoTask
    BY <1>7 DEF ProviderAnswers, brokerVars
  <2>2. PICK answered \in tasks :
          /\ answered.task_id = session[s].asked.task_id
          /\ session' = [session EXCEPT ![s] = [session[s] EXCEPT !.result =
               [task_id |-> answered.task_id, evidence_refs |-> evidence_refs(answered)]]]
    BY <1>7 DEF ProviderAnswers, validateAgentResult
  <2> DEFINE result ==
        [task_id |-> answered.task_id, evidence_refs |-> evidence_refs(answered)]
  <2>3. /\ result.task_id = session[s].asked.task_id
        /\ result.evidence_refs \subseteq ContentOf(session[s].asked.context).documents
    <3>1. answered = session[s].asked
      BY <1>a, <2>1, <2>2 DEF TasksInScope, CopiesHold
    <3> QED BY <3>1 DEF evidence_refs
  <2> HIDE DEF result
  <2>5. /\ Shapes'
        /\ \A t \in Sessions \ {s} : session'[t] = session[t]
        /\ \A t \in Sessions :
             /\ session'[t].run = session[t].run
             /\ session'[t].state = session[t].state
             /\ session'[t].context = session[t].context
             /\ session'[t].asked = session[t].asked
             /\ session'[t].task = session[t].task
             /\ session'[t].input = session[t].input
             /\ session'[t].tool = session[t].tool
        /\ session'[s].result = result
    <3>1. SessionsShape'
      BY <1>b, <2>2 DEF SessionsShape, Locals
    <3>2. \A t \in Sessions \ {s} : session'[t] = session[t]
      BY <1>b, <2>2 DEF SessionsShape
    <3>3. /\ session'[s].run = session[s].run
          /\ session'[s].state = session[s].state
          /\ session'[s].context = session[s].context
          /\ session'[s].asked = session[s].asked
          /\ session'[s].task = session[s].task
          /\ session'[s].input = session[s].input
          /\ session'[s].tool = session[s].tool
          /\ session'[s].result = result
      <4>1. session'[s] = [session[s] EXCEPT !.result = result]
        BY <1>b, <2>2 DEF SessionsShape, result
      <4>2. session[s] = [f \in Locals |-> session[s][f]]
        BY <1>b DEF SessionsShape
      <4> QED BY <4>1, <4>2 DEF Locals
    <3>4. CallsShape'
      BY <1>b, <2>1 DEF CallsShape
    <3> QED BY <1>a, <2>1, <3>1, <3>2, <3>3, <3>4 DEF Shapes
  <2>6. ResultsKept'
    <3> SUFFICES ASSUME NEW t \in Sessions, session'[t].result # NoResult
                 PROVE  /\ session'[t].asked \in tasks
                        /\ session'[t].result.task_id = session'[t].asked.task_id
                        /\ session'[t].result.evidence_refs
                             \subseteq ContentOf(session'[t].asked.context).documents
      BY <2>1 DEF ResultsKept, ContentOf
    <3>1. CASE t = s
      BY <1>a, <2>1, <2>3, <2>5, <3>1 DEF CopiesHold
    <3>2. CASE t # s
      BY <1>a, <2>5, <3>2 DEF ResultsKept
    <3> QED BY <3>1, <3>2
  <2>7. TasksInScope' /\ RunsLoadTheirChannel' /\ OneByName'
    BY <1>a, <2>1, <2>5 DEF TasksInScope, RunsLoadTheirChannel, OneByName, InHistory
  <2>8. CopiesHold'
    BY <1>a, <2>1, <2>5 DEF CopiesHold, InHistory
  <2>9. RequestsInScope'
    BY <1>a, <2>1, <2>5 DEF RequestsInScope
  <2>10. PermittedAsGranted'
    BY <1>a, <2>1, <2>5, GrantsStay DEF Permitted
  <2> QED BY <2>5, <2>6, <2>7, <2>8, <2>9, <2>10 DEF SessionInv
\* A request is compared before its call begins.
<1>8. ASSUME NEW s \in Sessions, RequestTool(s) PROVE SessionInv'
  <2>1. /\ UNCHANGED <<run, history, registry, tasks>>
        /\ call[s].pc = "idle"
    BY <1>8 DEF RequestTool, Free
  <2>2. PICK task \in tasks, input \in Inputs :
          /\ session[s].run = task.run_id
          /\ run[session[s].run].channel = session[s].context.channel
          /\ session[s].state = "RUNNING_STEP"
          /\ session' = [session EXCEPT ![s] =
                           [session[s] EXCEPT !.task = task, !.input = input]]
    <3>1. \E task \in tasks, input \in Inputs :
            /\ assertTrustedScope(s, task)
            /\ assertRunnableState(s)
            /\ session' = [session EXCEPT ![s] =
                             [session[s] EXCEPT !.task = task, !.input = input]]
      BY <1>8, ZenonT(40) DEF RequestTool
    <3> QED BY <3>1 DEF assertTrustedScope, assertRunnableState, ChannelOf
  <2>3. \/ call' = [call EXCEPT ![s] = [Broker!Idle EXCEPT !.pc = "inserting",
                                                          !.inv = session[s].run]]
        \/ call' = [call EXCEPT ![s] = [Broker!Idle EXCEPT !.pc = "returned",
                             !.inv = session[s].run, !.copy = status[session[s].run]]]
    <3>1. CASE Broker!ReturnExisting(s, session[s].run)
      BY <3>1 DEF Broker!ReturnExisting
    <3>2. CASE Broker!FindNothing(s, session[s].run)
      BY <3>2 DEF Broker!FindNothing
    <3> QED BY <1>8, <3>1, <3>2 DEF RequestTool
  <2>5. /\ CallsShape' /\ \A t \in Sessions \ {s} : call'[t] = call[t]
        /\ call'[s].pc \in {"returned", "inserting"} /\ call'[s].attempts = 0
        /\ call'[s].inv = session[s].run
    <3>1. PICK k :
            /\ call' = [call EXCEPT ![s] = k] /\ k = [f \in CallLocals |-> k[f]]
            /\ k.pc \in {"returned", "inserting"} /\ k.attempts = 0
            /\ k.inv = session[s].run
      <4> DEFINE k1 == [Broker!Idle EXCEPT !.pc = "inserting", !.inv = session[s].run]
                 k2 == [Broker!Idle EXCEPT !.pc = "returned", !.inv = session[s].run,
                                           !.copy = status[session[s].run]]
      <4>1. /\ k1 = [f \in CallLocals |-> k1[f]] /\ k1.pc = "inserting"
            /\ k1.attempts = 0 /\ k1.inv = session[s].run
        BY DEF Broker!Idle, CallLocals
      <4>2. /\ k2 = [f \in CallLocals |-> k2[f]] /\ k2.pc = "returned"
            /\ k2.attempts = 0 /\ k2.inv = session[s].run
        BY DEF Broker!Idle, CallLocals
      <4>3. call' = [call EXCEPT ![s] = k1] \/ call' = [call EXCEPT ![s] = k2]
        BY <2>3
      <4> HIDE DEF k1, k2
      <4> QED BY <4>1, <4>2, <4>3
    <3> QED BY <1>b, <3>1, OneCallChanges
  <2>7. /\ Shapes'
        /\ \A t \in Sessions \ {s} : session'[t] = session[t]
        /\ \A t \in Sessions :
             /\ session'[t].run = session[t].run
             /\ session'[t].state = session[t].state
             /\ session'[t].context = session[t].context
             /\ session'[t].asked = session[t].asked
             /\ session'[t].result = session[t].result
             /\ session'[t].tool = session[t].tool
        /\ session'[s].task = task
        /\ session'[s].input = input
    <3>1. SessionsShape'
      BY <1>b, <2>2, ZenonT(40) DEF SessionsShape, Locals
    <3>2. \A t \in Sessions \ {s} : session'[t] = session[t]
      BY <1>b, <2>2 DEF SessionsShape
    <3>3. /\ session'[s].run = session[s].run
          /\ session'[s].state = session[s].state
          /\ session'[s].context = session[s].context
          /\ session'[s].asked = session[s].asked
          /\ session'[s].result = session[s].result
          /\ session'[s].tool = session[s].tool
          /\ session'[s].task = task
          /\ session'[s].input = input
      <4>1. session'[s] = [session[s] EXCEPT !.task = task, !.input = input]
        BY <1>b, <2>2 DEF SessionsShape
      <4>2. session[s] = [f \in Locals |-> session[s][f]]
        BY <1>b DEF SessionsShape
      <4> QED BY <4>1, <4>2 DEF Locals
    <3> QED BY <1>a, <2>1, <2>5, <3>1, <3>2, <3>3 DEF Shapes
  <2>8. RequestsInScope'
    <3>1. session[s].run \in Runs
      BY <1>a, <2>2 DEF CopiesHold
    <3> QED BY <1>a, <2>1, <2>2, <2>5, <2>7, <3>1 DEF RequestsInScope
  <2>9. PermittedAsGranted'
    <3>1. ~Permitted(s)'
      BY <2>5 DEF Permitted
    <3>2. \A t \in Sessions : Permitted(t)' => Permitted(t) /\ t # s
      BY <2>5, <3>1 DEF Permitted
    <3> QED BY <1>a, <2>1, <2>7, <3>2, GrantsStay
  <2>10. TasksInScope' /\ RunsLoadTheirChannel' /\ OneByName'
    BY <1>a, <2>1, <2>7 DEF TasksInScope, RunsLoadTheirChannel, OneByName, InHistory
  <2>11. CopiesHold'
    BY <1>a, <2>1, <2>7 DEF CopiesHold, InHistory
  <2>12. ResultsKept'
    BY <1>a, <2>1, <2>7, ResultsStay
  <2> QED BY <2>7, <2>8, <2>9, <2>10, <2>11, <2>12 DEF SessionInv
\* What is allowed is what both lists grant, by the one definition.
<1>9. ASSUME NEW s \in Sessions, Authorized(s), Broker!Allow(s), NEW d \in Resolved,
             session' = [session EXCEPT ![s].tool = d],
             UNCHANGED <<run, history, registry, tasks>>
      PROVE  SessionInv'
  <2>1. /\ UNCHANGED <<run, history, registry, tasks>> /\ call[s].pc = "deciding"
        /\ session' = [session EXCEPT ![s] = [session[s] EXCEPT !.tool = d]]
        /\ call' = [call EXCEPT ![s] = [call[s] EXCEPT !.pc = "starting", !.copy = "ALLOWED"]]
    BY <1>9 DEF Broker!Allow
  <2>2. /\ CallsShape' /\ \A t \in Sessions \ {s} : call'[t] = call[t]
        /\ call'[s].pc = "starting" /\ call'[s].inv = call[s].inv
    <3> DEFINE k == [call[s] EXCEPT !.pc = "starting", !.copy = "ALLOWED"]
    <3>1. k = [f \in CallLocals |-> k[f]] /\ k.pc = "starting" /\ k.inv = call[s].inv
      BY <1>b DEF CallsShape, CallLocals
    <3>2. call' = [call EXCEPT ![s] = k]
      BY <2>1
    <3> HIDE DEF k
    <3> QED BY <1>b, <3>1, <3>2, OneCallChanges
  <2>4. /\ Shapes'
        /\ \A t \in Sessions \ {s} : session'[t] = session[t]
        /\ \A t \in Sessions :
             /\ session'[t].run = session[t].run
             /\ session'[t].state = session[t].state
             /\ session'[t].context = session[t].context
             /\ session'[t].asked = session[t].asked
             /\ session'[t].result = session[t].result
             /\ session'[t].task = session[t].task
             /\ session'[t].input = session[t].input
        /\ session'[s].tool = d
    <3>1. SessionsShape'
      BY <1>b, <2>1 DEF SessionsShape, Locals
    <3>2. \A t \in Sessions \ {s} : session'[t] = session[t]
      BY <1>b, <2>1 DEF SessionsShape
    <3>3. /\ session'[s].run = session[s].run
          /\ session'[s].state = session[s].state
          /\ session'[s].context = session[s].context
          /\ session'[s].asked = session[s].asked
          /\ session'[s].result = session[s].result
          /\ session'[s].task = session[s].task
          /\ session'[s].input = session[s].input
          /\ session'[s].tool = d
      <4>1. session'[s] = [session[s] EXCEPT !.tool = d]
        BY <1>b, <2>1 DEF SessionsShape
      <4>2. session[s] = [f \in Locals |-> session[s][f]]
        BY <1>b DEF SessionsShape
      <4> QED BY <4>1, <4>2 DEF Locals
    <3> QED BY <1>a, <2>1, <2>2, <3>1, <3>2, <3>3 DEF Shapes
  <2>5. RequestsInScope'
    BY <1>a, <2>1, <2>2, <2>4 DEF RequestsInScope
  <2>6. PermittedAsGranted'
    <3>1. /\ Tool \in allowed_tools(session[s].task)
          /\ Tool \in ContentOf(session[s].context).tools
      BY <1>9 DEF Authorized
    <3>2. Resolved = {d}
      BY <1>a, <1>9 DEF Resolved, OneByName
    <3>3. \A t \in Sessions \ {s} : Permitted(t)' => Permitted(t)
      BY <2>2 DEF Permitted
    <3>4. Resolved' = Resolved
      BY <2>1 DEF Resolved
    <3> SUFFICES ASSUME NEW t \in Sessions, Permitted(t)'
                 PROVE  /\ Tool \in allowed_tools(session'[t].task)
                        /\ Tool \in ContentOf(session'[t].context).tools
                        /\ Resolved = {session'[t].tool}
      BY <2>1, <3>4 DEF PermittedAsGranted, allowed_tools, ContentOf
    <3>5. CASE t = s
      BY <2>4, <3>1, <3>2, <3>5
    <3>6. CASE t # s
      BY <1>a, <2>4, <3>3, <3>6 DEF PermittedAsGranted
    <3> QED BY <3>5, <3>6
  <2>7. TasksInScope' /\ RunsLoadTheirChannel' /\ OneByName'
    BY <1>a, <2>1, <2>4 DEF TasksInScope, RunsLoadTheirChannel, OneByName, InHistory
  <2>8. CopiesHold'
    BY <1>a, <2>1, <2>4 DEF CopiesHold, InHistory
  <2>9. ResultsKept'
    BY <1>a, <2>1, <2>4, ResultsStay
  <2> QED BY <2>4, <2>5, <2>6, <2>7, <2>8, <2>9 DEF SessionInv
<1>10. ASSUME NEW s \in Sessions, DecideRequest(s) PROVE SessionInv'
  <2>1. CASE Authorized(s)
    BY <1>9, <1>10, <2>1 DEF DecideRequest
  <2>2. CASE ~Authorized(s)
    <3>1. Broker!Deny(s) /\ UNCHANGED <<run, history, registry, tasks, session>>
      BY <1>10, <2>2 DEF DecideRequest
    <3> QED BY <1>b, <3>1, CallsGoOn, GoingOnKeeps
  <2> QED BY <2>1, <2>2
<1>11. ASSUME NEW s \in Sessions, CallStep(s) PROVE SessionInv'
  BY <1>11, SessionCallStep
<1>12. CASE UNCHANGED vars
  <2>1. /\ UNCHANGED <<run, history, registry, tasks, session>>
        /\ CallsShape' /\ \A s \in Sessions : GoesOn(s)
    BY <1>b, <1>12 DEF vars, brokerVars, CallsShape, GoesOn, Permitted
  <2> QED BY <2>1, GoingOnKeeps
<1> QED
  BY <1>p, <1>2, <1>3, <1>4, <1>5, <1>6, <1>7, <1>8, <1>10, <1>11, <1>12 DEF Next

-----------------------------------------------------------------------------
(* The theorems *)

\* Sessions, requests and calls keep to their scope whatever the order.
THEOREM SessionInvariant == Spec => []SessionInv
<1>1. Init => SessionInv
  BY SessionInit
<1>2. SessionInv /\ [Next]_vars => SessionInv'
  BY SessionStep
<1> QED BY <1>1, <1>2, PTL DEF Spec

\* What was executed was begun, so that it is in scope.
LEMMA ExecutedWasRequested ==
  ASSUME SessionInv, NEW s \in Sessions, Executed(s)
  PROVE  /\ Permitted(s) /\ call[s].inv \in Runs
         /\ session[s].run = call[s].inv /\ session[s].state = "RUNNING_STEP"
         /\ session[s].task \in tasks /\ session[s].task.run_id = call[s].inv
         /\ session[s].context.channel = run[call[s].inv].channel
         /\ session[s].task.context.channel = run[call[s].inv].channel
<1>1. Permitted(s) /\ call[s].pc # "idle"
  BY DEF SessionInv, RequestsInScope, Executed, Permitted
<1>2. /\ call[s].inv \in Runs
      /\ session[s].run = call[s].inv /\ session[s].state = "RUNNING_STEP"
      /\ session[s].task \in tasks /\ session[s].task.run_id = call[s].inv
      /\ session[s].context.channel = run[call[s].inv].channel
  BY <1>1 DEF SessionInv, RequestsInScope
<1>3. session[s].task.context.channel = run[call[s].inv].channel
  BY <1>2 DEF SessionInv, TasksInScope
<1> QED BY <1>1, <1>2, <1>3

\* No stale copy of a run, mixed-up task or context of another channel gets a
\* tool executed (assertTrustedScope, assertRunnableState).
THEOREM ExecutionInScope == Spec => []ExecutedInScope
<1>1. SessionInv => ExecutedInScope
  <2> SUFFICES ASSUME SessionInv, NEW s \in Sessions, Executed(s)
               PROVE  LET r == call[s].inv IN
                      /\ run[r].state = "RUNNING_STEP"
                      /\ run[r].snapshot.channel = run[r].channel
                      /\ session[s].task.run_id = r
                      /\ session[s].task.context.channel = run[r].channel
                      /\ session[s].context.channel = run[r].channel
    BY DEF ExecutedInScope
  <2>1. run[call[s].inv].state = "RUNNING_STEP"
    BY ExecutedWasRequested DEF SessionInv, CopiesHold
  <2>2. run[call[s].inv].snapshot.channel = run[call[s].inv].channel
    BY <2>1, ExecutedWasRequested DEF SessionInv, RunsLoadTheirChannel
  <2> QED BY <2>1, <2>2, ExecutedWasRequested
<1> QED BY <1>1, SessionInvariant, PTL

\* A tool revoked or granted too late is not executed: both lists of the
\* decision were those of contexts of the run's channel.
THEOREM ExecutionAsGranted == Spec => []ExecutedAsGranted
<1>1. SessionInv => ExecutedAsGranted
  <2> SUFFICES ASSUME SessionInv, NEW s \in Sessions, Executed(s)
               PROVE  LET channel == run[call[s].inv].channel IN
                      /\ Tool \in history[channel][session[s].task.context.at].tools
                      /\ Tool \in history[channel][session[s].context.at].tools
    BY DEF ExecutedAsGranted
  <2>1. /\ Tool \in allowed_tools(session[s].task)
        /\ Tool \in ContentOf(session[s].context).tools
    BY ExecutedWasRequested DEF SessionInv, PermittedAsGranted
  <2> QED BY <2>1, ExecutedWasRequested DEF allowed_tools, ContentOf
<1> QED BY <1>1, SessionInvariant, PTL

\* The registry gives all calls of a tool the same definition (register).
THEOREM ExecutionByOneDefinition == Spec => []OneDefinition
<1>1. SessionInv => OneDefinition
  BY ExecutedWasRequested DEF OneDefinition, SessionInv, PermittedAsGranted
<1> QED BY <1>1, SessionInvariant, PTL

\* A result is of the task that was asked for and cites what that task's
\* context held (validateAgentResult, FakeProvider).
THEOREM ResultsAreGrounded == Spec => []ResultIsGrounded
<1>1. SessionInv => ResultIsGrounded
  BY DEF ResultIsGrounded, SessionInv, ResultsKept
<1> QED BY <1>1, SessionInvariant, PTL

-----------------------------------------------------------------------------
(* The broker within *)

\* The broker's theorems, for the calls of sessions.
Calling == INSTANCE ToolBrokerProofs WITH
  Invocations <- Runs, Calls <- Sessions, Idempotent <- {},
  Verdicts <- {"ALLOWED", "DENIED"}, MaxRetries <- 0, MaxAbandons <- 0

\* A session asks for a run there is.
LEMMA RequestsARun ==
  ASSUME SessionInv, NEW s \in Sessions, RequestTool(s)
  PROVE  session[s].run \in Runs
BY DEF SessionInv, CopiesHold, RequestTool, assertRunnableState

\* Every step of a session is one of the broker's calls, or none of them.
LEMMA StepOfBroker == SessionInv /\ [Next]_vars => [Calling!Next]_(Calling!vars)
<1> SUFFICES ASSUME SessionInv, [Next]_vars PROVE [Calling!Next]_(Calling!vars)
  OBVIOUS
<1> USE DEF Calling!NoRow, Broker!NoRow, Calling!Idle, Broker!Idle,
            Calling!ToolCallTransitions, Broker!ToolCallTransitions,
            Calling!CanTransitionToolCall, Broker!CanTransitionToolCall,
            Calling!UpdateStatus, Broker!UpdateStatus,
            Calling!UpdateStatusWithAudit, Broker!UpdateStatusWithAudit,
            Calling!EventOf, Broker!EventOf, Calling!Return, Broker!Return,
            Calling!Current, Broker!Current, Calling!Awaited, Broker!Awaited,
            Calling!Conclude, Broker!Conclude, Calling!CanRetry, Broker!CanRetry,
            Calling!RetryOrConclude, Broker!RetryOrConclude
<1>1. ASSUME NEW s \in Sessions, RequestTool(s) PROVE Calling!Next
  <2>1. session[s].run \in Runs
    BY <1>1, RequestsARun
  <2>2. Broker!ReturnExisting(s, session[s].run) => Calling!ReturnExisting(s, session[s].run)
    BY DEF Broker!ReturnExisting, Calling!ReturnExisting
  <2>3. Broker!FindNothing(s, session[s].run) => Calling!FindNothing(s, session[s].run)
    BY DEF Broker!FindNothing, Calling!FindNothing, Broker!CallsOf, Calling!CallsOf
  <2> QED BY <1>1, <2>1, <2>2, <2>3 DEF RequestTool, Calling!Next
<1>2. ASSUME NEW s \in Sessions, DecideRequest(s) PROVE Calling!Next
  <2>1. Broker!Allow(s) => Calling!Allow(s)
    BY DEF Broker!Allow, Calling!Allow, Broker!ToolAllowed, Calling!ToolAllowed
  <2>2. Broker!Deny(s) => Calling!Deny(s)
    BY DEF Broker!Deny, Calling!Deny, Broker!ToolDenied, Calling!ToolDenied
  <2> QED BY <1>2, <2>1, <2>2 DEF DecideRequest, Calling!Next, Calling!BrokerStep
<1>3. ASSUME NEW s \in Sessions, CallStep(s) PROVE Calling!Next
  <2>1. Broker!InsertRequested(s) => Calling!InsertRequested(s)
    BY DEF Broker!InsertRequested, Calling!InsertRequested,
           Broker!ToolRequested, Calling!ToolRequested
  <2>2. /\ Broker!InsertFails(s) => Calling!InsertFails(s)
        /\ Broker!Reread(s) => Calling!Reread(s)
    BY DEF Broker!InsertFails, Calling!InsertFails, Broker!Reread, Calling!Reread,
           Broker!ContinuesWith, Calling!ContinuesWith
  <2>3. /\ Broker!StartRunning(s) => Calling!StartRunning(s)
        /\ Broker!StartAttempt(s) => Calling!StartAttempt(s)
    BY DEF Broker!StartRunning, Calling!StartRunning, Broker!StartAttempt,
           Calling!StartAttempt
  <2>4. Broker!AttemptTimesOut(s) => Calling!AttemptTimesOut(s)
    BY DEF Broker!AttemptTimesOut, Calling!AttemptTimesOut
  <2>5. Broker!Complete(s) => Calling!Complete(s)
    BY DEF Broker!Complete, Calling!Complete, Broker!ToolCompleted, Calling!ToolCompleted
  <2>6. Broker!ExecutorStep(s) => Calling!ExecutorStep(s)
    BY DEF Broker!ExecutorStep, Calling!ExecutorStep, Broker!AttemptAnswers,
           Calling!AttemptAnswers, Broker!AttemptThrows, Calling!AttemptThrows,
           Broker!LeftoverEnds, Calling!LeftoverEnds
  <2> QED BY <1>3, <2>1, <2>2, <2>3, <2>4, <2>5, <2>6
          DEF CallStep, Calling!Next, Calling!BrokerStep
<1>4. CASE UNCHANGED brokerVars
  BY <1>4 DEF brokerVars, Calling!vars
<1>5. \/ \E s \in Sessions : RequestTool(s) \/ DecideRequest(s) \/ CallStep(s)
      \/ UNCHANGED brokerVars
  BY DEF Next, vars, EnterPreflight, LoadChannelContext, CompletePreflight, FailPreflight,
         Edit, register, ReadRun, LoadContext, ExecuteAgent, ProviderAnswers
<1> QED BY <1>1, <1>2, <1>3, <1>4, <1>5

\* Sessions call the broker as ToolBroker says it may be called, so that what is
\* proved of the broker holds for them: AgentSession implements ToolBroker.
THEOREM SessionsCallTheBroker == Spec => Calling!Spec
<1>1. Init => Calling!Init
  BY DEF Init, Broker!Init, Calling!Init, Broker!Idle, Calling!Idle, Broker!NoRow,
         Calling!NoRow
<1> QED BY <1>1, SessionInvariant, StepOfBroker, PTL DEF Spec, Calling!Spec

\* What is true of a broker is true of the one sessions call.
LEMMA CallsAreSound == Spec => []Calling!BrokerInv
<1>1. Calling!Spec => []Calling!BrokerInv
  BY ContentsAssumption, Calling!BrokerInvariant
<1> QED BY <1>1, SessionsCallTheBroker, PTL

\* What the broker promises of an invocation it promises to sessions, of the one
\* invocation of each run (ToolBrokerService.execute called by trusted code).
THEOREM SessionsKeepThePromise == Spec => Calling!ImplementsInvocation
<1>1. Calling!Spec => Calling!ImplementsInvocation
  BY ContentsAssumption, Calling!BrokerImplementsInvocation
<1> QED BY <1>1, SessionsCallTheBroker

\* Two sessions never both execute the tool for one run, nor one session twice,
\* unless both looked the invocation up before there was a row.
OneExecutionPerRun ==
  \A r \in Runs \ raced : \A s, t \in Sessions :
    /\ Executed(s) /\ call[s].inv = r
    /\ Executed(t) /\ call[t].inv = r
    => s = t /\ call[s].attempts = 1

\* However many sessions mix up runs, contexts and tasks, the tool of a run is
\* asked once (ToolBrokerService under AgentRuntimeService's sessions).
THEOREM RunsExecuteOnce == Spec => []OneExecutionPerRun
<1>1. Calling!BrokerInv => OneExecutionPerRun
  <2> SUFFICES ASSUME Calling!BrokerInv, NEW r \in Runs \ raced,
                      NEW s \in Sessions, NEW t \in Sessions,
                      Executed(s), call[s].inv = r, Executed(t), call[t].inv = r
               PROVE  s = t /\ call[s].attempts = 1
    BY DEF OneExecutionPerRun
  <2>1. s = t
    BY DEF Executed, Calling!BrokerInv, Calling!SoleEngaged, Calling!Engaged
  <2>2. call[s].attempts \in Nat /\ call[s].attempts <= 1
    BY DEF Calling!BrokerInv, Calling!TypeOK, Calling!Locals, Calling!ShapeOf
  <2> QED BY <2>1, <2>2 DEF Executed
<1> QED BY <1>1, CallsAreSound, PTL

-----------------------------------------------------------------------------
(* Types *)

Contexts == ChannelContext \cup {NoContext}
RunTypes == [channel : Channels, state : RunStates, loaded : Contexts,
             snapshot : Contexts]
ResultTypes ==
  {NoResult} \cup [task_id : Sessions, evidence_refs : SUBSET Evidence]

\* A session holds only tasks that were made and a definition that is
\* registered, and neither is ever taken back.
SessionTyped(s) ==
  /\ session[s].run \in Runs \cup {"none"}
  /\ session[s].state \in RunStates \cup {"none"}
  /\ session[s].context \in Contexts
  /\ session[s].asked \in tasks \cup {NoTask}
  /\ session[s].result \in ResultTypes
  /\ session[s].task \in tasks \cup {NoTask}
  /\ session[s].input \in Inputs \cup {"none"}
  /\ session[s].tool \in registry \cup {NoDefinition}

TypeInv ==
  /\ run \in [Runs -> RunTypes]
  /\ history \in [Channels -> Seq(Contents)]
  /\ \A ch \in Channels : Len(history[ch]) \in 1 .. MaxEdits + 1
  /\ registry \subseteq Definitions
  /\ tasks \subseteq AgentTask
  /\ \A s \in Sessions : SessionTyped(s)

\* At first nothing is held.
LEMMA TypesInit == Init => TypeInv
<1> SUFFICES ASSUME Init PROVE TypeInv
  OBVIOUS
<1>1. run \in [Runs -> RunTypes]
  BY DEF Init, RunTypes, RunStates, Contexts
<1>2. \A s \in Sessions : SessionTyped(s)
  BY DEF Init, SessionTyped, Contexts, ResultTypes
<1> QED BY <1>1, <1>2, ContentsAssumption DEF Init, TypeInv

\* What a load gives is a context.
LEMMA LoadsAContext ==
  ASSUME TypeInv, NEW ch \in Channels
  PROVE  Loaded(ch) \in ChannelContext
BY DEF TypeInv, Loaded, ChannelContext

\* One session changes, and may have made a task.
LEMMA OneSessionChanges ==
  ASSUME TypeInv, NEW s \in Sessions, SessionTyped(s)',
         \A other \in Sessions \ {s} : session'[other] = session[other],
         tasks \subseteq tasks', tasks' \subseteq AgentTask,
         UNCHANGED <<run, history, registry>>
  PROVE  TypeInv'
BY DEF TypeInv, SessionTyped

\* Everything but the sessions may change, if nothing is taken back.
LEMMA NoSessionChanges ==
  ASSUME TypeInv, UNCHANGED <<session, tasks>>,
         run' \in [Runs -> RunTypes], history' \in [Channels -> Seq(Contents)],
         \A ch \in Channels : Len(history'[ch]) \in 1 .. MaxEdits + 1,
         registry \subseteq registry', registry' \subseteq Definitions
  PROVE  TypeInv'
BY DEF TypeInv, SessionTyped

\* Whatever is copied has its type already.
LEMMA TypesStep == SessionInv /\ TypeInv /\ [Next]_vars => TypeInv'
<1> SUFFICES ASSUME SessionInv, TypeInv, [Next]_vars PROVE TypeInv'
  OBVIOUS
<1> USE ContentsAssumption
<1>r. \A r \in Runs : run[r] \in RunTypes
  BY DEF TypeInv
<1>s. SessionsShape /\ \A s \in Sessions : SessionTyped(s)
  BY DEF TypeInv, SessionInv, Shapes
<1>1. ASSUME NEW r \in Runs, EnterPreflight(r) PROVE TypeInv'
  <2>1. "PREFLIGHT" \in RunStates
    BY DEF RunStates
  <2>2. run' \in [Runs -> RunTypes]
    BY <1>1, <2>1 DEF EnterPreflight, TypeInv, RunTypes
  <2> QED BY <1>1, <2>2, NoSessionChanges DEF EnterPreflight, TypeInv
<1>2. ASSUME NEW r \in Runs, LoadChannelContext(r) PROVE TypeInv'
  <2>1. Loaded(run[r].channel) \in Contexts
    BY <1>r, LoadsAContext DEF RunTypes, Contexts
  <2>2. run' \in [Runs -> RunTypes]
    BY <1>2, <2>1 DEF LoadChannelContext, TypeInv, RunTypes
  <2> QED BY <1>2, <2>2, NoSessionChanges DEF LoadChannelContext, TypeInv
<1>3. ASSUME NEW r \in Runs, CompletePreflight(r) PROVE TypeInv'
  <2>1. "RUNNING_STEP" \in RunStates
    BY DEF RunStates
  <2>2. run' \in [Runs -> RunTypes]
    BY <1>3, <2>1 DEF CompletePreflight, TypeInv, RunTypes
  <2> QED BY <1>3, <2>2, NoSessionChanges DEF CompletePreflight, TypeInv
<1>4. ASSUME NEW r \in Runs, FailPreflight(r) PROVE TypeInv'
  <2>1. PICK state \in Failures :
          run' = [run EXCEPT ![r].state = state, ![r].loaded = NoContext]
    BY <1>4 DEF FailPreflight
  <2>2. state \in RunStates /\ NoContext \in Contexts
    BY DEF RunStates, Contexts
  <2>3. run' \in [Runs -> RunTypes]
    BY <2>1, <2>2 DEF TypeInv, RunTypes
  <2> QED BY <1>4, <2>3, NoSessionChanges DEF FailPreflight, TypeInv
<1>5. ASSUME NEW ch \in Channels, Edit(ch) PROVE TypeInv'
  <2>1. PICK content \in Contents : history' = [history EXCEPT ![ch] = Append(@, content)]
    BY <1>5 DEF Edit
  <2>2. /\ history' \in [Channels -> Seq(Contents)]
        /\ \A other \in Channels : Len(history'[other]) \in 1 .. MaxEdits + 1
    BY <1>5, <2>1 DEF Edit, TypeInv
  <2> QED BY <1>5, <2>2, NoSessionChanges DEF Edit, TypeInv
<1>6. ASSUME NEW d \in Definitions, register(d) PROVE TypeInv'
  BY <1>6, NoSessionChanges DEF register, TypeInv
<1>7. ASSUME NEW s \in Sessions, NEW r \in Runs, ReadRun(s, r) PROVE TypeInv'
  <2>1. SessionTyped(s)'
    BY <1>7, <1>r, <1>s DEF ReadRun, SessionsShape, Locals, RunTypes, SessionTyped
  <2>2. \A other \in Sessions \ {s} : session'[other] = session[other]
    BY <1>7, <1>s DEF ReadRun, SessionsShape
  <2> QED BY <1>7, <2>1, <2>2, OneSessionChanges DEF ReadRun, TypeInv
<1>8. ASSUME NEW s \in Sessions, NEW ch \in Channels, LoadContext(s, ch) PROVE TypeInv'
  <2>1. Loaded(ch) \in Contexts
    BY LoadsAContext DEF Contexts
  <2>2. SessionTyped(s)'
    BY <1>8, <1>s, <2>1 DEF LoadContext, SessionsShape, Locals, SessionTyped
  <2>3. \A other \in Sessions \ {s} : session'[other] = session[other]
    BY <1>8, <1>s DEF LoadContext, SessionsShape
  <2> QED BY <1>8, <2>2, <2>3, OneSessionChanges DEF LoadContext, TypeInv
<1>9. ASSUME NEW s \in Sessions, ExecuteAgent(s) PROVE TypeInv'
  <2>1. createTask(s) \in AgentTask
    <3>1. session[s].run \in Runs
      BY <1>9 DEF SessionInv, CopiesHold, ExecuteAgent, assertCanExecute
    <3>2. ChannelOf(s) \in Channels
      BY <1>r, <3>1 DEF ChannelOf, RunTypes
    <3>3. session[s].context \in ChannelContext
      <4>1. session[s].context.channel \in Channels
        BY <1>9, <3>2 DEF ExecuteAgent, assertCanExecute
      <4>2. session[s].context # NoContext
        BY <4>1, ContentsAssumption DEF NoContext
      <4> QED BY <1>s, <4>2 DEF SessionTyped, Contexts
    <3> QED BY <3>1, <3>2, <3>3 DEF createTask, AgentTask
  <2>2. SessionTyped(s)'
    BY <1>9, <1>s DEF ExecuteAgent, SessionsShape, Locals, SessionTyped
  <2>3. \A other \in Sessions \ {s} : session'[other] = session[other]
    BY <1>9, <1>s DEF ExecuteAgent, SessionsShape
  <2> QED BY <1>9, <2>1, <2>2, <2>3, OneSessionChanges DEF ExecuteAgent, TypeInv
<1>10. ASSUME NEW s \in Sessions, ProviderAnswers(s) PROVE TypeInv'
  <2>1. PICK answered \in tasks :
          session' = [session EXCEPT ![s].result =
            [task_id |-> answered.task_id, evidence_refs |-> evidence_refs(answered)]]
    BY <1>10 DEF ProviderAnswers
  <2>2. [task_id |-> answered.task_id, evidence_refs |-> evidence_refs(answered)]
          \in ResultTypes
    BY <2>1 DEF ResultTypes, TypeInv, AgentTask, evidence_refs
  <2>3. SessionTyped(s)'
    BY <1>10, <1>s, <2>1, <2>2
       DEF ProviderAnswers, SessionsShape, Locals, SessionTyped
  <2>4. \A other \in Sessions \ {s} : session'[other] = session[other]
    BY <1>s, <2>1 DEF SessionsShape
  <2> QED BY <1>10, <2>3, <2>4, OneSessionChanges DEF ProviderAnswers, TypeInv
<1>11. ASSUME NEW s \in Sessions, RequestTool(s) PROVE TypeInv'
  <2>1. PICK task \in tasks, input \in Inputs :
          session' = [session EXCEPT ![s].task = task, ![s].input = input]
    BY <1>11 DEF RequestTool
  <2>2. SessionTyped(s)'
    BY <1>11, <1>s, <2>1 DEF RequestTool, SessionsShape, Locals, SessionTyped
  <2>3. \A other \in Sessions \ {s} : session'[other] = session[other]
    BY <1>s, <2>1 DEF SessionsShape
  <2> QED BY <1>11, <2>2, <2>3, OneSessionChanges DEF RequestTool, TypeInv
<1>12. ASSUME NEW s \in Sessions, DecideRequest(s) PROVE TypeInv'
  <2>0. /\ UNCHANGED <<run, history, registry, tasks>>
        /\ \/ UNCHANGED session
           \/ \E d \in Resolved : session' = [session EXCEPT ![s].tool = d]
    BY <1>12 DEF DecideRequest
  <2>1. CASE UNCHANGED session
    BY <2>0, <2>1, NoSessionChanges DEF TypeInv
  <2>2. ASSUME NEW d \in Resolved, session' = [session EXCEPT ![s].tool = d]
        PROVE  TypeInv'
    <3>1. SessionTyped(s)'
      BY <1>s, <2>0, <2>2 DEF Resolved, SessionsShape, Locals, SessionTyped
    <3>2. \A other \in Sessions \ {s} : session'[other] = session[other]
      BY <1>s, <2>2 DEF SessionsShape
    <3> QED BY <2>0, <3>1, <3>2, OneSessionChanges DEF TypeInv
  <2> QED BY <2>0, <2>1, <2>2
<1>13. ASSUME NEW s \in Sessions, CallStep(s) PROVE TypeInv'
  BY <1>13, NoSessionChanges DEF CallStep, TypeInv
<1>14. CASE UNCHANGED vars
  BY <1>14, NoSessionChanges DEF vars, TypeInv
<1> QED
  BY <1>1, <1>2, <1>3, <1>4, <1>5, <1>6, <1>7, <1>8, <1>9, <1>10, <1>11, <1>12, <1>13,
     <1>14 DEF Next

\* Rows, copies, tasks and calls have their types, and no session holds a task
\* that was not made or a definition that is not registered (AgentRuntimeService,
\* ToolRegistryService, ToolBrokerService).
THEOREM SessionsTyped == Spec => []TypeOK
<1>1. Spec => []TypeInv
  BY TypesInit, TypesStep, SessionInvariant, PTL DEF Spec
<1>2. Calling!BrokerInv => Calling!TypeOK
  BY DEF Calling!BrokerInv
<1>3. Calling!TypeOK => Broker!TypeOK
  BY DEF Calling!TypeOK, Broker!TypeOK, Calling!Locals, Broker!Locals, Calling!ToolEvent,
         Broker!ToolEvent, Calling!ToolCallStatus, Broker!ToolCallStatus, Calling!NoRow,
         Broker!NoRow
<1>4. TypeInv /\ Broker!TypeOK => TypeOK
  BY DEF TypeInv, TypeOK, RunTypes, Contexts, SessionTyped, ResultTypes
<1> QED BY <1>1, <1>2, <1>3, <1>4, CallsAreSound, PTL
=============================================================================
