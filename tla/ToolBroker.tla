----------------------------- MODULE ToolBroker -----------------------------
(***************************************************************************)
(* ToolBrokerService.execute over the tool_calls table: concurrent and     *)
(* repeated calls for the same invocation (run_id, tool_name,              *)
(* correlation_id), each with its own timeouts and retries.                *)
(*                                                                         *)
(* A member of Calls is one execute(...); a duplicate delivery, a retry    *)
(* after a crash and a second process are further members.  A request out  *)
(* of scope, or for a run that is not RUNNING_STEP, throws before the      *)
(* first await and changes nothing, so it is no call here.  What the       *)
(* registry, the two allowlists and the input schema say of a request is   *)
(* any of Verdicts, and what the executor answers is a free choice.        *)
(***************************************************************************)
EXTENDS Naturals, Sequences, FiniteSets

CONSTANTS
  Invocations,  \* the invocation keys in use
  Calls,        \* the execute(...) calls made
  Idempotent,   \* the invocations whose ToolDefinition is idempotent
  Verdicts,     \* what the registry, the allowlists and the schema may answer
  MaxRetries,   \* max_retries of the ToolDefinitions
  MaxAbandons   \* bound: how many calls are lost half-way

ASSUME InvocationsAssumption ==
  Idempotent \subseteq Invocations /\ "none" \notin Invocations
ASSUME VerdictsAssumption == Verdicts \subseteq {"ALLOWED", "DENIED"}
ASSUME BrokerBoundsAssumption == MaxRetries \in Nat /\ MaxAbandons \in Nat

VARIABLES
  status,   \* table tool_calls: the status of each invocation's row
  audit,    \* table audit_events: the tool events of each invocation
  call,     \* the locals of each execute(...)
  inFlight, \* the attempts of each call the executor is still working on
  abandons, \* how many calls were lost so far
  raced     \* history: the invocations looked up by two calls before a row was

vars == <<status, audit, call, inFlight, abandons, raced>>

-----------------------------------------------------------------------------
(* The lifecycle of a row, its events and the locals of a call. *)

ToolCallStatus ==
  {"REQUESTED", "ALLOWED", "DENIED", "RUNNING", "SUCCEEDED", "FAILED"}
Terminal == {"DENIED", "SUCCEEDED", "FAILED"}
\* The invocation has no row.
NoRow == "NONE"

ToolCallTransitions ==
  ({"REQUESTED"} \X {"ALLOWED", "DENIED"}) \cup
  ({"ALLOWED"} \X {"RUNNING"}) \cup
  ({"RUNNING"} \X {"SUCCEEDED", "FAILED"})

CanTransitionToolCall(from, to) == <<from, to>> \in ToolCallTransitions

ToolEvent ==
  [type : {"TOOL_REQUESTED", "TOOL_ALLOWED", "TOOL_DENIED", "TOOL_COMPLETED"},
   final_status : {"SUCCEEDED", "FAILED", "none"}, attempts : Nat]
EventOf(type) == [type |-> type, final_status |-> "none", attempts |-> 0]
ToolRequested == EventOf("TOOL_REQUESTED")
ToolAllowed == EventOf("TOOL_ALLOWED")
ToolDenied == EventOf("TOOL_DENIED")
ToolCompleted(final, attempts) ==
  [type |-> "TOOL_COMPLETED", final_status |-> final, attempts |-> attempts]

Locals ==
  [pc : {"idle", "inserting", "rereading", "deciding", "starting",
         "executing", "waiting", "completing", "returned", "lost"},
   inv : Invocations \cup {"none"},
   copy : ToolCallStatus \cup {NoRow}, \* the ToolCall in memory
   attempts : Nat,
   outcome : {"SUCCEEDED", "FAILED", "none"}]
Idle == [pc |-> "idle", inv |-> "none", copy |-> NoRow, attempts |-> 0,
         outcome |-> "none"]

InProgress(c) == call[c].pc \notin {"idle", "returned", "lost"}
CallsOf(i) == {c \in Calls : call[c].inv = i}
Executors(i) == {c \in CallsOf(i) : call[c].attempts > 0}

TypeOK ==
  /\ status \in [Invocations -> ToolCallStatus \cup {NoRow}]
  /\ audit \in [Invocations -> Seq(ToolEvent)]
  /\ call \in [Calls -> Locals]
  /\ inFlight \in [Calls -> SUBSET Nat]
  /\ \A c \in Calls : inFlight[c] \subseteq 1 .. call[c].attempts
  /\ abandons \in 0 .. MaxAbandons
  /\ raced \subseteq Invocations

Init ==
  /\ status = [i \in Invocations |-> NoRow]
  /\ audit = [i \in Invocations |-> <<>>]
  /\ call = [c \in Calls |-> Idle]
  /\ inFlight = [c \in Calls |-> {}]
  /\ abandons = 0
  /\ raced = {}

-----------------------------------------------------------------------------
(* Looking the invocation up, and creating its row *)

Return(c, copy) ==
  call' = [call EXCEPT ![c] = [@ EXCEPT !.pc = "returned", !.copy = copy]]

\* Mutant: a row that is still REQUESTED is taken up by whoever finds it.
ResumeExisting(c, i) ==
  /\ call[c].pc = "idle"
  /\ status[i] # NoRow
  /\ call' = [call EXCEPT ![c] =
       [Idle EXCEPT !.pc = IF status[i] = "REQUESTED" THEN "deciding"
                                                     ELSE "returned",
                    !.inv = i, !.copy = status[i]]]
  /\ UNCHANGED <<status, audit, inFlight, abandons, raced>>

\* findByInvocation: an existing row is returned as it is.
ReturnExisting(c, i) ==
  /\ call[c].pc = "idle"
  /\ status[i] # NoRow
  /\ call' = [call EXCEPT ![c] = [Idle EXCEPT !.pc = "returned", !.inv = i,
                                              !.copy = status[i]]]
  /\ UNCHANGED <<status, audit, inFlight, abandons, raced>>

\* Two calls that hold this answer at once are in a race for the row.
FindNothing(c, i) ==
  /\ call[c].pc = "idle"
  /\ status[i] = NoRow
  /\ call' = [call EXCEPT ![c] = [Idle EXCEPT !.pc = "inserting", !.inv = i]]
  /\ raced' = raced \cup {j \in {i} : \E d \in CallsOf(i) :
                            call[d].pc \in {"inserting", "rereading"}}
  /\ UNCHANGED <<status, audit, inFlight, abandons>>

\* INSERT of the row and of TOOL_REQUESTED.  The reply may be lost, which the
\* broker cannot tell from a failed insert.
InsertRequested(c) ==
  LET i == call[c].inv IN
  /\ call[c].pc = "inserting"
  /\ status[i] = NoRow
  /\ status' = [status EXCEPT ![i] = "REQUESTED"]
  /\ audit' = [audit EXCEPT ![i] = Append(@, ToolRequested)]
  /\ \/ call' = [call EXCEPT ![c] = [@ EXCEPT !.pc = "deciding", !.copy = "REQUESTED"]]
     \/ call' = [call EXCEPT ![c].pc = "rereading"]
  /\ UNCHANGED <<inFlight, abandons, raced>>

\* The unique index refuses the row, or the transaction fails otherwise.
InsertFails(c) ==
  /\ call[c].pc = "inserting"
  /\ call' = [call EXCEPT ![c].pc = "rereading"]
  /\ UNCHANGED <<status, audit, inFlight, abandons, raced>>

\* Mutant: a row found after a failed insert is always somebody else's.
ContinuesNever(found) == FALSE

\* After a failed insert the row that is there now is taken for the call's
\* own, and goes on being processed if it is still REQUESTED.
ContinuesWith(found) == found = "REQUESTED"

Reread(c) ==
  LET found == status[call[c].inv] IN
  /\ call[c].pc = "rereading"
  /\ IF ContinuesWith(found)
       THEN call' = [call EXCEPT ![c] = [@ EXCEPT !.pc = "deciding", !.copy = found]]
       ELSE Return(c, found)
  /\ UNCHANGED <<status, audit, inFlight, abandons, raced>>

-----------------------------------------------------------------------------
(* Deciding and starting.  The transition is asserted on the copy in memory; *)
(* the UPDATE is by id alone.                                                *)

UpdateStatus(c, to) ==
  /\ CanTransitionToolCall(call[c].copy, to)
  /\ status' = [status EXCEPT ![call[c].inv] = to]

UpdateStatusWithAudit(c, to, event) ==
  /\ UpdateStatus(c, to)
  /\ audit' = [audit EXCEPT ![call[c].inv] = Append(@, event)]

\* Not registered, not in both allowlists, or an input off the schema.
Deny(c) ==
  /\ call[c].pc = "deciding"
  /\ "DENIED" \in Verdicts
  /\ UpdateStatusWithAudit(c, "DENIED", ToolDenied)
  /\ Return(c, "DENIED")
  /\ UNCHANGED <<inFlight, abandons, raced>>

\* Mutant: the transition to ALLOWED is stored like that to RUNNING.
AllowWithoutAudit(c) ==
  /\ call[c].pc = "deciding"
  /\ "ALLOWED" \in Verdicts
  /\ UpdateStatus(c, "ALLOWED")
  /\ call' = [call EXCEPT ![c] = [@ EXCEPT !.pc = "starting", !.copy = "ALLOWED"]]
  /\ UNCHANGED <<audit, inFlight, abandons, raced>>

Allow(c) ==
  /\ call[c].pc = "deciding"
  /\ "ALLOWED" \in Verdicts
  /\ UpdateStatusWithAudit(c, "ALLOWED", ToolAllowed)
  /\ call' = [call EXCEPT ![c] = [@ EXCEPT !.pc = "starting", !.copy = "ALLOWED"]]
  /\ UNCHANGED <<inFlight, abandons, raced>>

\* Mutant: RUNNING is kept in memory and never stored.
StartWithoutStoring(c) ==
  /\ call[c].pc = "starting"
  /\ CanTransitionToolCall(call[c].copy, "RUNNING")
  /\ call' = [call EXCEPT ![c] = [@ EXCEPT !.pc = "executing", !.copy = "RUNNING"]]
  /\ UNCHANGED <<status, audit, inFlight, abandons, raced>>

\* RUNNING is stored without an event.
StartRunning(c) ==
  /\ call[c].pc = "starting"
  /\ UpdateStatus(c, "RUNNING")
  /\ call' = [call EXCEPT ![c] = [@ EXCEPT !.pc = "executing", !.copy = "RUNNING"]]
  /\ UNCHANGED <<audit, inFlight, abandons, raced>>

-----------------------------------------------------------------------------
(* executeWithRetry *)

Current(c) == call[c].attempts

\* Mutant: the attempt is made and not counted.
StartAttemptUncounted(c) ==
  /\ call[c].pc = "executing"
  /\ call' = [call EXCEPT ![c].pc = "waiting"]
  /\ inFlight' = [inFlight EXCEPT ![c] = @ \cup {Current(c) + 1}]
  /\ UNCHANGED <<status, audit, abandons, raced>>

\* The executor is called and the timer armed.
StartAttempt(c) ==
  /\ call[c].pc = "executing"
  /\ call' = [call EXCEPT ![c] = [@ EXCEPT !.pc = "waiting", !.attempts = Current(c) + 1]]
  /\ inFlight' = [inFlight EXCEPT ![c] = @ \cup {Current(c) + 1}]
  /\ UNCHANGED <<status, audit, abandons, raced>>

\* Mutant: max_retries counts the attempts, and one more is made.
CanRetryOnceMore(c) ==
  /\ call[c].inv \in Idempotent
  /\ call[c].attempts - 1 <= MaxRetries

\* Mutant: any tool is retried.
CanRetryAnything(c) == call[c].attempts - 1 < MaxRetries

CanRetry(c) ==
  /\ call[c].inv \in Idempotent
  /\ call[c].attempts - 1 < MaxRetries

\* The attempt being waited for is still worked on; others are leftovers.
Awaited(c) == call[c].pc = "waiting" /\ Current(c) \in inFlight[c]

Conclude(c, outcome) ==
  call' = [call EXCEPT ![c] = [@ EXCEPT !.pc = "completing", !.outcome = outcome]]

\* The executor answers; an output off the schema makes the call FAILED.
AttemptAnswers(c) ==
  /\ Awaited(c)
  /\ \E outcome \in {"SUCCEEDED", "FAILED"} : Conclude(c, outcome)
  /\ inFlight' = [inFlight EXCEPT ![c] = @ \ {Current(c)}]
  /\ UNCHANGED <<status, audit, abandons, raced>>

\* What follows a failed attempt.
RetryOrConclude(c, retryable) ==
  IF retryable /\ CanRetry(c)
    THEN call' = [call EXCEPT ![c].pc = "executing"]
    ELSE Conclude(c, "FAILED")

AttemptThrows(c) ==
  /\ Awaited(c)
  /\ \E retryable \in BOOLEAN : RetryOrConclude(c, retryable)
  /\ inFlight' = [inFlight EXCEPT ![c] = @ \ {Current(c)}]
  /\ UNCHANGED <<status, audit, abandons, raced>>

\* Mutant: no timer is armed.
NoTimer(c) ==
  /\ Awaited(c)
  /\ FALSE
  /\ UNCHANGED vars

\* The timer wins the race: the signal is aborted, the executor may go on.
AttemptTimesOut(c) ==
  /\ Awaited(c)
  /\ RetryOrConclude(c, TRUE)
  /\ UNCHANGED <<status, audit, inFlight, abandons, raced>>

\* An attempt nobody waits for ends; its result is dropped.
LeftoverEnds(c) ==
  /\ \E n \in inFlight[c] :
       /\ ~(Awaited(c) /\ n = Current(c))
       /\ inFlight' = [inFlight EXCEPT ![c] = @ \ {n}]
  /\ UNCHANGED <<status, audit, call, abandons, raced>>

\* Mutant: the closing event counts the retries, not the attempts.
CompleteCountingRetries(c) ==
  /\ call[c].pc = "completing"
  /\ UpdateStatusWithAudit(c, call[c].outcome,
                           ToolCompleted(call[c].outcome, call[c].attempts - 1))
  /\ Return(c, call[c].outcome)
  /\ UNCHANGED <<inFlight, abandons, raced>>

Complete(c) ==
  /\ call[c].pc = "completing"
  /\ UpdateStatusWithAudit(c, call[c].outcome,
                           ToolCompleted(call[c].outcome, call[c].attempts))
  /\ Return(c, call[c].outcome)
  /\ UNCHANGED <<inFlight, abandons, raced>>

-----------------------------------------------------------------------------
\* The process dies, a transaction rolls back and its error leaves execute,
\* or it commits and the reply is lost.
Abandon(c) ==
  /\ InProgress(c)
  /\ abandons < MaxAbandons
  /\ abandons' = abandons + 1
  /\ call' = [call EXCEPT ![c].pc = "lost"]
  /\ UNCHANGED <<status, audit, inFlight, raced>>

\* What the broker does on its own, the timer included.
BrokerStep(c) ==
  \/ InsertRequested(c)
  \/ InsertFails(c)
  \/ Reread(c)
  \/ Deny(c)
  \/ Allow(c)
  \/ StartRunning(c)
  \/ StartAttempt(c)
  \/ AttemptTimesOut(c)
  \/ Complete(c)

\* What the executor does, if it does anything.
ExecutorStep(c) == AttemptAnswers(c) \/ AttemptThrows(c) \/ LeftoverEnds(c)

Next ==
  \E c \in Calls :
    \/ \E i \in Invocations : ReturnExisting(c, i) \/ FindNothing(c, i)
    \/ BrokerStep(c)
    \/ ExecutorStep(c)
    \/ Abandon(c)

Spec == Init /\ [][Next]_vars

\* The event loop resumes a call whose query answered and fires its timers;
\* nothing obliges an executor to answer.
FairSpec == Spec /\ \A c \in Calls : WF_vars(BrokerStep(c))

-----------------------------------------------------------------------------
(* What the documentation promises of an invocation *)

\* An invocation is executed by at most one call.  (Idempotency: an existing
\* ToolCall is returned and not executed again; the unique index settles the
\* race between processes.)
ExecutedOnce == \A i \in Invocations : Cardinality(Executors(i)) <= 1

\* A ToolCall that ended is terminal: the same invocation returns the record
\* instead of opening its lifecycle again.
CompletedIsFinal ==
  [][\A i \in Invocations :
       status[i] \in {"SUCCEEDED", "FAILED"} => status'[i] = status[i]]_vars

-----------------------------------------------------------------------------
(* What the code does ensure *)

\* An executor runs only after TOOL_ALLOWED was committed for that very call:
\* however calls race, there are as many permissions in the log as executions.
EveryExecutionWasAllowed ==
  \A i \in Invocations :
    Cardinality({n \in 1 .. Len(audit[i]) : audit[i][n] = ToolAllowed})
      >= Cardinality(Executors(i))

\* Unless two calls held the answer "no row" at once, an invocation runs in
\* one call only, whatever is lost, repeated, timed out or retried.
ExecutedOnceUnlessRaced ==
  \A i \in Invocations \ raced : Cardinality(Executors(i)) <= 1

AttemptsOf(i) == UNION {{c} \X (1 .. call[c].attempts) : c \in CallsOf(i)}

\* Over all the calls of an unraced invocation its executor is asked once, or
\* once and max_retries more if the tool is idempotent: neither a duplicate
\* nor a repeated call after a crash adds to the budget.
AttemptBudget ==
  \A i \in Invocations \ raced :
    Cardinality(AttemptsOf(i)) <= IF i \in Idempotent THEN 1 + MaxRetries ELSE 1

\* Two attempts of one call work at the same time only for a tool that is
\* idempotent: a timed-out attempt nobody stopped is never doubled otherwise.
OverlapOnlyIfIdempotent ==
  \A c \in Calls : Cardinality(inFlight[c]) > 1 => call[c].inv \in Idempotent

\* The audit log of an unraced invocation tells the status of its row, and the
\* event that closes it counts every attempt that was made.
AuditTellsStatus ==
  \A i \in Invocations \ raced :
    audit[i] \in
      CASE status[i] = NoRow -> {<<>>}
        [] status[i] = "REQUESTED" -> {<<ToolRequested>>}
        [] status[i] = "DENIED" -> {<<ToolRequested, ToolDenied>>}
        [] status[i] \in {"ALLOWED", "RUNNING"} -> {<<ToolRequested, ToolAllowed>>}
        [] OTHER -> {<<ToolRequested, ToolAllowed,
                       ToolCompleted(status[i], call[c].attempts)>> :
                         c \in Executors(i)}

Invocation == INSTANCE ToolInvocation WITH
  record <- status,
  asked <- [i \in Invocations |-> [c \in Calls |->
              IF call[c].inv = i THEN call[c].attempts ELSE 0]],
  contested <- raced,
  answer <- [c \in Calls |-> IF call[c].pc = "returned"
                               THEN <<call[c].copy, call[c].inv>> ELSE <<>>]

\* However its calls are repeated, lost, timed out and retried, the broker keeps
\* its promise: one record, moved in legal steps and final, one call that asks
\* the executor within the budget, and callers that are told what is recorded.
ImplementsInvocation == Invocation!Spec

\* The row of an unraced invocation moves along the lifecycle only.
LifecycleUnlessRaced ==
  [][\A i \in Invocations \ raced' :
       status'[i] # status[i] =>
         \/ status[i] = NoRow /\ status'[i] = "REQUESTED"
         \/ CanTransitionToolCall(status[i], status'[i])]_vars

Deserted(i) ==
  status[i] # NoRow /\ \A c \in CallsOf(i) : ~InProgress(c)

\* Once no call of an invocation is in progress its row never moves again: a
\* later duplicate does not take over what a lost call left behind, be it a
\* row that ended or one left REQUESTED, ALLOWED or RUNNING.
NobodyTakesOver ==
  [][\A i \in Invocations :
       Deserted(i) => /\ Deserted(i)'
                      /\ status'[i] = status[i]
                      /\ audit'[i] = audit[i]]_vars

\* As long as no call is lost, every row settles in a terminal status for good,
\* and every call returns.
RowsSettle ==
  [](abandons = 0) =>
    \A i \in Invocations : status[i] # NoRow ~> [](status[i] \in Terminal)
CallsReturn ==
  [](abandons = 0) =>
    \A c \in Calls : call[c].pc = "inserting" ~> call[c].pc = "returned"
=============================================================================
