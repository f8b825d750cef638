-------------------------- MODULE ToolBrokerProofs --------------------------
(***************************************************************************)
(* Proofs that an invocation nobody raced for is executed by one call,     *)
(* within its budget, and that its row moves along the lifecycle, for any  *)
(* number of invocations, calls, retries and lost calls.                   *)
(*                                                                         *)
(* The row of an invocation has no owner in the table.  The invariant says *)
(* that an unraced one has an owner in effect: one call at most is engaged *)
(* in it, because whoever comes later finds the row, and as long as it is  *)
(* its copy in memory is what the row says.                                *)
(***************************************************************************)
EXTENDS ToolBroker, FiniteSetTheorems, SequenceTheorems, TLAPS

Working == {"deciding", "starting", "executing", "waiting", "completing"}

\* A call that has executed, or may still come to.
Engaged(c) ==
  \/ call[c].pc \in {"inserting", "rereading"} \cup Working
  \/ call[c].attempts > 0

\* The locals of a call fit where it is, and its attempts the budget.
ShapeOf(c) ==
  /\ call[c].pc # "idle" => call[c].inv \in Invocations
  /\ call[c].pc \in {"idle", "inserting", "rereading", "deciding", "starting"}
       => call[c].attempts = 0
  /\ call[c].attempts <= 1 + MaxRetries
  /\ call[c].pc = "executing" => call[c].attempts <= MaxRetries
  /\ call[c].inv \notin Idempotent =>
       /\ call[c].attempts <= 1
       /\ call[c].pc = "executing" => call[c].attempts = 0
  /\ call[c].pc \in {"waiting", "completing"} => call[c].attempts > 0
  /\ call[c].pc = "completing" => call[c].outcome \in {"SUCCEEDED", "FAILED"}

\* A call that works on an invocation or worked on it has a row to do so.
RowOf(c) ==
  call[c].pc \in Working \/ call[c].attempts > 0 => status[call[c].inv] # NoRow

\* The copy a call works from is where the call is, and is what the row says.
CopyOf(c) ==
  call[c].pc \in Working =>
    /\ call[c].copy = CASE call[c].pc = "deciding" -> "REQUESTED"
                        [] call[c].pc = "starting" -> "ALLOWED"
                        [] OTHER -> "RUNNING"
    /\ call[c].inv \notin raced => status[call[c].inv] = call[c].copy

\* Nobody else is engaged in an unraced invocation.
SoleEngaged ==
  \A c, d \in Calls :
    /\ Engaged(c) /\ Engaged(d)
    /\ call[c].inv = call[d].inv /\ call[c].inv \notin raced
    => c = d

BrokerInv ==
  /\ TypeOK
  /\ \A c \in Calls : ShapeOf(c) /\ RowOf(c) /\ CopyOf(c)
  /\ SoleEngaged

-----------------------------------------------------------------------------

\* No call is engaged in anything at first.
LEMMA BrokerInit == Init => BrokerInv
<1> SUFFICES ASSUME Init PROVE BrokerInv
  OBVIOUS
<1> USE InvocationsAssumption, BrokerBoundsAssumption DEF Init, Idle
<1>1. TypeOK
  BY DEF TypeOK, Locals
<1>2. ASSUME NEW c \in Calls PROVE ShapeOf(c) /\ RowOf(c) /\ CopyOf(c) /\ ~Engaged(c)
  BY DEF ShapeOf, RowOf, CopyOf, Engaged, Working
<1> QED BY <1>1, <1>2 DEF BrokerInv, SoleEngaged

\* What a call does to its own row and locals harms no other: it is enough that
\* the call itself fits, stays with its invocation, becomes engaged only if it
\* was and touches the row only if it was.
LEMMA StepOfOne ==
  ASSUME BrokerInv, TypeOK', NEW c \in Calls,
         call[c].pc # "idle",
         call'[c].inv = call[c].inv,
         \A d \in Calls \ {c} : call'[d] = call[d],
         \A i \in Invocations \ {call[c].inv} : status'[i] = status[i],
         \/ status'[call[c].inv] = status[call[c].inv]
         \/ Engaged(c) /\ status'[call[c].inv] # NoRow,
         raced' = raced,
         Engaged(c)' => Engaged(c),
         ShapeOf(c)', RowOf(c)', CopyOf(c)'
  PROVE  BrokerInv'
<1>1. call[c].inv \in Invocations
  BY DEF BrokerInv, ShapeOf
<1>2. ASSUME NEW d \in Calls, d # c PROVE ShapeOf(d)' /\ RowOf(d)' /\ CopyOf(d)'
  <2>1. ShapeOf(d) /\ RowOf(d) /\ CopyOf(d)
    BY DEF BrokerInv
  <2>2. call'[d] = call[d]
    BY <1>2
  <2>3. ShapeOf(d)'
    BY <2>1, <2>2 DEF ShapeOf
  <2>4. CASE call[d].inv = call[c].inv /\ call[d].inv \notin raced /\ Engaged(c)
    <3>1. ~Engaged(d)
      BY <1>2, <2>4 DEF BrokerInv, SoleEngaged
    <3> QED BY <2>2, <2>3, <3>1 DEF Engaged, RowOf, CopyOf
  <2>5. CASE ~(call[d].inv = call[c].inv /\ Engaged(c))
    <3>1. call[d].pc # "idle" => status'[call[d].inv] = status[call[d].inv]
      BY <2>1, <2>5 DEF ShapeOf
    <3>2. call[d].pc = "idle" => ~Engaged(d)
      BY <2>1 DEF ShapeOf, Engaged, Working
    <3> QED BY <2>1, <2>2, <2>3, <3>1, <3>2 DEF RowOf, CopyOf, Engaged
  <2>6. CASE call[d].inv = call[c].inv /\ call[d].inv \in raced
    BY <2>1, <2>2, <2>3, <2>6 DEF RowOf, CopyOf
  <2> QED BY <2>4, <2>5, <2>6
<1>3. SoleEngaged'
  <2>1. \A d \in Calls : Engaged(d)' => Engaged(d)
    BY DEF Engaged
  <2>2. \A d \in Calls : call'[d].inv = call[d].inv
    OBVIOUS
  <2> QED BY <2>1, <2>2 DEF BrokerInv, SoleEngaged
<1> QED BY <1>2, <1>3 DEF BrokerInv

\* Every step of the broker and of the executor keeps the invariant.
LEMMA BrokerStepInv == BrokerInv /\ [Next]_vars => BrokerInv'
<1> SUFFICES ASSUME BrokerInv, [Next]_vars PROVE BrokerInv'
  OBVIOUS
<1> USE InvocationsAssumption, BrokerBoundsAssumption
<1>a. TypeOK /\ \A c \in Calls : ShapeOf(c) /\ RowOf(c) /\ CopyOf(c)
  BY DEF BrokerInv
<1>b. \A c \in Calls : /\ call[c] \in Locals
                       /\ call[c].pc # "idle" => /\ call[c].inv \in Invocations
                                                 /\ status[call[c].inv] \in ToolCallStatus \cup {NoRow}
  BY <1>a DEF TypeOK, ShapeOf
<1>1. ASSUME NEW c \in Calls, InsertRequested(c) PROVE BrokerInv'
  <2>1. /\ call[c].pc = "inserting"
        /\ \/ call'[c] = [call[c] EXCEPT !.pc = "deciding", !.copy = "REQUESTED"]
           \/ call'[c] = [call[c] EXCEPT !.pc = "rereading"]
    BY <1>a, <1>b, <1>1 DEF InsertRequested, TypeOK
  <2>2. \A d \in Calls \ {c} : call'[d] = call[d]
    BY <1>a, <1>1 DEF InsertRequested, TypeOK
  <2>3. /\ call[c].pc # "idle" /\ call[c].attempts \in Nat
        /\ call'[c] \in Locals
        /\ call'[c].inv = call[c].inv
        /\ \/ /\ call'[c].pc = "deciding"
              /\ call'[c].copy = "REQUESTED"
              /\ call'[c].attempts = call[c].attempts
              /\ call'[c].outcome = call[c].outcome
           \/ /\ call'[c].pc = "rereading"
              /\ call'[c].copy = call[c].copy
              /\ call'[c].attempts = call[c].attempts
              /\ call'[c].outcome = call[c].outcome
    BY <1>a, <1>b, <2>1 DEF Locals, ShapeOf, ToolCallStatus, NoRow
  <2>4. TypeOK'
    <3>1. call' \in [Calls -> Locals]
      BY <1>a, <1>1, <2>2, <2>3 DEF InsertRequested, TypeOK
    <3>2. \A d \in Calls : inFlight'[d] \subseteq 1 .. call'[d].attempts
      BY <1>a, <1>1, <2>2, <2>3 DEF InsertRequested, TypeOK
    <3>3. status' \in [Invocations -> ToolCallStatus \cup {NoRow}]
      BY <1>a, <1>b, <1>1, <2>1 DEF InsertRequested, TypeOK, ToolCallStatus, ShapeOf
    <3>4. audit' \in [Invocations -> Seq(ToolEvent)]
      BY <1>a, <1>b, <1>1, <2>1 DEF InsertRequested, TypeOK, ToolEvent, Locals, ShapeOf, ToolRequested, EventOf
    <3> QED BY <1>a, <1>1, <3>1, <3>2, <3>3, <3>4 DEF InsertRequested, TypeOK
  <2>5. Engaged(c)' => Engaged(c)
    BY <2>1, <2>3 DEF Engaged, Working
  <2>6. /\ raced' = raced
        /\ \A i \in Invocations \ {call[c].inv} : status'[i] = status[i]
        /\ \/ status'[call[c].inv] = status[call[c].inv]
           \/ Engaged(c) /\ status'[call[c].inv] # NoRow
    BY <1>a, <1>b, <1>1, <2>1 DEF InsertRequested, Engaged, Working, TypeOK, ShapeOf, NoRow
  <2>7. ShapeOf(c)'
    BY <1>a, <2>1, <2>3 DEF ShapeOf
  <2>8. RowOf(c)' /\ CopyOf(c)'
    BY <1>a, <1>b, <1>1, <2>1, <2>3 DEF InsertRequested, ShapeOf, RowOf, CopyOf, Working, TypeOK, NoRow
  <2> QED BY <1>1, <2>2, <2>3, <2>4, <2>5, <2>6, <2>7, <2>8, StepOfOne
<1>2. ASSUME NEW c \in Calls, InsertFails(c) PROVE BrokerInv'
  <2>1. /\ call[c].pc = "inserting"
        /\ call'[c] = [call[c] EXCEPT !.pc = "rereading"]
    BY <1>a, <1>b, <1>2 DEF InsertFails, TypeOK
  <2>2. \A d \in Calls \ {c} : call'[d] = call[d]
    BY <1>a, <1>2 DEF InsertFails, TypeOK
  <2>3. /\ call[c].pc # "idle" /\ call[c].attempts \in Nat
        /\ call'[c] \in Locals
        /\ call'[c].inv = call[c].inv
        /\ call'[c].pc = "rereading"
        /\ call'[c].copy = call[c].copy
        /\ call'[c].attempts = call[c].attempts
        /\ call'[c].outcome = call[c].outcome
    BY <1>a, <1>b, <2>1 DEF Locals, ShapeOf, ToolCallStatus, NoRow
  <2>4. TypeOK'
    <3>1. call' \in [Calls -> Locals]
      BY <1>a, <1>2, <2>2, <2>3 DEF InsertFails, TypeOK
    <3>2. \A d \in Calls : inFlight'[d] \subseteq 1 .. call'[d].attempts
      BY <1>a, <1>2, <2>2, <2>3 DEF InsertFails, TypeOK
    <3>3. status' \in [Invocations -> ToolCallStatus \cup {NoRow}]
      BY <1>a, <1>b, <1>2, <2>1 DEF InsertFails, TypeOK, ToolCallStatus, ShapeOf
    <3>4. audit' \in [Invocations -> Seq(ToolEvent)]
      BY <1>a, <1>b, <1>2, <2>1 DEF InsertFails, TypeOK
    <3> QED BY <1>a, <1>2, <3>1, <3>2, <3>3, <3>4 DEF InsertFails, TypeOK
  <2>5. Engaged(c)' => Engaged(c)
    BY <2>1, <2>3 DEF Engaged, Working
  <2>6. /\ raced' = raced
        /\ \A i \in Invocations \ {call[c].inv} : status'[i] = status[i]
        /\ \/ status'[call[c].inv] = status[call[c].inv]
           \/ Engaged(c) /\ status'[call[c].inv] # NoRow
    BY <1>a, <1>b, <1>2, <2>1 DEF InsertFails, Engaged, Working, TypeOK, ShapeOf, NoRow
  <2>7. ShapeOf(c)'
    BY <1>a, <2>1, <2>3 DEF ShapeOf
  <2>8. RowOf(c)' /\ CopyOf(c)'
    BY <1>a, <1>b, <1>2, <2>1, <2>3 DEF InsertFails, ShapeOf, RowOf, CopyOf, Working, TypeOK, NoRow
  <2> QED BY <1>2, <2>2, <2>3, <2>4, <2>5, <2>6, <2>7, <2>8, StepOfOne
<1>3. ASSUME NEW c \in Calls, Reread(c) PROVE BrokerInv'
  <2>1. /\ call[c].pc = "rereading"
        /\ \/ status[call[c].inv] = "REQUESTED" /\ call'[c] = [call[c] EXCEPT !.pc = "deciding", !.copy = "REQUESTED"]
           \/ call'[c] = [call[c] EXCEPT !.pc = "returned", !.copy = status[call[c].inv]]
    BY <1>a, <1>b, <1>3 DEF Reread, ContinuesWith, Return, TypeOK
  <2>2. \A d \in Calls \ {c} : call'[d] = call[d]
    BY <1>a, <1>3 DEF Reread, ContinuesWith, Return, TypeOK
  <2>3. /\ call[c].pc # "idle" /\ call[c].attempts \in Nat
        /\ call'[c] \in Locals
        /\ call'[c].inv = call[c].inv
        /\ \/ /\ status[call[c].inv] = "REQUESTED"
              /\ call'[c].pc = "deciding"
              /\ call'[c].copy = "REQUESTED"
              /\ call'[c].attempts = call[c].attempts
              /\ call'[c].outcome = call[c].outcome
           \/ /\ call'[c].pc = "returned"
              /\ call'[c].copy = status[call[c].inv]
              /\ call'[c].attempts = call[c].attempts
              /\ call'[c].outcome = call[c].outcome
    BY <1>a, <1>b, <2>1 DEF Locals, ShapeOf, ToolCallStatus, NoRow
  <2>4. TypeOK'
    <3>1. call' \in [Calls -> Locals]
      BY <1>a, <1>3, <2>2, <2>3 DEF Reread, ContinuesWith, Return, TypeOK
    <3>2. \A d \in Calls : inFlight'[d] \subseteq 1 .. call'[d].attempts
      BY <1>a, <1>3, <2>2, <2>3 DEF Reread, ContinuesWith, Return, TypeOK
    <3>3. status' \in [Invocations -> ToolCallStatus \cup {NoRow}]
      BY <1>a, <1>b, <1>3, <2>1 DEF Reread, ContinuesWith, Return, TypeOK, ToolCallStatus, ShapeOf
    <3>4. audit' \in [Invocations -> Seq(ToolEvent)]
      BY <1>a, <1>b, <1>3, <2>1 DEF Reread, ContinuesWith, Return, TypeOK
    <3> QED BY <1>a, <1>3, <3>1, <3>2, <3>3, <3>4 DEF Reread, ContinuesWith, Return, TypeOK
  <2>5. Engaged(c)' => Engaged(c)
    BY <2>1, <2>3 DEF Engaged, Working
  <2>6. /\ raced' = raced
        /\ \A i \in Invocations \ {call[c].inv} : status'[i] = status[i]
        /\ \/ status'[call[c].inv] = status[call[c].inv]
           \/ Engaged(c) /\ status'[call[c].inv] # NoRow
    BY <1>a, <1>b, <1>3, <2>1 DEF Reread, ContinuesWith, Return, Engaged, Working, TypeOK, ShapeOf, NoRow
  <2>7. ShapeOf(c)'
    BY <1>a, <2>1, <2>3 DEF ShapeOf
  <2>8. RowOf(c)' /\ CopyOf(c)'
    BY <1>a, <1>b, <1>3, <2>1, <2>3 DEF Reread, ContinuesWith, Return, ShapeOf, RowOf, CopyOf, Working, TypeOK, NoRow
  <2> QED BY <1>3, <2>2, <2>3, <2>4, <2>5, <2>6, <2>7, <2>8, StepOfOne
<1>4. ASSUME NEW c \in Calls, Deny(c) PROVE BrokerInv'
  <2>1. /\ call[c].pc = "deciding"
        /\ call'[c] = [call[c] EXCEPT !.pc = "returned", !.copy = "DENIED"]
    BY <1>a, <1>b, <1>4 DEF Deny, UpdateStatus, UpdateStatusWithAudit, Return, TypeOK
  <2>2. \A d \in Calls \ {c} : call'[d] = call[d]
    BY <1>a, <1>4 DEF Deny, UpdateStatus, UpdateStatusWithAudit, Return, TypeOK
  <2>3. /\ call[c].pc # "idle" /\ call[c].attempts \in Nat
        /\ call'[c] \in Locals
        /\ call'[c].inv = call[c].inv
        /\ call'[c].pc = "returned"
        /\ call'[c].copy = "DENIED"
        /\ call'[c].attempts = call[c].attempts
        /\ call'[c].outcome = call[c].outcome
    BY <1>a, <1>b, <2>1 DEF Locals, ShapeOf, ToolCallStatus, NoRow
  <2>4. TypeOK'
    <3>1. call' \in [Calls -> Locals]
      BY <1>a, <1>4, <2>2, <2>3 DEF Deny, UpdateStatus, UpdateStatusWithAudit, Return, TypeOK
    <3>2. \A d \in Calls : inFlight'[d] \subseteq 1 .. call'[d].attempts
      BY <1>a, <1>4, <2>2, <2>3 DEF Deny, UpdateStatus, UpdateStatusWithAudit, Return, TypeOK
    <3>3. status' \in [Invocations -> ToolCallStatus \cup {NoRow}]
      BY <1>a, <1>b, <1>4, <2>1 DEF Deny, UpdateStatus, UpdateStatusWithAudit, Return, TypeOK, ToolCallStatus, ShapeOf
    <3>4. audit' \in [Invocations -> Seq(ToolEvent)]
      BY <1>a, <1>b, <1>4, <2>1 DEF Deny, UpdateStatus, UpdateStatusWithAudit, Return, TypeOK, ToolEvent, Locals, ShapeOf, ToolDenied, EventOf
    <3> QED BY <1>a, <1>4, <3>1, <3>2, <3>3, <3>4 DEF Deny, UpdateStatus, UpdateStatusWithAudit, Return, TypeOK
  <2>5. Engaged(c)' => Engaged(c)
    BY <2>1, <2>3 DEF Engaged, Working
  <2>6. /\ raced' = raced
        /\ \A i \in Invocations \ {call[c].inv} : status'[i] = status[i]
        /\ \/ status'[call[c].inv] = status[call[c].inv]
           \/ Engaged(c) /\ status'[call[c].inv] # NoRow
    BY <1>a, <1>b, <1>4, <2>1 DEF Deny, UpdateStatus, UpdateStatusWithAudit, Return, Engaged, Working, TypeOK, ShapeOf, NoRow
  <2>7. ShapeOf(c)'
    BY <1>a, <2>1, <2>3 DEF ShapeOf
  <2>8. RowOf(c)' /\ CopyOf(c)'
    BY <1>a, <1>b, <1>4, <2>1, <2>3 DEF Deny, UpdateStatus, UpdateStatusWithAudit, Return, ShapeOf, RowOf, CopyOf, Working, TypeOK, NoRow
  <2> QED BY <1>4, <2>2, <2>3, <2>4, <2>5, <2>6, <2>7, <2>8, StepOfOne
<1>5. ASSUME NEW c \in Calls, Allow(c) PROVE BrokerInv'
  <2>1. /\ call[c].pc = "deciding"
        /\ call'[c] = [call[c] EXCEPT !.pc = "starting", !.copy = "ALLOWED"]
    BY <1>a, <1>b, <1>5 DEF Allow, UpdateStatus, UpdateStatusWithAudit, TypeOK
  <2>2. \A d \in Calls \ {c} : call'[d] = call[d]
    BY <1>a, <1>5 DEF Allow, UpdateStatus, UpdateStatusWithAudit, TypeOK
  <2>3. /\ call[c].pc # "idle" /\ call[c].attempts \in Nat
        /\ call'[c] \in Locals
        /\ call'[c].inv = call[c].inv
        /\ call'[c].pc = "starting"
        /\ call'[c].copy = "ALLOWED"
        /\ call'[c].attempts = call[c].attempts
        /\ call'[c].outcome = call[c].outcome
    BY <1>a, <1>b, <2>1 DEF Locals, ShapeOf, ToolCallStatus, NoRow
  <2>4. TypeOK'
    <3>1. call' \in [Calls -> Locals]
      BY <1>a, <1>5, <2>2, <2>3 DEF Allow, UpdateStatus, UpdateStatusWithAudit, TypeOK
    <3>2. \A d \in Calls : inFlight'[d] \subseteq 1 .. call'[d].attempts
      BY <1>a, <1>5, <2>2, <2>3 DEF Allow, UpdateStatus, UpdateStatusWithAudit, TypeOK
    <3>3. status' \in [Invocations -> ToolCallStatus \cup {NoRow}]
      BY <1>a, <1>b, <1>5, <2>1 DEF Allow, UpdateStatus, UpdateStatusWithAudit, TypeOK, ToolCallStatus, ShapeOf
    <3>4. audit' \in [Invocations -> Seq(ToolEvent)]
      BY <1>a, <1>b, <1>5, <2>1 DEF Allow, UpdateStatus, UpdateStatusWithAudit, TypeOK, ToolEvent, Locals, ShapeOf, ToolAllowed, EventOf
    <3> QED BY <1>a, <1>5, <3>1, <3>2, <3>3, <3>4 DEF Allow, UpdateStatus, UpdateStatusWithAudit, TypeOK
  <2>5. Engaged(c)' => Engaged(c)
    BY <2>1, <2>3 DEF Engaged, Working
  <2>6. /\ raced' = raced
        /\ \A i \in Invocations \ {call[c].inv} : status'[i] = status[i]
        /\ \/ status'[call[c].inv] = status[call[c].inv]
           \/ Engaged(c) /\ status'[call[c].inv] # NoRow
    BY <1>a, <1>b, <1>5, <2>1 DEF Allow, UpdateStatus, UpdateStatusWithAudit, Engaged, Working, TypeOK, ShapeOf, NoRow
  <2>7. ShapeOf(c)'
    BY <1>a, <2>1, <2>3 DEF ShapeOf
  <2>8. RowOf(c)' /\ CopyOf(c)'
    BY <1>a, <1>b, <1>5, <2>1, <2>3 DEF Allow, UpdateStatus, UpdateStatusWithAudit, ShapeOf, RowOf, CopyOf, Working, TypeOK, NoRow
  <2> QED BY <1>5, <2>2, <2>3, <2>4, <2>5, <2>6, <2>7, <2>8, StepOfOne
<1>6. ASSUME NEW c \in Calls, StartRunning(c) PROVE BrokerInv'
  <2>1. /\ call[c].pc = "starting"
        /\ call'[c] = [call[c] EXCEPT !.pc = "executing", !.copy = "RUNNING"]
    BY <1>a, <1>b, <1>6 DEF StartRunning, UpdateStatus, TypeOK
  <2>2. \A d \in Calls \ {c} : call'[d] = call[d]
    BY <1>a, <1>6 DEF StartRunning, UpdateStatus, TypeOK
  <2>3. /\ call[c].pc # "idle" /\ call[c].attempts \in Nat
        /\ call'[c] \in Locals
        /\ call'[c].inv = call[c].inv
        /\ call'[c].pc = "executing"
        /\ call'[c].copy = "RUNNING"
        /\ call'[c].attempts = call[c].attempts
        /\ call'[c].outcome = call[c].outcome
    BY <1>a, <1>b, <2>1 DEF Locals, ShapeOf, ToolCallStatus, NoRow
  <2>4. TypeOK'
    <3>1. call' \in [Calls -> Locals]
      BY <1>a, <1>6, <2>2, <2>3 DEF StartRunning, UpdateStatus, TypeOK
    <3>2. \A d \in Calls : inFlight'[d] \subseteq 1 .. call'[d].attempts
      BY <1>a, <1>6, <2>2, <2>3 DEF StartRunning, UpdateStatus, TypeOK
    <3>3. status' \in [Invocations -> ToolCallStatus \cup {NoRow}]
      BY <1>a, <1>b, <1>6, <2>1 DEF StartRunning, UpdateStatus, TypeOK, ToolCallStatus, ShapeOf
    <3>4. audit' \in [Invocations -> Seq(ToolEvent)]
      BY <1>a, <1>b, <1>6, <2>1 DEF StartRunning, UpdateStatus, TypeOK
    <3> QED BY <1>a, <1>6, <3>1, <3>2, <3>3, <3>4 DEF StartRunning, UpdateStatus, TypeOK
  <2>5. Engaged(c)' => Engaged(c)
    BY <2>1, <2>3 DEF Engaged, Working
  <2>6. /\ raced' = raced
        /\ \A i \in Invocations \ {call[c].inv} : status'[i] = status[i]
        /\ \/ status'[call[c].inv] = status[call[c].inv]
           \/ Engaged(c) /\ status'[call[c].inv] # NoRow
    BY <1>a, <1>b, <1>6, <2>1 DEF StartRunning, UpdateStatus, Engaged, Working, TypeOK, ShapeOf, NoRow
  <2>7. ShapeOf(c)'
    BY <1>a, <2>1, <2>3 DEF ShapeOf
  <2>8. RowOf(c)' /\ CopyOf(c)'
    BY <1>a, <1>b, <1>6, <2>1, <2>3 DEF StartRunning, UpdateStatus, ShapeOf, RowOf, CopyOf, Working, TypeOK, NoRow
  <2> QED BY <1>6, <2>2, <2>3, <2>4, <2>5, <2>6, <2>7, <2>8, StepOfOne
<1>7. ASSUME NEW c \in Calls, StartAttempt(c) PROVE BrokerInv'
  <2>1. /\ call[c].pc = "executing"
        /\ call'[c] = [call[c] EXCEPT !.pc = "waiting", !.attempts = call[c].attempts + 1]
    BY <1>a, <1>b, <1>7 DEF StartAttempt, Current, TypeOK
  <2>2. \A d \in Calls \ {c} : call'[d] = call[d]
    BY <1>a, <1>7 DEF StartAttempt, Current, TypeOK
  <2>3. /\ call[c].pc # "idle" /\ call[c].attempts \in Nat
        /\ call'[c] \in Locals
        /\ call'[c].inv = call[c].inv
        /\ call'[c].pc = "waiting"
        /\ call'[c].copy = call[c].copy
        /\ call'[c].attempts = call[c].attempts + 1
        /\ call'[c].outcome = call[c].outcome
    <3>1. call[c].attempts \in Nat /\ call[c].attempts + 1 \in Nat
      BY <1>b DEF Locals
    <3>2. PICK n \in Nat : n = call[c].attempts + 1
      BY <3>1
    <3>3. call'[c] = [call[c] EXCEPT !.pc = "waiting", !.attempts = n]
      BY <2>1, <3>2
    <3>4. /\ call'[c] \in Locals
          /\ call'[c].inv = call[c].inv /\ call'[c].pc = "waiting"
          /\ call'[c].copy = call[c].copy /\ call'[c].attempts = n
          /\ call'[c].outcome = call[c].outcome
      BY <1>b, <3>3 DEF Locals
    <3> QED BY <2>1, <3>1, <3>2, <3>4
  <2>4. TypeOK'
    <3>1. call' \in [Calls -> Locals]
      BY <1>a, <1>7, <2>2, <2>3 DEF StartAttempt, Current, TypeOK
    <3>2. \A d \in Calls : inFlight'[d] \subseteq 1 .. call'[d].attempts
      BY <1>a, <1>7, <2>2, <2>3 DEF StartAttempt, Current, TypeOK
    <3>3. status' \in [Invocations -> ToolCallStatus \cup {NoRow}]
      BY <1>a, <1>b, <1>7, <2>1 DEF StartAttempt, Current, TypeOK, ToolCallStatus, ShapeOf
    <3>4. audit' \in [Invocations -> Seq(ToolEvent)]
      BY <1>a, <1>b, <1>7, <2>1 DEF StartAttempt, Current, TypeOK
    <3> QED BY <1>a, <1>7, <3>1, <3>2, <3>3, <3>4 DEF StartAttempt, Current, TypeOK
  <2>5. Engaged(c)' => Engaged(c)
    BY <2>1, <2>3 DEF Engaged, Working
  <2>6. /\ raced' = raced
        /\ \A i \in Invocations \ {call[c].inv} : status'[i] = status[i]
        /\ \/ status'[call[c].inv] = status[call[c].inv]
           \/ Engaged(c) /\ status'[call[c].inv] # NoRow
    BY <1>a, <1>b, <1>7, <2>1 DEF StartAttempt, Current, Engaged, Working, TypeOK, ShapeOf, NoRow
  <2>7. ShapeOf(c)'
    BY <1>a, <2>1, <2>3 DEF ShapeOf
  <2>8. RowOf(c)' /\ CopyOf(c)'
    BY <1>a, <1>b, <1>7, <2>1, <2>3 DEF StartAttempt, Current, ShapeOf, RowOf, CopyOf, Working, TypeOK, NoRow
  <2> QED BY <1>7, <2>2, <2>3, <2>4, <2>5, <2>6, <2>7, <2>8, StepOfOne
<1>8. ASSUME NEW c \in Calls, AttemptAnswers(c) PROVE BrokerInv'
  <2>1. /\ call[c].pc = "waiting"
        /\ \/ call'[c] = [call[c] EXCEPT !.pc = "completing", !.outcome = "SUCCEEDED"]
           \/ call'[c] = [call[c] EXCEPT !.pc = "completing", !.outcome = "FAILED"]
    BY <1>a, <1>b, <1>8 DEF AttemptAnswers, Awaited, Current, Conclude, TypeOK
  <2>2. \A d \in Calls \ {c} : call'[d] = call[d]
    BY <1>a, <1>8 DEF AttemptAnswers, Awaited, Current, Conclude, TypeOK
  <2>3. /\ call[c].pc # "idle" /\ call[c].attempts \in Nat
        /\ call'[c] \in Locals
        /\ call'[c].inv = call[c].inv
        /\ \/ /\ call'[c].pc = "completing"
              /\ call'[c].copy = call[c].copy
              /\ call'[c].attempts = call[c].attempts
              /\ call'[c].outcome = "SUCCEEDED"
           \/ /\ call'[c].pc = "completing"
              /\ call'[c].copy = call[c].copy
              /\ call'[c].attempts = call[c].attempts
              /\ call'[c].outcome = "FAILED"
    BY <1>a, <1>b, <2>1 DEF Locals, ShapeOf, ToolCallStatus, NoRow
  <2>4. TypeOK'
    <3>1. call' \in [Calls -> Locals]
      BY <1>a, <1>8, <2>2, <2>3 DEF AttemptAnswers, Awaited, Current, Conclude, TypeOK
    <3>2. \A d \in Calls : inFlight'[d] \subseteq 1 .. call'[d].attempts
      BY <1>a, <1>8, <2>2, <2>3 DEF AttemptAnswers, Awaited, Current, Conclude, TypeOK
    <3>3. status' \in [Invocations -> ToolCallStatus \cup {NoRow}]
      BY <1>a, <1>b, <1>8, <2>1 DEF AttemptAnswers, Awaited, Current, Conclude, TypeOK, ToolCallStatus, ShapeOf
    <3>4. audit' \in [Invocations -> Seq(ToolEvent)]
      BY <1>a, <1>b, <1>8, <2>1 DEF AttemptAnswers, Awaited, Current, Conclude, TypeOK
    <3> QED BY <1>a, <1>8, <3>1, <3>2, <3>3, <3>4 DEF AttemptAnswers, Awaited, Current, Conclude, TypeOK
  <2>5. Engaged(c)' => Engaged(c)
    BY <2>1, <2>3 DEF Engaged, Working
  <2>6. /\ raced' = raced
        /\ \A i \in Invocations \ {call[c].inv} : status'[i] = status[i]
        /\ \/ status'[call[c].inv] = status[call[c].inv]
           \/ Engaged(c) /\ status'[call[c].inv] # NoRow
    BY <1>a, <1>b, <1>8, <2>1 DEF AttemptAnswers, Awaited, Current, Conclude, Engaged, Working, TypeOK, ShapeOf, NoRow
  <2>7. ShapeOf(c)'
    BY <1>a, <2>1, <2>3 DEF ShapeOf
  <2>8. RowOf(c)' /\ CopyOf(c)'
    BY <1>a, <1>b, <1>8, <2>1, <2>3 DEF AttemptAnswers, Awaited, Current, Conclude, ShapeOf, RowOf, CopyOf, Working, TypeOK, NoRow
  <2> QED BY <1>8, <2>2, <2>3, <2>4, <2>5, <2>6, <2>7, <2>8, StepOfOne
<1>9. ASSUME NEW c \in Calls, AttemptThrows(c) PROVE BrokerInv'
  <2>1. /\ call[c].pc = "waiting"
        /\ \/ CanRetry(c) /\ call'[c] = [call[c] EXCEPT !.pc = "executing"]
           \/ call'[c] = [call[c] EXCEPT !.pc = "completing", !.outcome = "FAILED"]
    BY <1>a, <1>b, <1>9 DEF AttemptThrows, Awaited, Current, Conclude, RetryOrConclude, TypeOK
  <2>2. \A d \in Calls \ {c} : call'[d] = call[d]
    BY <1>a, <1>9 DEF AttemptThrows, Awaited, Current, Conclude, RetryOrConclude, TypeOK
  <2>3. /\ call[c].pc # "idle" /\ call[c].attempts \in Nat
        /\ call'[c] \in Locals
        /\ call'[c].inv = call[c].inv
        /\ \/ /\ CanRetry(c)
              /\ call'[c].pc = "executing"
              /\ call'[c].copy = call[c].copy
              /\ call'[c].attempts = call[c].attempts
              /\ call'[c].outcome = call[c].outcome
           \/ /\ call'[c].pc = "completing"
              /\ call'[c].copy = call[c].copy
              /\ call'[c].attempts = call[c].attempts
              /\ call'[c].outcome = "FAILED"
    BY <1>a, <1>b, <2>1 DEF Locals, ShapeOf, ToolCallStatus, NoRow
  <2>4. TypeOK'
    <3>1. call' \in [Calls -> Locals]
      BY <1>a, <1>9, <2>2, <2>3 DEF AttemptThrows, Awaited, Current, Conclude, RetryOrConclude, TypeOK
    <3>2. \A d \in Calls : inFlight'[d] \subseteq 1 .. call'[d].attempts
      BY <1>a, <1>9, <2>2, <2>3 DEF AttemptThrows, Awaited, Current, Conclude, RetryOrConclude, TypeOK
    <3>3. status' \in [Invocations -> ToolCallStatus \cup {NoRow}]
      BY <1>a, <1>b, <1>9, <2>1 DEF AttemptThrows, Awaited, Current, Conclude, RetryOrConclude, TypeOK, ToolCallStatus, ShapeOf
    <3>4. audit' \in [Invocations -> Seq(ToolEvent)]
      BY <1>a, <1>b, <1>9, <2>1 DEF AttemptThrows, Awaited, Current, Conclude, RetryOrConclude, TypeOK
    <3> QED BY <1>a, <1>9, <3>1, <3>2, <3>3, <3>4 DEF AttemptThrows, Awaited, Current, Conclude, RetryOrConclude, TypeOK
  <2>5. Engaged(c)' => Engaged(c)
    BY <2>1, <2>3 DEF Engaged, Working
  <2>6. /\ raced' = raced
        /\ \A i \in Invocations \ {call[c].inv} : status'[i] = status[i]
        /\ \/ status'[call[c].inv] = status[call[c].inv]
           \/ Engaged(c) /\ status'[call[c].inv] # NoRow
    BY <1>a, <1>b, <1>9, <2>1 DEF AttemptThrows, Awaited, Current, Conclude, RetryOrConclude, Engaged, Working, TypeOK, ShapeOf, NoRow
  <2>7. ShapeOf(c)'
    BY <1>a, <2>1, <2>3 DEF ShapeOf, CanRetry
  <2>8. RowOf(c)' /\ CopyOf(c)'
    BY <1>a, <1>b, <1>9, <2>1, <2>3 DEF AttemptThrows, Awaited, Current, Conclude, RetryOrConclude, ShapeOf, RowOf, CopyOf, Working, TypeOK, NoRow
  <2> QED BY <1>9, <2>2, <2>3, <2>4, <2>5, <2>6, <2>7, <2>8, StepOfOne
<1>10. ASSUME NEW c \in Calls, AttemptTimesOut(c) PROVE BrokerInv'
  <2>1. /\ call[c].pc = "waiting"
        /\ \/ CanRetry(c) /\ call'[c] = [call[c] EXCEPT !.pc = "executing"]
           \/ call'[c] = [call[c] EXCEPT !.pc = "completing", !.outcome = "FAILED"]
    BY <1>a, <1>b, <1>10 DEF AttemptTimesOut, Awaited, Current, Conclude, RetryOrConclude, TypeOK
  <2>2. \A d \in Calls \ {c} : call'[d] = call[d]
    BY <1>a, <1>10 DEF AttemptTimesOut, Awaited, Current, Conclude, RetryOrConclude, TypeOK
  <2>3. /\ call[c].pc # "idle" /\ call[c].attempts \in Nat
        /\ call'[c] \in Locals
        /\ call'[c].inv = call[c].inv
        /\ \/ /\ CanRetry(c)
              /\ call'[c].pc = "executing"
              /\ call'[c].copy = call[c].copy
              /\ call'[c].attempts = call[c].attempts
              /\ call'[c].outcome = call[c].outcome
           \/ /\ call'[c].pc = "completing"
              /\ call'[c].copy = call[c].copy
              /\ call'[c].attempts = call[c].attempts
              /\ call'[c].outcome = "FAILED"
    BY <1>a, <1>b, <2>1 DEF Locals, ShapeOf, ToolCallStatus, NoRow
  <2>4. TypeOK'
    <3>1. call' \in [Calls -> Locals]
      BY <1>a, <1>10, <2>2, <2>3 DEF AttemptTimesOut, Awaited, Current, Conclude, RetryOrConclude, TypeOK
    <3>2. \A d \in Calls : inFlight'[d] \subseteq 1 .. call'[d].attempts
      BY <1>a, <1>10, <2>2, <2>3 DEF AttemptTimesOut, Awaited, Current, Conclude, RetryOrConclude, TypeOK
    <3>3. status' \in [Invocations -> ToolCallStatus \cup {NoRow}]
      BY <1>a, <1>b, <1>10, <2>1 DEF AttemptTimesOut, Awaited, Current, Conclude, RetryOrConclude, TypeOK, ToolCallStatus, ShapeOf
    <3>4. audit' \in [Invocations -> Seq(ToolEvent)]
      BY <1>a, <1>b, <1>10, <2>1 DEF AttemptTimesOut, Awaited, Current, Conclude, RetryOrConclude, TypeOK
    <3> QED BY <1>a, <1>10, <3>1, <3>2, <3>3, <3>4 DEF AttemptTimesOut, Awaited, Current, Conclude, RetryOrConclude, TypeOK
  <2>5. Engaged(c)' => Engaged(c)
    BY <2>1, <2>3 DEF Engaged, Working
  <2>6. /\ raced' = raced
        /\ \A i \in Invocations \ {call[c].inv} : status'[i] = status[i]
        /\ \/ status'[call[c].inv] = status[call[c].inv]
           \/ Engaged(c) /\ status'[call[c].inv] # NoRow
    BY <1>a, <1>b, <1>10, <2>1 DEF AttemptTimesOut, Awaited, Current, Conclude, RetryOrConclude, Engaged, Working, TypeOK, ShapeOf, NoRow
  <2>7. ShapeOf(c)'
    BY <1>a, <2>1, <2>3 DEF ShapeOf, CanRetry
  <2>8. RowOf(c)' /\ CopyOf(c)'
    BY <1>a, <1>b, <1>10, <2>1, <2>3 DEF AttemptTimesOut, Awaited, Current, Conclude, RetryOrConclude, ShapeOf, RowOf, CopyOf, Working, TypeOK, NoRow
  <2> QED BY <1>10, <2>2, <2>3, <2>4, <2>5, <2>6, <2>7, <2>8, StepOfOne
<1>11. ASSUME NEW c \in Calls, Complete(c) PROVE BrokerInv'
  <2>1. /\ call[c].pc = "completing"
        /\ call'[c] = [call[c] EXCEPT !.pc = "returned", !.copy = call[c].outcome]
    BY <1>a, <1>b, <1>11 DEF Complete, UpdateStatus, UpdateStatusWithAudit, Return, TypeOK
  <2>2. \A d \in Calls \ {c} : call'[d] = call[d]
    BY <1>a, <1>11 DEF Complete, UpdateStatus, UpdateStatusWithAudit, Return, TypeOK
  <2>3. /\ call[c].pc # "idle" /\ call[c].attempts \in Nat
        /\ call'[c] \in Locals
        /\ call'[c].inv = call[c].inv
        /\ call'[c].pc = "returned"
        /\ call'[c].copy = call[c].outcome
        /\ call'[c].attempts = call[c].attempts
        /\ call'[c].outcome = call[c].outcome
    BY <1>a, <1>b, <2>1 DEF Locals, ShapeOf, ToolCallStatus, NoRow
  <2>4. TypeOK'
    <3>1. call' \in [Calls -> Locals]
      BY <1>a, <1>11, <2>2, <2>3 DEF Complete, UpdateStatus, UpdateStatusWithAudit, Return, TypeOK
    <3>2. \A d \in Calls : inFlight'[d] \subseteq 1 .. call'[d].attempts
      BY <1>a, <1>11, <2>2, <2>3 DEF Complete, UpdateStatus, UpdateStatusWithAudit, Return, TypeOK
    <3>3. status' \in [Invocations -> ToolCallStatus \cup {NoRow}]
      BY <1>a, <1>b, <1>11, <2>1 DEF Complete, UpdateStatus, UpdateStatusWithAudit, Return, TypeOK, ToolCallStatus, ShapeOf
    <3>4. audit' \in [Invocations -> Seq(ToolEvent)]
      BY <1>a, <1>b, <1>11, <2>1 DEF Complete, UpdateStatus, UpdateStatusWithAudit, Return, TypeOK, ToolEvent, Locals, ShapeOf, ToolCompleted
    <3> QED BY <1>a, <1>11, <3>1, <3>2, <3>3, <3>4 DEF Complete, UpdateStatus, UpdateStatusWithAudit, Return, TypeOK
  <2>5. Engaged(c)' => Engaged(c)
    BY <2>1, <2>3 DEF Engaged, Working
  <2>6. /\ raced' = raced
        /\ \A i \in Invocations \ {call[c].inv} : status'[i] = status[i]
        /\ \/ status'[call[c].inv] = status[call[c].inv]
           \/ Engaged(c) /\ status'[call[c].inv] # NoRow
    BY <1>a, <1>b, <1>11, <2>1 DEF Complete, UpdateStatus, UpdateStatusWithAudit, Return, Engaged, Working, TypeOK, ShapeOf, NoRow
  <2>7. ShapeOf(c)'
    BY <1>a, <2>1, <2>3 DEF ShapeOf
  <2>8. RowOf(c)' /\ CopyOf(c)'
    BY <1>a, <1>b, <1>11, <2>1, <2>3 DEF Complete, UpdateStatus, UpdateStatusWithAudit, Return, ShapeOf, RowOf, CopyOf, Working, TypeOK, NoRow
  <2> QED BY <1>11, <2>2, <2>3, <2>4, <2>5, <2>6, <2>7, <2>8, StepOfOne
<1>12. ASSUME NEW c \in Calls, Abandon(c) PROVE BrokerInv'
  <2>1. /\ InProgress(c)
        /\ call'[c] = [call[c] EXCEPT !.pc = "lost"]
    BY <1>a, <1>b, <1>12 DEF Abandon, InProgress, TypeOK
  <2>2. \A d \in Calls \ {c} : call'[d] = call[d]
    BY <1>a, <1>12 DEF Abandon, InProgress, TypeOK
  <2>3. /\ call[c].pc # "idle" /\ call[c].attempts \in Nat
        /\ call'[c] \in Locals
        /\ call'[c].inv = call[c].inv
        /\ call'[c].pc = "lost"
        /\ call'[c].copy = call[c].copy
        /\ call'[c].attempts = call[c].attempts
        /\ call'[c].outcome = call[c].outcome
    BY <1>a, <1>b, <2>1 DEF Locals, ShapeOf, ToolCallStatus, NoRow, InProgress
  <2>4. TypeOK'
    <3>1. call' \in [Calls -> Locals]
      BY <1>a, <1>12, <2>2, <2>3 DEF Abandon, InProgress, TypeOK
    <3>2. \A d \in Calls : inFlight'[d] \subseteq 1 .. call'[d].attempts
      BY <1>a, <1>12, <2>2, <2>3 DEF Abandon, InProgress, TypeOK
    <3>3. status' \in [Invocations -> ToolCallStatus \cup {NoRow}]
      BY <1>a, <1>b, <1>12, <2>1 DEF Abandon, InProgress, TypeOK, ToolCallStatus, ShapeOf
    <3>4. audit' \in [Invocations -> Seq(ToolEvent)]
      BY <1>a, <1>b, <1>12, <2>1 DEF Abandon, InProgress, TypeOK
    <3> QED BY <1>a, <1>12, <3>1, <3>2, <3>3, <3>4 DEF Abandon, InProgress, TypeOK
  <2>5. Engaged(c)' => Engaged(c)
    BY <2>1, <2>3 DEF Engaged, Working, InProgress
  <2>6. /\ raced' = raced
        /\ \A i \in Invocations \ {call[c].inv} : status'[i] = status[i]
        /\ \/ status'[call[c].inv] = status[call[c].inv]
           \/ Engaged(c) /\ status'[call[c].inv] # NoRow
    BY <1>a, <1>b, <1>12, <2>1 DEF Abandon, InProgress, Engaged, Working, TypeOK, ShapeOf, NoRow
  <2>7. ShapeOf(c)'
    BY <1>a, <2>1, <2>3 DEF ShapeOf, InProgress
  <2>8. RowOf(c)' /\ CopyOf(c)'
    BY <1>a, <1>b, <1>12, <2>1, <2>3 DEF Abandon, InProgress, ShapeOf, RowOf, CopyOf, Working, TypeOK, NoRow
  <2> QED BY <1>12, <2>2, <2>3, <2>4, <2>5, <2>6, <2>7, <2>8, StepOfOne
<1>13. ASSUME NEW c \in Calls, NEW i \in Invocations, ReturnExisting(c, i) PROVE BrokerInv'
  <2>1. /\ call'[c].pc = "returned" /\ call'[c].inv = i /\ call'[c].copy = status[i]
        /\ call'[c].attempts = 0 /\ call'[c].outcome = "none"
        /\ call'[c] \in Locals
        /\ call[c].pc = "idle" /\ call[c].attempts = 0
        /\ \A d \in Calls \ {c} : call'[d] = call[d]
    <3>1. call'[c] = [Idle EXCEPT !.pc = "returned", !.inv = i, !.copy = status[i]]
      BY <1>a, <1>13 DEF ReturnExisting, TypeOK
    <3>2. status[i] \in ToolCallStatus \cup {NoRow}
      BY <1>a DEF TypeOK
    <3> QED BY <1>a, <1>13, <3>1, <3>2 DEF ReturnExisting, TypeOK, Idle, Locals, ShapeOf
  <2>2. /\ status' = status /\ audit' = audit /\ inFlight' = inFlight
        /\ abandons' = abandons /\ raced' = raced
    BY <1>13 DEF ReturnExisting
  <2>3. TypeOK'
    <3>1. call' \in [Calls -> Locals]
      BY <1>a, <1>13, <2>1 DEF ReturnExisting, TypeOK
    <3>2. \A d \in Calls : inFlight'[d] \subseteq 1 .. call'[d].attempts
      BY <1>a, <2>1, <2>2 DEF TypeOK
    <3> QED BY <1>a, <2>2, <3>1, <3>2 DEF TypeOK
  <2>4. ~Engaged(c)' /\ ShapeOf(c)' /\ RowOf(c)' /\ CopyOf(c)'
    BY <2>1 DEF Engaged, Working, ShapeOf, RowOf, CopyOf
  <2>5. ASSUME NEW d \in Calls, d # c
        PROVE  ShapeOf(d)' /\ RowOf(d)' /\ CopyOf(d)' /\ (Engaged(d)' <=> Engaged(d))
    BY <1>a, <2>1, <2>2, <2>5 DEF Engaged, Working, ShapeOf, RowOf, CopyOf
  <2>6. SoleEngaged'
    BY <2>1, <2>2, <2>4, <2>5 DEF BrokerInv, SoleEngaged
  <2> QED BY <2>3, <2>4, <2>5, <2>6 DEF BrokerInv
<1>14. ASSUME NEW c \in Calls, NEW i \in Invocations, FindNothing(c, i) PROVE BrokerInv'
  <2>1. /\ call'[c].pc = "inserting" /\ call'[c].inv = i
        /\ call'[c].attempts = 0 /\ call'[c].outcome = "none"
        /\ call'[c] \in Locals
        /\ call[c].pc = "idle" /\ call[c].attempts = 0
        /\ \A d \in Calls \ {c} : call'[d] = call[d]
    <3>1. call'[c] = [Idle EXCEPT !.pc = "inserting", !.inv = i]
      BY <1>a, <1>14 DEF FindNothing, TypeOK
    <3> QED BY <1>a, <1>14, <3>1 DEF FindNothing, TypeOK, Idle, Locals, ShapeOf
  <2>2. /\ status' = status /\ audit' = audit /\ inFlight' = inFlight
        /\ abandons' = abandons /\ status[i] = NoRow
    BY <1>14 DEF FindNothing
  <2>3. raced' = raced \cup {j \in {i} : \E d \in CallsOf(i) :
                                           call[d].pc \in {"inserting", "rereading"}}
    BY <1>14 DEF FindNothing
  <2>4. TypeOK'
    <3>1. call' \in [Calls -> Locals]
      BY <1>a, <1>14, <2>1 DEF FindNothing, TypeOK
    <3>2. \A d \in Calls : inFlight'[d] \subseteq 1 .. call'[d].attempts
      BY <1>a, <2>1, <2>2 DEF TypeOK
    <3>3. raced' \subseteq Invocations
      BY <1>a, <2>3 DEF TypeOK
    <3> QED BY <1>a, <2>2, <3>1, <3>2, <3>3 DEF TypeOK
  <2>5. ShapeOf(c)' /\ RowOf(c)' /\ CopyOf(c)'
    BY <2>1 DEF Working, ShapeOf, RowOf, CopyOf
  <2>6. ASSUME NEW d \in Calls, d # c
        PROVE  ShapeOf(d)' /\ RowOf(d)' /\ CopyOf(d)' /\ (Engaged(d)' <=> Engaged(d))
    BY <1>a, <2>1, <2>2, <2>3, <2>6 DEF Engaged, Working, ShapeOf, RowOf, CopyOf
  \* Whoever is engaged in an invocation without a row is in the race for it.
  <2>7. ASSUME NEW d \in Calls, d # c, Engaged(d), call[d].inv = i PROVE i \in raced'
    <3>1. call[d].pc \in {"inserting", "rereading"}
      BY <1>a, <2>2, <2>7 DEF Engaged, RowOf, Working
    <3> QED BY <2>3, <2>7, <3>1 DEF CallsOf
  <2>8. SoleEngaged'
    <3> SUFFICES ASSUME NEW d \in Calls, NEW e \in Calls, d # e,
                        Engaged(d)', Engaged(e)',
                        call'[d].inv = call'[e].inv, call'[d].inv \notin raced'
                 PROVE  FALSE
      BY DEF SoleEngaged
    <3>1. CASE d = c
      BY <2>1, <2>6, <2>7, <3>1
    <3>2. CASE e = c
      BY <2>1, <2>6, <2>7, <3>2
    <3>3. CASE d # c /\ e # c
      BY <2>1, <2>3, <2>6, <3>3 DEF BrokerInv, SoleEngaged
    <3> QED BY <3>1, <3>2, <3>3
  <2> QED BY <2>4, <2>5, <2>6, <2>8 DEF BrokerInv
<1>15. ASSUME NEW c \in Calls, LeftoverEnds(c) PROVE BrokerInv'
  <2>1. /\ status' = status /\ audit' = audit /\ call' = call
        /\ abandons' = abandons /\ raced' = raced
    BY <1>15 DEF LeftoverEnds
  <2>2. TypeOK'
    BY <1>a, <1>15 DEF LeftoverEnds, TypeOK
  <2>3. \A d \in Calls : ShapeOf(d)' /\ RowOf(d)' /\ CopyOf(d)'
    BY <1>a, <2>1 DEF ShapeOf, RowOf, CopyOf
  <2>4. SoleEngaged'
    BY <2>1 DEF BrokerInv, SoleEngaged, Engaged
  <2> QED BY <2>2, <2>3, <2>4 DEF BrokerInv
<1>16. CASE UNCHANGED vars
  <2>1. TypeOK'
    BY <1>a, <1>16 DEF vars, TypeOK
  <2>2. \A d \in Calls : ShapeOf(d)' /\ RowOf(d)' /\ CopyOf(d)'
    BY <1>a, <1>16 DEF vars, ShapeOf, RowOf, CopyOf
  <2>3. SoleEngaged'
    BY <1>16 DEF vars, BrokerInv, SoleEngaged, Engaged
  <2> QED BY <2>1, <2>2, <2>3 DEF BrokerInv
<1> QED
  BY <1>1, <1>2, <1>3, <1>4, <1>5, <1>6, <1>7, <1>8, <1>9, <1>10, <1>11, <1>12,
     <1>13, <1>14, <1>15, <1>16 DEF Next, BrokerStep, ExecutorStep

\* The invariant holds in every state of every behaviour.
THEOREM BrokerInvariant == Spec => []BrokerInv
<1>1. Init => BrokerInv
  BY BrokerInit
<1>2. BrokerInv /\ [Next]_vars => BrokerInv'
  BY BrokerStepInv
<1> QED BY <1>1, <1>2, PTL DEF Spec

\* The variables keep their types, and an executor works only on attempts that
\* were made.
THEOREM BrokerTypes == Spec => []TypeOK
<1>1. BrokerInv => TypeOK
  BY DEF BrokerInv
<1> QED BY <1>1, BrokerInvariant, PTL

-----------------------------------------------------------------------------
(* What the invariant says of executions *)

\* The attempts of the one call that executes an unraced invocation.
LEMMA SoleExecutor ==
  ASSUME BrokerInv, NEW i \in Invocations \ raced,
         NEW c \in Executors(i)
  PROVE  Executors(i) = {c}
<1>1. \A d \in Executors(i) : d \in Calls /\ Engaged(d) /\ call[d].inv = i
  BY DEF Executors, CallsOf, Engaged
<1>2. \A d \in Executors(i) : d = c
  BY <1>1 DEF BrokerInv, SoleEngaged
<1> QED BY <1>2

\* Unless two calls held the answer "no row" at once, an invocation runs in one
\* call only: findByInvocation settles every other duplicate or repetition.
THEOREM ExecutedByOne == Spec => []ExecutedOnceUnlessRaced
<1>1. ASSUME BrokerInv PROVE ExecutedOnceUnlessRaced
  <2> SUFFICES ASSUME NEW i \in Invocations \ raced
               PROVE  Cardinality(Executors(i)) <= 1
    BY DEF ExecutedOnceUnlessRaced
  <2>1. CASE Executors(i) = {}
    <3>1. Cardinality(Executors(i)) = 0
      BY <2>1, FS_EmptySet
    <3> QED BY <3>1
  <2>2. CASE Executors(i) # {}
    <3>1. PICK c \in Executors(i) : Executors(i) = {c}
      BY <1>1, <2>2, SoleExecutor
    <3>2. Cardinality(Executors(i)) = 1
      BY <3>1, FS_Singleton
    <3> QED BY <3>2
  <2> QED BY <2>1, <2>2
<1> QED BY <1>1, BrokerInvariant, PTL

\* A set of attempts numbered from 1 has no more members than attempts.
LEMMA AttemptsCounted ==
  ASSUME NEW n \in Nat, NEW T \in SUBSET (1 .. n)
  PROVE  Cardinality(T) \in Nat /\ Cardinality(T) <= n
<1>1. IsFiniteSet(1 .. n) /\ Cardinality(1 .. n) = n
  BY FS_Interval
<1> QED BY <1>1, FS_Subset, FS_CardinalityType

\* The attempts of one call are as many as it made.
LEMMA AttemptsOfOneCall ==
  ASSUME NEW c, NEW n \in Nat
  PROVE  Cardinality({c} \X (1 .. n)) = n
<1>1. IsFiniteSet(1 .. n) /\ Cardinality(1 .. n) = n
  BY FS_Interval
<1>2. IsFiniteSet({c}) /\ Cardinality({c}) = 1
  BY FS_Singleton
<1>3. PICK S, T : S = {c} /\ T = 1 .. n
  OBVIOUS
<1>4. Cardinality(S \X T) = Cardinality(S) * Cardinality(T)
  BY <1>1, <1>2, <1>3, FS_Product
<1> QED BY <1>1, <1>2, <1>3, <1>4

\* Attempts of one call overlap only for an idempotent tool: no other tool is
\* ever asked again, whatever the timer did.
THEOREM OverlapIsIdempotent == Spec => []OverlapOnlyIfIdempotent
<1>1. ASSUME BrokerInv PROVE OverlapOnlyIfIdempotent
  <2> SUFFICES ASSUME NEW c \in Calls, call[c].inv \notin Idempotent
               PROVE  ~(Cardinality(inFlight[c]) > 1)
    BY DEF OverlapOnlyIfIdempotent
  <2>1. /\ call[c].attempts \in Nat /\ call[c].attempts <= 1
        /\ inFlight[c] \in SUBSET (1 .. call[c].attempts)
    BY <1>1 DEF BrokerInv, TypeOK, ShapeOf, Locals
  <2>2. Cardinality(inFlight[c]) \in Nat /\ Cardinality(inFlight[c]) <= call[c].attempts
    BY <2>1, AttemptsCounted
  <2> QED BY <2>1, <2>2
<1> QED BY <1>1, BrokerInvariant, PTL

\* All calls of an unraced invocation together ask its executor once, or once
\* and max_retries more if the tool is idempotent.
THEOREM AttemptsWithinBudget == Spec => []AttemptBudget
<1>1. ASSUME BrokerInv PROVE AttemptBudget
  <2> SUFFICES ASSUME NEW i \in Invocations \ raced
               PROVE  Cardinality(AttemptsOf(i))
                        <= IF i \in Idempotent THEN 1 + MaxRetries ELSE 1
    BY DEF AttemptBudget
  <2>1. \A d \in CallsOf(i) : d \in Calls /\ call[d].attempts \in Nat
    BY <1>1 DEF CallsOf, BrokerInv, TypeOK, Locals
  <2>2. CASE Executors(i) = {}
    <3>1. \A d \in CallsOf(i) : call[d].attempts = 0
      BY <2>1, <2>2 DEF Executors
    <3>2. AttemptsOf(i) = {}
      BY <3>1 DEF AttemptsOf
    <3>3. Cardinality(AttemptsOf(i)) = 0
      BY <3>2, FS_EmptySet
    <3> QED BY <3>3, BrokerBoundsAssumption
  <2>3. CASE Executors(i) # {}
    <3>1. PICK c \in Executors(i) : Executors(i) = {c}
      BY <1>1, <2>3, SoleExecutor
    <3>2. \A d \in CallsOf(i) : d # c => call[d].attempts = 0
      BY <2>1, <3>1 DEF Executors
    <3>3. AttemptsOf(i) = {c} \X (1 .. call[c].attempts)
      BY <3>1, <3>2 DEF AttemptsOf, Executors
    <3>4. c \in Calls /\ call[c].attempts \in Nat /\ call[c].inv = i
      BY <2>1, <3>1 DEF Executors, CallsOf
    <3>5. Cardinality(AttemptsOf(i)) = call[c].attempts
      BY <3>3, <3>4, AttemptsOfOneCall
    <3>6. call[c].attempts <= IF i \in Idempotent THEN 1 + MaxRetries ELSE 1
      BY <1>1, <3>4 DEF BrokerInv, ShapeOf
    <3> QED BY <3>5, <3>6
  <2> QED BY <2>2, <2>3
<1> QED BY <1>1, BrokerInvariant, PTL

\* The row of an unraced invocation moves along ToolCallTransitions, though the
\* transition is asserted on a copy and the UPDATE is by id.
THEOREM RowFollowsLifecycle == Spec => LifecycleUnlessRaced
<1> DEFINE Moves(i) == \/ status[i] = NoRow /\ status'[i] = "REQUESTED"
                       \/ CanTransitionToolCall(status[i], status'[i])
<1>1. ASSUME BrokerInv, Next, NEW i \in Invocations \ raced', status'[i] # status[i]
      PROVE  Moves(i)
  <2>1. raced \subseteq raced'
    BY <1>1 DEF Next, ReturnExisting, FindNothing, BrokerStep, ExecutorStep,
       InsertRequested, InsertFails, Reread, Deny, Allow, StartRunning, StartAttempt,
       AttemptTimesOut, Complete, AttemptAnswers, AttemptThrows, LeftoverEnds, Abandon
  <2>2. i \in Invocations /\ i \notin raced
    BY <2>1
  <2>3. ASSUME NEW c \in Calls, NEW to, UpdateStatus(c, to), call[c].pc \in Working
        PROVE  Moves(i)
    <3>1. call[c].inv = i
      BY <1>1, <2>2, <2>3 DEF UpdateStatus, BrokerInv, TypeOK
    <3>2. status[i] = call[c].copy
      BY <1>1, <2>2, <2>3, <3>1 DEF BrokerInv, CopyOf
    <3>3. status'[i] = to
      BY <1>1, <2>2, <2>3, <3>1 DEF UpdateStatus, BrokerInv, TypeOK
    <3> QED BY <2>3, <3>2, <3>3 DEF UpdateStatus
  <2>4. ASSUME NEW c \in Calls, InsertRequested(c) PROVE Moves(i)
    <3>1. call[c].inv = i
      BY <1>1, <2>2, <2>4 DEF InsertRequested, BrokerInv, TypeOK
    <3> QED BY <1>1, <2>2, <2>4, <3>1 DEF InsertRequested, BrokerInv, TypeOK
  <2>5. ASSUME NEW c \in Calls,
               Deny(c) \/ Allow(c) \/ StartRunning(c) \/ Complete(c)
        PROVE  Moves(i)
    BY <2>3, <2>5 DEF Deny, Allow, StartRunning, Complete, UpdateStatusWithAudit, Working
  <2>6. PICK c \in Calls : InsertRequested(c) \/ Deny(c) \/ Allow(c)
                             \/ StartRunning(c) \/ Complete(c)
    BY <1>1 DEF Next, ReturnExisting, FindNothing, BrokerStep, ExecutorStep,
       InsertFails, Reread, StartAttempt, AttemptTimesOut, AttemptAnswers,
       AttemptThrows, LeftoverEnds, Abandon
  <2> QED BY <2>4, <2>5, <2>6
<1>2. BrokerInv /\ [Next]_vars =>
        [\A i \in Invocations \ raced' : status'[i] # status[i] => Moves(i)]_vars
  BY <1>1
<1> QED BY <1>2, BrokerInvariant, PTL DEF Spec, LifecycleUnlessRaced

-----------------------------------------------------------------------------
(* What the audit log says *)

\* The log of an invocation, case by case of the status of its row.
LogOf(i) ==
  /\ status[i] = NoRow => audit[i] = <<>>
  /\ status[i] = "REQUESTED" => audit[i] = <<ToolRequested>>
  /\ status[i] = "DENIED" => audit[i] = <<ToolRequested, ToolDenied>>
  /\ status[i] \in {"ALLOWED", "RUNNING"} => audit[i] = <<ToolRequested, ToolAllowed>>
  /\ status[i] \in {"SUCCEEDED", "FAILED"} =>
       \E c \in Executors(i) :
         audit[i] = <<ToolRequested, ToolAllowed,
                      ToolCompleted(status[i], call[c].attempts)>>

LogInv == \A i \in Invocations \ raced : LogOf(i)

\* What a step leaves of a call that has made attempts, and of the races.
LEMMA AttemptsStay ==
  ASSUME BrokerInv, [Next]_vars
  PROVE  /\ raced \subseteq raced'
         /\ \A d \in Calls : call[d].attempts > 0 =>
              /\ call'[d].inv = call[d].inv
              /\ \/ call'[d].attempts = call[d].attempts
                 \/ StartAttempt(d) /\ call'[d].attempts = call[d].attempts + 1
<1>1. raced \subseteq raced'
  BY DEF vars, Next, ReturnExisting, FindNothing, BrokerStep, ExecutorStep,
     InsertRequested, InsertFails, Reread, Deny, Allow, StartRunning, StartAttempt,
     AttemptTimesOut, Complete, AttemptAnswers, AttemptThrows, LeftoverEnds, Abandon
<1>2. ASSUME NEW d \in Calls, call[d].attempts > 0
      PROVE  /\ call'[d].inv = call[d].inv
             /\ \/ call'[d].attempts = call[d].attempts
                \/ StartAttempt(d) /\ call'[d].attempts = call[d].attempts + 1
  <2>1. /\ call \in [Calls -> Locals] /\ call[d] \in Locals
        /\ call[d].pc # "idle"
    BY <1>2 DEF BrokerInv, TypeOK, ShapeOf
  <2>2. ASSUME NEW c \in Calls, NEW i \in Invocations,
               ReturnExisting(c, i) \/ FindNothing(c, i)
        PROVE  call'[d] = call[d]
    BY <2>1, <2>2 DEF ReturnExisting, FindNothing
  <2> DEFINE Stays == call'[d].inv = call[d].inv /\ call'[d].attempts = call[d].attempts
  <2>3. ASSUME NEW c \in Calls,
               \/ InsertRequested(c) \/ InsertFails(c) \/ Reread(c) \/ Deny(c)
               \/ Allow(c) \/ StartRunning(c)
        PROVE  Stays
    <3>1. CASE InsertRequested(c)
      <4>1. c = d =>
              \/ call'[d] = [call[d] EXCEPT !.pc = "deciding", !.copy = "REQUESTED"]
              \/ call'[d] = [call[d] EXCEPT !.pc = "rereading"]
        BY <2>1, <3>1 DEF InsertRequested
      <4>2. c # d => call'[d] = call[d]
        BY <2>1, <3>1 DEF InsertRequested
      <4> QED BY <2>1, <4>1, <4>2 DEF Locals
    <3>2. CASE InsertFails(c)
      BY <2>1, <3>2 DEF InsertFails, Locals
    <3>3. CASE Reread(c)
      <4>1. c = d =>
              \/ call'[d] = [call[d] EXCEPT !.pc = "deciding", !.copy = status[call[d].inv]]
              \/ call'[d] = [call[d] EXCEPT !.pc = "returned", !.copy = status[call[d].inv]]
        BY <2>1, <3>3 DEF Reread, Return
      <4>2. c # d => call'[d] = call[d]
        BY <2>1, <3>3 DEF Reread, Return
      <4> QED BY <2>1, <4>1, <4>2 DEF Locals
    <3>4. CASE Deny(c)
      BY <2>1, <3>4 DEF Deny, Return, Locals
    <3>5. CASE Allow(c)
      BY <2>1, <3>5 DEF Allow, Locals
    <3>6. CASE StartRunning(c)
      BY <2>1, <3>6 DEF StartRunning, Locals
    <3> QED BY <2>3, <3>1, <3>2, <3>3, <3>4, <3>5, <3>6
  <2>4. ASSUME NEW c \in Calls,
               \/ AttemptTimesOut(c) \/ AttemptAnswers(c) \/ AttemptThrows(c)
               \/ Complete(c) \/ LeftoverEnds(c) \/ Abandon(c)
        PROVE  Stays
    <3>1. CASE AttemptTimesOut(c)
      <4>1. c = d =>
              \/ call'[d] = [call[d] EXCEPT !.pc = "executing"]
              \/ call'[d] = [call[d] EXCEPT !.pc = "completing", !.outcome = "FAILED"]
        BY <2>1, <3>1 DEF AttemptTimesOut, RetryOrConclude, Conclude
      <4>2. c # d => call'[d] = call[d]
        BY <2>1, <3>1 DEF AttemptTimesOut, RetryOrConclude, Conclude
      <4> QED BY <2>1, <4>1, <4>2 DEF Locals
    <3>2. CASE AttemptAnswers(c)
      BY <2>1, <3>2 DEF AttemptAnswers, Conclude, Locals
    <3>3. CASE AttemptThrows(c)
      <4>1. c = d =>
              \/ call'[d] = [call[d] EXCEPT !.pc = "executing"]
              \/ call'[d] = [call[d] EXCEPT !.pc = "completing", !.outcome = "FAILED"]
        BY <2>1, <3>3 DEF AttemptThrows, RetryOrConclude, Conclude
      <4>2. c # d => call'[d] = call[d]
        BY <2>1, <3>3 DEF AttemptThrows, RetryOrConclude, Conclude
      <4> QED BY <2>1, <4>1, <4>2 DEF Locals
    <3>4. CASE Complete(c)
      BY <2>1, <3>4 DEF Complete, Return, Locals
    <3>5. CASE LeftoverEnds(c)
      BY <2>1, <3>5 DEF LeftoverEnds, Locals
    <3>6. CASE Abandon(c)
      BY <2>1, <3>6 DEF Abandon, Locals
    <3> QED BY <2>4, <3>1, <3>2, <3>3, <3>4, <3>5, <3>6
  <2>5. ASSUME NEW c \in Calls, StartAttempt(c)
        PROVE  /\ call'[d].inv = call[d].inv
               /\ \/ call'[d].attempts = call[d].attempts
                  \/ StartAttempt(d) /\ call'[d].attempts = call[d].attempts + 1
    <3>1. CASE c = d
      <4>1. PICK n : n = call[d].attempts + 1
        OBVIOUS
      <4>2. call'[d] = [call[d] EXCEPT !.pc = "waiting", !.attempts = n]
        BY <2>1, <2>5, <3>1, <4>1 DEF StartAttempt, Current
      <4>3. call'[d].inv = call[d].inv /\ call'[d].attempts = n
        BY <2>1, <4>2 DEF Locals
      <4> QED BY <2>5, <3>1, <4>1, <4>3
    <3>2. CASE c # d
      BY <2>1, <2>5, <3>2 DEF StartAttempt
    <3> QED BY <3>1, <3>2
  <2>6. CASE UNCHANGED vars
    BY <2>6 DEF vars
  <2> QED BY <2>2, <2>3, <2>4, <2>5, <2>6 DEF Next, BrokerStep, ExecutorStep
<1> QED BY <1>1, <1>2

\* Appending to a log of one event.
LEMMA AppendSecond == ASSUME NEW a, NEW b PROVE Append(<<a>>, b) = <<a, b>>
<1>1. PICK S : a \in S /\ b \in S
  <2>1. a \in {a, b} /\ b \in {a, b}
    OBVIOUS
  <2> QED BY <2>1
<1>2. PICK h : h = <<a>>
  OBVIOUS
<1>3. h \in Seq(S) /\ Len(h) = 1 /\ h[1] = a
  BY <1>1, <1>2
<1>4. PICK s : s = Append(h, b)
  OBVIOUS
<1>5. s \in Seq(S) /\ Len(s) = 2 /\ s[1] = a /\ s[2] = b
  <2>1. /\ s \in Seq(S) /\ Len(s) = Len(h) + 1
        /\ \A i \in 1 .. Len(h) : s[i] = h[i]
        /\ s[Len(h) + 1] = b
    <3>1. h \in Seq(S) /\ b \in S
      BY <1>1, <1>3
    <3> QED BY <1>4, <3>1, AppendProperties
  <2> QED BY <1>3, <2>1
<1>6. PICK t : t = <<a, b>>
  OBVIOUS
<1>7. t \in Seq(S) /\ Len(t) = 2 /\ t[1] = a /\ t[2] = b
  BY <1>1, <1>6
<1>8. s = t
  BY <1>5, <1>7, SeqEqual
<1> QED BY <1>2, <1>4, <1>6, <1>8

\* Appending to a log of two events.
LEMMA AppendThird == ASSUME NEW a, NEW b, NEW c PROVE Append(<<a, b>>, c) = <<a, b, c>>
<1>1. PICK S : a \in S /\ b \in S /\ c \in S
  <2>1. a \in {a, b, c} /\ b \in {a, b, c} /\ c \in {a, b, c}
    OBVIOUS
  <2> QED BY <2>1
<1>2. PICK h : h = <<a, b>>
  OBVIOUS
<1>3. h \in Seq(S) /\ Len(h) = 2 /\ h[1] = a /\ h[2] = b
  BY <1>1, <1>2
<1>4. PICK s : s = Append(h, c)
  OBVIOUS
<1>5. s \in Seq(S) /\ Len(s) = 3 /\ s[1] = a /\ s[2] = b /\ s[3] = c
  <2>1. /\ s \in Seq(S) /\ Len(s) = Len(h) + 1
        /\ \A i \in 1 .. Len(h) : s[i] = h[i]
        /\ s[Len(h) + 1] = c
    <3>1. h \in Seq(S) /\ c \in S
      BY <1>1, <1>3
    <3> QED BY <1>4, <3>1, AppendProperties
  <2> QED BY <1>3, <2>1
<1>6. PICK t : t = <<a, b, c>>
  OBVIOUS
<1>7. t \in Seq(S) /\ Len(t) = 3 /\ t[1] = a /\ t[2] = b /\ t[3] = c
  BY <1>1, <1>6
<1>8. s = t
  BY <1>5, <1>7, SeqEqual
<1> QED BY <1>2, <1>4, <1>6, <1>8

\* The log keeps telling the status: an event and the status it stands for are
\* written in one transaction, and the one call engaged writes them in order.
LEMMA LogStep == BrokerInv /\ LogInv /\ [Next]_vars => LogInv'
<1> SUFFICES ASSUME BrokerInv, LogInv, [Next]_vars,
                    NEW i \in Invocations, i \notin raced'
             PROVE  LogOf(i)'
  BY DEF LogInv
<1>1. i \notin raced /\ LogOf(i)
  BY AttemptsStay DEF LogInv
<1>2. /\ status \in [Invocations -> ToolCallStatus \cup {NoRow}]
      /\ audit \in [Invocations -> Seq(ToolEvent)]
      /\ call \in [Calls -> Locals]
      /\ \A c \in Calls : ShapeOf(c) /\ CopyOf(c)
  BY DEF BrokerInv, TypeOK
\* Nothing is written for this invocation.
<1>3. ASSUME status'[i] = status[i], audit'[i] = audit[i] PROVE LogOf(i)'
  <2>1. CASE status[i] \notin {"SUCCEEDED", "FAILED"}
    BY <1>1, <1>3, <2>1 DEF LogOf
  <2>2. CASE status[i] \in {"SUCCEEDED", "FAILED"}
    <3>1. PICK c \in Executors(i) :
            audit[i] = <<ToolRequested, ToolAllowed,
                         ToolCompleted(status[i], call[c].attempts)>>
      BY <1>1, <2>2 DEF LogOf
    <3>2. c \in Calls /\ call[c].inv = i /\ call[c].attempts > 0
      BY <3>1 DEF Executors, CallsOf
    <3>3. ~StartAttempt(c)
      BY <1>1, <1>2, <2>2, <3>2 DEF StartAttempt, CopyOf, Working
    <3>4. call'[c].inv = i /\ call'[c].attempts = call[c].attempts
      BY <3>2, <3>3, AttemptsStay
    <3>5. c \in Executors(i)'
      BY <3>2, <3>4 DEF Executors, CallsOf
    <3>6. audit'[i] = <<ToolRequested, ToolAllowed,
                        ToolCompleted(status'[i], call'[c].attempts)>>
      BY <1>3, <3>1, <3>4 DEF ToolCompleted
    <3> QED BY <1>3, <2>2, <3>5, <3>6 DEF LogOf, NoRow
  <2> QED BY <2>1, <2>2
<1>4. ASSUME NEW c \in Calls, InsertRequested(c), call[c].inv = i PROVE LogOf(i)'
  <2>1. status[i] = NoRow /\ status'[i] = "REQUESTED"
    BY <1>2, <1>4 DEF InsertRequested
  <2>2. audit'[i] = Append(audit[i], ToolRequested) /\ audit[i] = <<>>
    BY <1>1, <1>2, <1>4, <2>1 DEF InsertRequested, LogOf
  <2> QED BY <2>1, <2>2 DEF LogOf, NoRow
<1>5. ASSUME NEW c \in Calls, Deny(c), call[c].inv = i PROVE LogOf(i)'
  <2>1. status[i] = "REQUESTED" /\ status'[i] = "DENIED"
    BY <1>1, <1>2, <1>5 DEF Deny, UpdateStatusWithAudit, UpdateStatus, CopyOf, Working
  <2>2. audit'[i] = Append(audit[i], ToolDenied) /\ audit[i] = <<ToolRequested>>
    BY <1>1, <1>2, <1>5, <2>1 DEF Deny, UpdateStatusWithAudit, LogOf
  <2> QED BY <2>1, <2>2, AppendSecond DEF LogOf, NoRow
<1>6. ASSUME NEW c \in Calls, Allow(c), call[c].inv = i PROVE LogOf(i)'
  <2>1. status[i] = "REQUESTED" /\ status'[i] = "ALLOWED"
    BY <1>1, <1>2, <1>6 DEF Allow, UpdateStatusWithAudit, UpdateStatus, CopyOf, Working
  <2>2. audit'[i] = Append(audit[i], ToolAllowed) /\ audit[i] = <<ToolRequested>>
    BY <1>1, <1>2, <1>6, <2>1 DEF Allow, UpdateStatusWithAudit, LogOf
  <2> QED BY <2>1, <2>2, AppendSecond DEF LogOf, NoRow
<1>7. ASSUME NEW c \in Calls, StartRunning(c), call[c].inv = i PROVE LogOf(i)'
  <2>1. status[i] = "ALLOWED" /\ status'[i] = "RUNNING" /\ audit' = audit
    BY <1>1, <1>2, <1>7 DEF StartRunning, UpdateStatus, CopyOf, Working
  <2> QED BY <1>1, <2>1 DEF LogOf, NoRow
<1>8. ASSUME NEW c \in Calls, Complete(c), call[c].inv = i PROVE LogOf(i)'
  <2>1. /\ status[i] = "RUNNING" /\ status'[i] = call[c].outcome
        /\ call[c].outcome \in {"SUCCEEDED", "FAILED"}
        /\ call[c].attempts > 0
    BY <1>1, <1>2, <1>8 DEF Complete, UpdateStatusWithAudit, UpdateStatus, CopyOf,
                            ShapeOf, Working
  <2>2. /\ audit'[i] = Append(audit[i], ToolCompleted(status'[i], call[c].attempts))
        /\ audit[i] = <<ToolRequested, ToolAllowed>>
    BY <1>1, <1>2, <1>8, <2>1 DEF Complete, UpdateStatusWithAudit, LogOf
  <2>3. call'[c].inv = i /\ call'[c].attempts = call[c].attempts
    BY <1>2, <1>8 DEF Complete, Return, Locals
  <2>4. c \in Executors(i)'
    BY <2>1, <2>3 DEF Executors, CallsOf
  <2>5. audit'[i] = <<ToolRequested, ToolAllowed,
                      ToolCompleted(status'[i], call'[c].attempts)>>
    BY <2>2, <2>3, AppendThird
  <2> QED BY <2>1, <2>4, <2>5 DEF LogOf, NoRow
<1>9. \/ status'[i] = status[i] /\ audit'[i] = audit[i]
      \/ \E c \in Calls : /\ call[c].inv = i
                          /\ \/ InsertRequested(c) \/ Deny(c) \/ Allow(c)
                             \/ StartRunning(c) \/ Complete(c)
  <2>1. ASSUME NEW c \in Calls, call[c].inv # i,
               \/ InsertRequested(c) \/ Deny(c) \/ Allow(c)
               \/ StartRunning(c) \/ Complete(c)
        PROVE  status'[i] = status[i] /\ audit'[i] = audit[i]
    BY <1>2, <2>1 DEF InsertRequested, Deny, Allow, StartRunning, Complete,
                      UpdateStatusWithAudit, UpdateStatus
  <2>2. \/ status' = status /\ audit' = audit
        \/ \E c \in Calls : \/ InsertRequested(c) \/ Deny(c) \/ Allow(c)
                            \/ StartRunning(c) \/ Complete(c)
    BY DEF vars, Next, ReturnExisting, FindNothing, BrokerStep, ExecutorStep,
       InsertFails, Reread, StartAttempt, AttemptTimesOut, AttemptAnswers,
       AttemptThrows, LeftoverEnds, Abandon
  <2> QED BY <2>1, <2>2
<1> QED BY <1>3, <1>4, <1>5, <1>6, <1>7, <1>8, <1>9

\* The audit log of an unraced invocation tells the status of its row, and the
\* closing event counts the attempts that were made.
THEOREM LogTellsStatus == Spec => []AuditTellsStatus
<1>1. Init => LogInv
  BY DEF Init, LogInv, LogOf, NoRow
<1>2. BrokerInv /\ LogInv => AuditTellsStatus
  <2> SUFFICES ASSUME BrokerInv, LogInv, NEW i \in Invocations \ raced
               PROVE  audit[i] \in
      CASE status[i] = NoRow -> {<<>>}
        [] status[i] = "REQUESTED" -> {<<ToolRequested>>}
        [] status[i] = "DENIED" -> {<<ToolRequested, ToolDenied>>}
        [] status[i] \in {"ALLOWED", "RUNNING"} -> {<<ToolRequested, ToolAllowed>>}
        [] OTHER -> {<<ToolRequested, ToolAllowed,
                       ToolCompleted(status[i], call[c].attempts)>> :
                         c \in Executors(i)}
    BY DEF AuditTellsStatus
  <2>1. LogOf(i) /\ status[i] \in ToolCallStatus \cup {NoRow}
    BY DEF LogInv, BrokerInv, TypeOK
  <2> QED BY <2>1 DEF LogOf, ToolCallStatus, NoRow
<1>3. BrokerInv /\ LogInv /\ [Next]_vars => LogInv'
  BY LogStep
<1> QED BY <1>1, <1>2, <1>3, BrokerInvariant, PTL DEF Spec

-----------------------------------------------------------------------------
(* Permission before execution, raced or not *)

\* The calls that hold a permission for an invocation, and where in the log
\* permissions are found.
Permitted(i) ==
  {c \in CallsOf(i) : \/ call[c].pc \in Working \ {"deciding"}
                      \/ call[c].attempts > 0}
AllowedAt(i) == {n \in 1 .. Len(audit[i]) : audit[i][n] = ToolAllowed}

PermitInv ==
  \A i \in Invocations :
    /\ IsFiniteSet(Permitted(i))
    /\ Cardinality(Permitted(i)) <= Cardinality(AllowedAt(i))

\* The places of an event in a log are finitely many.
LEMMA PlacesFinite ==
  ASSUME NEW S, NEW log \in Seq(S), NEW a
  PROVE  /\ IsFiniteSet({n \in 1 .. Len(log) : log[n] = a})
         /\ Cardinality({n \in 1 .. Len(log) : log[n] = a}) \in Nat
<1>1. Len(log) \in Nat
  OBVIOUS
<1>2. IsFiniteSet(1 .. Len(log))
  BY <1>1, FS_Interval
<1>3. {n \in 1 .. Len(log) : log[n] = a} \in SUBSET (1 .. Len(log))
  OBVIOUS
<1> QED BY <1>2, <1>3, FS_Subset, FS_CardinalityType

\* A log only grows, and a permission appended to it is one more.
LEMMA AllowedAtGrows ==
  ASSUME NEW S, NEW log \in Seq(S), NEW e \in S, NEW a
  PROVE  {n \in 1 .. Len(Append(log, e)) : Append(log, e)[n] = a}
           = {n \in 1 .. Len(log) : log[n] = a}
               \cup (IF e = a THEN {Len(log) + 1} ELSE {})
<1>1. PICK s : s = Append(log, e)
  OBVIOUS
<1>2. /\ Len(log) \in Nat /\ Len(s) = Len(log) + 1
      /\ \A n \in 1 .. Len(log) : s[n] = log[n]
      /\ s[Len(log) + 1] = e
  BY <1>1, AppendProperties, LenProperties
<1>3. 1 .. Len(s) = (1 .. Len(log)) \cup {Len(log) + 1}
  BY <1>2
<1>4. {n \in 1 .. Len(s) : s[n] = a}
        = {n \in 1 .. Len(log) : log[n] = a}
            \cup (IF e = a THEN {Len(log) + 1} ELSE {})
  BY <1>2, <1>3
<1> QED BY <1>1, <1>4

\* An invocation whose permitted calls are still permitted or have left, and
\* whose log lost nothing, keeps its balance.
LEMMA BalanceKept ==
  ASSUME PermitInv, TypeOK, TypeOK', NEW i \in Invocations,
         Permitted(i)' \subseteq Permitted(i), AllowedAt(i) \subseteq AllowedAt(i)'
  PROVE  /\ IsFiniteSet(Permitted(i)')
         /\ Cardinality(Permitted(i)') <= Cardinality(AllowedAt(i)')
<1>1. PICK P, Q, A, B : /\ P = Permitted(i) /\ Q = Permitted(i)'
                        /\ A = AllowedAt(i) /\ B = AllowedAt(i)'
  OBVIOUS
<1>2. IsFiniteSet(P) /\ Q \in SUBSET P /\ Cardinality(P) <= Cardinality(A)
  BY <1>1 DEF PermitInv
<1>3. IsFiniteSet(B) /\ Cardinality(B) \in Nat /\ A \in SUBSET B
  <2>1. IsFiniteSet(AllowedAt(i)') /\ Cardinality(AllowedAt(i)') \in Nat
    <3>1. PICK log \in Seq(ToolEvent) : log = audit'[i]
      BY DEF TypeOK
    <3> QED BY <3>1, PlacesFinite DEF AllowedAt
  <2> QED BY <1>1, <2>1
<1>4. IsFiniteSet(Q) /\ Cardinality(Q) <= Cardinality(P)
  BY <1>2, FS_Subset
<1>5. Cardinality(A) <= Cardinality(B)
  BY <1>3, FS_Subset
<1>6. /\ Cardinality(P) \in Nat /\ Cardinality(Q) \in Nat /\ Cardinality(A) \in Nat
  BY <1>2, <1>3, <1>4, FS_CardinalityType, FS_Subset
<1>7. Cardinality(Q) <= Cardinality(B)
  BY <1>2, <1>3, <1>4, <1>5, <1>6
<1> QED BY <1>1, <1>4, <1>7

\* Only Allow gives a permission, and it appends the event in the same
\* transaction; no step takes an event back.
LEMMA PermitStep == BrokerInv /\ BrokerInv' /\ PermitInv /\ [Next]_vars => PermitInv'
<1> SUFFICES ASSUME BrokerInv, BrokerInv', PermitInv, [Next]_vars,
                    NEW i \in Invocations
             PROVE  /\ IsFiniteSet(Permitted(i)')
                    /\ Cardinality(Permitted(i)') <= Cardinality(AllowedAt(i)')
  BY DEF PermitInv
<1>1. /\ TypeOK /\ TypeOK'
      /\ audit \in [Invocations -> Seq(ToolEvent)]
      /\ call \in [Calls -> Locals]
      /\ \A c \in Calls : ShapeOf(c) /\ ShapeOf(c)'
  BY DEF BrokerInv, TypeOK
\* No permission is given.
<1>2. ASSUME \A c \in Calls : c \in Permitted(i)' => c \in Permitted(i)
      PROVE  Permitted(i)' \subseteq Permitted(i)
  BY <1>2 DEF Permitted, CallsOf
\* No event is lost.
<1>3. AllowedAt(i) \subseteq AllowedAt(i)'
  <2>1. CASE audit'[i] = audit[i]
    BY <2>1 DEF AllowedAt
  <2>2. ASSUME NEW e \in ToolEvent, audit'[i] = Append(audit[i], e)
        PROVE  AllowedAt(i) \subseteq AllowedAt(i)'
    <3>1. PICK log \in Seq(ToolEvent) : log = audit[i]
      BY <1>1
    <3>2. {n \in 1 .. Len(log) : log[n] = ToolAllowed}
            \subseteq {n \in 1 .. Len(Append(log, e)) : Append(log, e)[n] = ToolAllowed}
      BY AllowedAtGrows
    <3> QED BY <2>2, <3>1, <3>2 DEF AllowedAt
  <2>3. \/ audit' = audit
        \/ \E e \in ToolEvent, j \in Invocations :
             audit' = [audit EXCEPT ![j] = Append(@, e)]
    <3>1. ASSUME NEW c \in Calls,
                 InsertRequested(c) \/ Deny(c) \/ Allow(c) \/ Complete(c)
          PROVE  \E e \in ToolEvent, j \in Invocations :
                   audit' = [audit EXCEPT ![j] = Append(@, e)]
      <4>1. /\ call[c].inv \in Invocations /\ call[c].attempts \in Nat
            /\ call[c].pc = "completing" => call[c].outcome \in {"SUCCEEDED", "FAILED"}
        BY <1>1, <3>1 DEF InsertRequested, Deny, Allow, Complete, ShapeOf, Locals
      <4>2. /\ {ToolRequested, ToolDenied, ToolAllowed} \subseteq ToolEvent
            /\ call[c].pc = "completing" =>
                 ToolCompleted(call[c].outcome, call[c].attempts) \in ToolEvent
        BY <4>1 DEF ToolRequested, ToolDenied, ToolAllowed, ToolCompleted, EventOf, ToolEvent
      <4> QED BY <3>1, <4>1, <4>2 DEF InsertRequested, Deny, Allow, Complete,
                                       UpdateStatusWithAudit
    <3> QED BY <3>1 DEF vars, Next, ReturnExisting, FindNothing, BrokerStep, ExecutorStep,
       InsertFails, Reread, StartRunning, StartAttempt, AttemptTimesOut, AttemptAnswers,
       AttemptThrows, LeftoverEnds, Abandon
  <2> QED BY <1>1, <2>1, <2>2, <2>3
<1>4. ASSUME NEW c \in Calls, Allow(c), call[c].inv = i
      PROVE  /\ IsFiniteSet(Permitted(i)')
             /\ Cardinality(Permitted(i)') <= Cardinality(AllowedAt(i)')
  <2>1. /\ call'[c].inv = i /\ \A d \in Calls \ {c} : call'[d] = call[d]
        /\ call[c].pc = "deciding" /\ call[c].attempts = 0
    BY <1>1, <1>4 DEF Allow, ShapeOf, Locals
  <2>2. PICK P, Q, A, B, n : /\ P = Permitted(i) /\ Q = Permitted(i)'
                             /\ A = AllowedAt(i) /\ B = AllowedAt(i)'
                             /\ n = Len(audit[i]) + 1
    OBVIOUS
  <2>3. Q \in SUBSET (P \cup {c}) /\ c \notin P
    BY <2>1, <2>2 DEF Permitted, CallsOf, Working
  <2>4. B = A \cup {n} /\ n \notin A
    <3>1. PICK log \in Seq(ToolEvent) : log = audit[i]
      BY <1>1
    <3>2. audit'[i] = Append(log, ToolAllowed) /\ ToolAllowed \in ToolEvent
      BY <1>1, <1>4, <3>1 DEF Allow, UpdateStatusWithAudit, ToolAllowed, EventOf, ToolEvent
    <3>3. {m \in 1 .. Len(Append(log, ToolAllowed)) : Append(log, ToolAllowed)[m] = ToolAllowed}
            = {m \in 1 .. Len(log) : log[m] = ToolAllowed} \cup {Len(log) + 1}
      BY <3>2, AllowedAtGrows
    <3>4. Len(log) \in Nat
      OBVIOUS
    <3>5. Len(log) + 1 \notin {m \in 1 .. Len(log) : log[m] = ToolAllowed}
      BY <3>4
    <3> QED BY <2>2, <3>1, <3>2, <3>3, <3>5 DEF AllowedAt
  <2>5. IsFiniteSet(P) /\ Cardinality(P) <= Cardinality(A)
    BY <2>2 DEF PermitInv
  <2>6. IsFiniteSet(A) /\ Cardinality(A) \in Nat
    <3>1. PICK log \in Seq(ToolEvent) : log = audit[i]
      BY <1>1
    <3> QED BY <2>2, <3>1, PlacesFinite DEF AllowedAt
  <2>7. IsFiniteSet(P \cup {c}) /\ Cardinality(P \cup {c}) = Cardinality(P) + 1
    BY <2>3, <2>5, FS_AddElement
  <2>8. Cardinality(B) = Cardinality(A) + 1
    BY <2>4, <2>6, FS_AddElement
  <2>9. IsFiniteSet(Q) /\ Cardinality(Q) <= Cardinality(P \cup {c})
    BY <2>3, <2>7, FS_Subset
  <2>10. Cardinality(P) \in Nat /\ Cardinality(Q) \in Nat
    BY <2>5, <2>9, FS_CardinalityType
  <2>11. Cardinality(Q) <= Cardinality(B)
    BY <2>5, <2>6, <2>7, <2>8, <2>9, <2>10
  <2> QED BY <2>2, <2>9, <2>11
\* Every other step leaves the permitted calls of the invocation or lets go.
<1>5. ASSUME ~\E c \in Calls : Allow(c) /\ call[c].inv = i, NEW d \in Calls,
             d \in Permitted(i)'
      PROVE  d \in Permitted(i)
  <2>1. /\ call'[d].inv = i
        /\ call'[d].pc \in Working \ {"deciding"} \/ call'[d].attempts > 0
    BY <1>5 DEF Permitted, CallsOf
  <2>2. call'[d] = call[d] => d \in Permitted(i)
    BY <2>1 DEF Permitted, CallsOf
  <2>3. ASSUME NEW c \in Calls, InsertRequested(c) PROVE d \in Permitted(i)
    <3>1. c # d => call'[d] = call[d]
      BY <1>1, <2>3 DEF InsertRequested
    <3>2. \/ call'[c] = [call[c] EXCEPT !.pc = "deciding", !.copy = "REQUESTED"]
          \/ call'[c] = [call[c] EXCEPT !.pc = "rereading"]
      BY <1>1, <2>3 DEF InsertRequested
    <3>3. /\ call'[c].inv = call[c].inv /\ call'[c].attempts = call[c].attempts
          /\ call'[c].pc = "deciding" \/ call'[c].pc = "rereading"
      BY <1>1, <3>2 DEF Locals
    <3> QED BY <1>1, <2>1, <2>2, <2>3, <3>1, <3>3 DEF InsertRequested, ShapeOf, Permitted, CallsOf, Working
  <2>4. ASSUME NEW c \in Calls, InsertFails(c) PROVE d \in Permitted(i)
    <3>1. c # d => call'[d] = call[d]
      BY <1>1, <2>4 DEF InsertFails
    <3>2. call'[c] = [call[c] EXCEPT !.pc = "rereading"]
      BY <1>1, <2>4 DEF InsertFails
    <3>3. /\ call'[c].inv = call[c].inv /\ call'[c].attempts = call[c].attempts
          /\ call'[c].pc = "rereading"
      BY <1>1, <3>2 DEF Locals
    <3> QED BY <1>1, <2>1, <2>2, <2>4, <3>1, <3>3 DEF InsertFails, ShapeOf, Permitted, CallsOf, Working
  <2>5. ASSUME NEW c \in Calls, Reread(c) PROVE d \in Permitted(i)
    <3>1. c # d => call'[d] = call[d]
      BY <1>1, <2>5 DEF Reread, Return
    <3>2. \/ call'[c] = [call[c] EXCEPT !.pc = "deciding", !.copy = status[call[c].inv]]
          \/ call'[c] = [call[c] EXCEPT !.pc = "returned", !.copy = status[call[c].inv]]
      BY <1>1, <2>5 DEF Reread, Return
    <3>3. /\ call'[c].inv = call[c].inv /\ call'[c].attempts = call[c].attempts
          /\ call'[c].pc = "deciding" \/ call'[c].pc = "returned"
      BY <1>1, <3>2 DEF Locals
    <3> QED BY <1>1, <2>1, <2>2, <2>5, <3>1, <3>3 DEF Reread, Return, ShapeOf, Permitted, CallsOf, Working
  <2>6. ASSUME NEW c \in Calls, Deny(c) PROVE d \in Permitted(i)
    <3>1. c # d => call'[d] = call[d]
      BY <1>1, <2>6 DEF Deny, Return
    <3>2. call'[c] = [call[c] EXCEPT !.pc = "returned", !.copy = "DENIED"]
      BY <1>1, <2>6 DEF Deny, Return
    <3>3. /\ call'[c].inv = call[c].inv /\ call'[c].attempts = call[c].attempts
          /\ call'[c].pc = "returned"
      BY <1>1, <3>2 DEF Locals
    <3> QED BY <1>1, <2>1, <2>2, <2>6, <3>1, <3>3 DEF Deny, Return, ShapeOf, Permitted, CallsOf, Working
  <2>7. ASSUME NEW c \in Calls, Allow(c) PROVE d \in Permitted(i)
    <3>1. c # d => call'[d] = call[d]
      BY <1>1, <2>7 DEF Allow
    <3>2. call'[c].inv = call[c].inv
      BY <1>1, <2>7 DEF Allow, Locals
    <3> QED BY <1>5, <2>1, <2>2, <2>7, <3>1, <3>2
  <2>8. ASSUME NEW c \in Calls, StartRunning(c) PROVE d \in Permitted(i)
    <3>1. c # d => call'[d] = call[d]
      BY <1>1, <2>8 DEF StartRunning
    <3>2. call'[c] = [call[c] EXCEPT !.pc = "executing", !.copy = "RUNNING"]
      BY <1>1, <2>8 DEF StartRunning
    <3>3. /\ call'[c].inv = call[c].inv /\ call'[c].attempts = call[c].attempts
          /\ call'[c].pc = "executing"
      BY <1>1, <3>2 DEF Locals
    <3> QED BY <1>1, <2>1, <2>2, <2>8, <3>1, <3>3 DEF StartRunning, ShapeOf, Permitted, CallsOf, Working
  <2>9. ASSUME NEW c \in Calls, StartAttempt(c) PROVE d \in Permitted(i)
    <3>1. c # d => call'[d] = call[d]
      BY <1>1, <2>9 DEF StartAttempt, Current
    <3>2. call'[c].inv = call[c].inv
      <4>1. PICK n : n = call[c].attempts + 1
        OBVIOUS
      <4>2. call'[c] = [call[c] EXCEPT !.pc = "waiting", !.attempts = n]
        BY <1>1, <2>9, <4>1 DEF StartAttempt, Current
      <4> QED BY <1>1, <4>2 DEF Locals
    <3> QED BY <2>1, <2>2, <2>9, <3>1, <3>2 DEF StartAttempt, Permitted, CallsOf, Working
  <2>10. ASSUME NEW c \in Calls, AttemptTimesOut(c) PROVE d \in Permitted(i)
    <3>1. c # d => call'[d] = call[d]
      BY <1>1, <2>10 DEF AttemptTimesOut, Awaited, RetryOrConclude, Conclude
    <3>2. \/ call'[c] = [call[c] EXCEPT !.pc = "executing"]
          \/ call'[c] = [call[c] EXCEPT !.pc = "completing", !.outcome = "FAILED"]
      BY <1>1, <2>10 DEF AttemptTimesOut, Awaited, RetryOrConclude, Conclude
    <3>3. /\ call'[c].inv = call[c].inv /\ call'[c].attempts = call[c].attempts
          /\ call'[c].pc = "executing" \/ call'[c].pc = "completing"
      BY <1>1, <3>2 DEF Locals
    <3> QED BY <1>1, <2>1, <2>2, <2>10, <3>1, <3>3 DEF AttemptTimesOut, Awaited, RetryOrConclude, Conclude, ShapeOf, Permitted, CallsOf, Working
  <2>11. ASSUME NEW c \in Calls, Complete(c) PROVE d \in Permitted(i)
    <3>1. c # d => call'[d] = call[d]
      BY <1>1, <2>11 DEF Complete, Return
    <3>2. call'[c] = [call[c] EXCEPT !.pc = "returned", !.copy = call[c].outcome]
      BY <1>1, <2>11 DEF Complete, Return
    <3>3. /\ call'[c].inv = call[c].inv /\ call'[c].attempts = call[c].attempts
          /\ call'[c].pc = "returned"
      BY <1>1, <3>2 DEF Locals
    <3> QED BY <1>1, <2>1, <2>2, <2>11, <3>1, <3>3 DEF Complete, Return, ShapeOf, Permitted, CallsOf, Working
  <2>12. ASSUME NEW c \in Calls, AttemptAnswers(c) PROVE d \in Permitted(i)
    <3>1. c # d => call'[d] = call[d]
      BY <1>1, <2>12 DEF AttemptAnswers, Awaited, Conclude
    <3>2. \/ call'[c] = [call[c] EXCEPT !.pc = "completing", !.outcome = "SUCCEEDED"]
          \/ call'[c] = [call[c] EXCEPT !.pc = "completing", !.outcome = "FAILED"]
      BY <1>1, <2>12 DEF AttemptAnswers, Awaited, Conclude
    <3>3. /\ call'[c].inv = call[c].inv /\ call'[c].attempts = call[c].attempts
          /\ call'[c].pc = "completing" \/ call'[c].pc = "completing"
      BY <1>1, <3>2 DEF Locals
    <3> QED BY <1>1, <2>1, <2>2, <2>12, <3>1, <3>3 DEF AttemptAnswers, Awaited, Conclude, ShapeOf, Permitted, CallsOf, Working
  <2>13. ASSUME NEW c \in Calls, AttemptThrows(c) PROVE d \in Permitted(i)
    <3>1. c # d => call'[d] = call[d]
      BY <1>1, <2>13 DEF AttemptThrows, Awaited, RetryOrConclude, Conclude
    <3>2. \/ call'[c] = [call[c] EXCEPT !.pc = "executing"]
          \/ call'[c] = [call[c] EXCEPT !.pc = "completing", !.outcome = "FAILED"]
      BY <1>1, <2>13 DEF AttemptThrows, Awaited, RetryOrConclude, Conclude
    <3>3. /\ call'[c].inv = call[c].inv /\ call'[c].attempts = call[c].attempts
          /\ call'[c].pc = "executing" \/ call'[c].pc = "completing"
      BY <1>1, <3>2 DEF Locals
    <3> QED BY <1>1, <2>1, <2>2, <2>13, <3>1, <3>3 DEF AttemptThrows, Awaited, RetryOrConclude, Conclude, ShapeOf, Permitted, CallsOf, Working
  <2>14. ASSUME NEW c \in Calls, Abandon(c) PROVE d \in Permitted(i)
    <3>1. c # d => call'[d] = call[d]
      BY <1>1, <2>14 DEF Abandon, InProgress
    <3>2. call'[c] = [call[c] EXCEPT !.pc = "lost"]
      BY <1>1, <2>14 DEF Abandon, InProgress
    <3>3. /\ call'[c].inv = call[c].inv /\ call'[c].attempts = call[c].attempts
          /\ call'[c].pc = "lost"
      BY <1>1, <3>2 DEF Locals
    <3> QED BY <1>1, <2>1, <2>2, <2>14, <3>1, <3>3 DEF Abandon, InProgress, ShapeOf, Permitted, CallsOf, Working
  <2>15. ASSUME NEW c \in Calls, NEW j \in Invocations,
               ReturnExisting(c, j) \/ FindNothing(c, j)
        PROVE  d \in Permitted(i)
    <3>1. c # d => call'[d] = call[d]
      BY <1>1, <2>15 DEF ReturnExisting, FindNothing
    <3>2. \/ call'[c] = [Idle EXCEPT !.pc = "returned", !.inv = j, !.copy = status[j]]
          \/ call'[c] = [Idle EXCEPT !.pc = "inserting", !.inv = j]
      BY <1>1, <2>15 DEF ReturnExisting, FindNothing
    <3>3. call'[c].pc \in {"returned", "inserting"} /\ call'[c].attempts = 0
      BY <3>2 DEF Idle
    <3> QED BY <2>1, <2>2, <3>1, <3>3 DEF Working
  <2>16. CASE call' = call
    BY <2>2, <2>16
  <2> QED
    BY <2>3, <2>4, <2>5, <2>6, <2>7, <2>8, <2>9, <2>10, <2>11, <2>12, <2>13, <2>14, <2>15, <2>16
       DEF vars, Next, BrokerStep, ExecutorStep, LeftoverEnds
<1> QED
  BY <1>1, <1>2, <1>3, <1>4, <1>5, BalanceKept

\* However calls race, time out or are lost, an invocation has as many
\* permissions in its log as calls that executed it.
THEOREM AllowedBeforeExecuted == Spec => []EveryExecutionWasAllowed
<1>1. Init => PermitInv
  <2> SUFFICES ASSUME Init, NEW i \in Invocations
               PROVE  /\ IsFiniteSet(Permitted(i))
                      /\ Cardinality(Permitted(i)) <= Cardinality(AllowedAt(i))
    BY DEF PermitInv
  <2>1. Permitted(i) = {}
    BY InvocationsAssumption DEF Init, Idle, Permitted, CallsOf, Working
  <2>2. AllowedAt(i) = {}
    BY DEF Init, AllowedAt
  <2>3. IsFiniteSet({}) /\ Cardinality({}) = 0
    BY FS_EmptySet
  <2> QED BY <2>1, <2>2, <2>3
<1>2. BrokerInv /\ BrokerInv' /\ PermitInv /\ [Next]_vars => PermitInv'
  BY PermitStep
<1>3. BrokerInv /\ PermitInv => EveryExecutionWasAllowed
  <2> SUFFICES ASSUME BrokerInv, PermitInv, NEW i \in Invocations
               PROVE  Cardinality(AllowedAt(i)) >= Cardinality(Executors(i))
    BY DEF EveryExecutionWasAllowed, AllowedAt
  <2>1. IsFiniteSet(Permitted(i)) /\ Cardinality(Permitted(i)) <= Cardinality(AllowedAt(i))
    BY DEF PermitInv
  <2>2. Executors(i) \in SUBSET Permitted(i)
    BY DEF Executors, Permitted
  <2>3. IsFiniteSet(Executors(i)) /\ Cardinality(Executors(i)) <= Cardinality(Permitted(i))
    BY <2>1, <2>2, FS_Subset
  <2>4. Cardinality(AllowedAt(i)) \in Nat
    <3>1. PICK log \in Seq(ToolEvent) : log = audit[i]
      BY DEF BrokerInv, TypeOK
    <3> QED BY <3>1, PlacesFinite DEF AllowedAt
  <2>5. Cardinality(Executors(i)) \in Nat /\ Cardinality(Permitted(i)) \in Nat
    BY <2>1, <2>3, FS_CardinalityType
  <2> QED BY <2>1, <2>3, <2>4, <2>5
<1> QED BY <1>1, <1>2, <1>3, BrokerInvariant, PTL DEF Spec

-----------------------------------------------------------------------------
(* What a lost call leaves behind *)

\* A step of a call in progress keeps it with its invocation, and leaves the
\* rows, logs and calls of others alone.
LEMMA StepIsLocal ==
  ASSUME BrokerInv, NEW c \in Calls,
         \/ BrokerStep(c) \/ AttemptAnswers(c) \/ AttemptThrows(c) \/ Abandon(c)
  PROVE  /\ InProgress(c)
         /\ \A d \in Calls \ {c} : call'[d] = call[d]
         /\ \A i \in Invocations \ {call[c].inv} :
              status'[i] = status[i] /\ audit'[i] = audit[i]
<1> USE DEF BrokerInv, TypeOK, InProgress
<1>1. CASE InsertRequested(c)
  BY <1>1 DEF InsertRequested
<1>2. CASE InsertFails(c)
  BY <1>2 DEF InsertFails
<1>3. CASE Reread(c)
  BY <1>3 DEF Reread, Return
<1>4. CASE Deny(c)
  BY <1>4 DEF Deny, UpdateStatusWithAudit, UpdateStatus, Return
<1>5. CASE Allow(c)
  BY <1>5 DEF Allow, UpdateStatusWithAudit, UpdateStatus
<1>6. CASE StartRunning(c)
  BY <1>6 DEF StartRunning, UpdateStatus
<1>7. CASE StartAttempt(c)
  BY <1>7 DEF StartAttempt, Current
<1>8. CASE AttemptTimesOut(c)
  BY <1>8 DEF AttemptTimesOut, Awaited, RetryOrConclude, Conclude
<1>9. CASE Complete(c)
  BY <1>9 DEF Complete, UpdateStatusWithAudit, UpdateStatus, Return
<1>10. CASE AttemptAnswers(c)
  BY <1>10 DEF AttemptAnswers, Awaited, Conclude
<1>11. CASE AttemptThrows(c)
  BY <1>11 DEF AttemptThrows, Awaited, RetryOrConclude, Conclude
<1>12. CASE Abandon(c)
  BY <1>12 DEF Abandon
<1> QED
  BY <1>1, <1>2, <1>3, <1>4, <1>5, <1>6, <1>7, <1>8, <1>9, <1>10, <1>11, <1>12 DEF BrokerStep

\* A call that is past its lookup stays with its invocation.
LEMMA StepKeepsInvocation ==
  ASSUME BrokerInv, NEW c \in Calls,
         \/ BrokerStep(c) \/ AttemptAnswers(c) \/ AttemptThrows(c) \/ Abandon(c)
  PROVE  call'[c].inv = call[c].inv
<1>0. call \in [Calls -> Locals]
  BY DEF BrokerInv, TypeOK
<1>1. CASE InsertRequested(c)
  <2>1. \/ call'[c] = [call[c] EXCEPT !.pc = "deciding", !.copy = "REQUESTED"]
        \/ call'[c] = [call[c] EXCEPT !.pc = "rereading"]
    BY <1>0, <1>1 DEF InsertRequested
  <2> QED BY <1>0, <2>1 DEF Locals
<1>2. CASE InsertFails(c)
  <2>1. call'[c] = [call[c] EXCEPT !.pc = "rereading"]
    BY <1>0, <1>2 DEF InsertFails
  <2> QED BY <1>0, <2>1 DEF Locals
<1>3. CASE Reread(c)
  <2>1. \/ call'[c] = [call[c] EXCEPT !.pc = "deciding", !.copy = status[call[c].inv]]
        \/ call'[c] = [call[c] EXCEPT !.pc = "returned", !.copy = status[call[c].inv]]
    BY <1>0, <1>3 DEF Reread, Return
  <2> QED BY <1>0, <2>1 DEF Locals
<1>4. CASE Deny(c)
  <2>1. call'[c] = [call[c] EXCEPT !.pc = "returned", !.copy = "DENIED"]
    BY <1>0, <1>4 DEF Deny, UpdateStatusWithAudit, UpdateStatus, Return
  <2> QED BY <1>0, <2>1 DEF Locals
<1>5. CASE Allow(c)
  <2>1. call'[c] = [call[c] EXCEPT !.pc = "starting", !.copy = "ALLOWED"]
    BY <1>0, <1>5 DEF Allow, UpdateStatusWithAudit, UpdateStatus
  <2> QED BY <1>0, <2>1 DEF Locals
<1>6. CASE StartRunning(c)
  <2>1. call'[c] = [call[c] EXCEPT !.pc = "executing", !.copy = "RUNNING"]
    BY <1>0, <1>6 DEF StartRunning, UpdateStatus
  <2> QED BY <1>0, <2>1 DEF Locals
<1>7. CASE StartAttempt(c)
  <2>1. PICK n : n = call[c].attempts + 1
    OBVIOUS
  <2>2. call'[c] = [call[c] EXCEPT !.pc = "waiting", !.attempts = n]
    BY <1>0, <1>7, <2>1 DEF StartAttempt, Current
  <2> QED BY <1>0, <2>2 DEF Locals
<1>8. CASE AttemptTimesOut(c)
  <2>1. \/ call'[c] = [call[c] EXCEPT !.pc = "executing"]
        \/ call'[c] = [call[c] EXCEPT !.pc = "completing", !.outcome = "FAILED"]
    BY <1>0, <1>8 DEF AttemptTimesOut, Awaited, RetryOrConclude, Conclude
  <2> QED BY <1>0, <2>1 DEF Locals
<1>9. CASE Complete(c)
  <2>1. call'[c] = [call[c] EXCEPT !.pc = "returned", !.copy = call[c].outcome]
    BY <1>0, <1>9 DEF Complete, UpdateStatusWithAudit, UpdateStatus, Return
  <2> QED BY <1>0, <2>1 DEF Locals
<1>10. CASE AttemptAnswers(c)
  <2>1. \/ call'[c] = [call[c] EXCEPT !.pc = "completing", !.outcome = "SUCCEEDED"]
        \/ call'[c] = [call[c] EXCEPT !.pc = "completing", !.outcome = "FAILED"]
    BY <1>0, <1>10 DEF AttemptAnswers, Awaited, Conclude
  <2> QED BY <1>0, <2>1 DEF Locals
<1>11. CASE AttemptThrows(c)
  <2>1. \/ call'[c] = [call[c] EXCEPT !.pc = "executing"]
        \/ call'[c] = [call[c] EXCEPT !.pc = "completing", !.outcome = "FAILED"]
    BY <1>0, <1>11 DEF AttemptThrows, Awaited, RetryOrConclude, Conclude
  <2> QED BY <1>0, <2>1 DEF Locals
<1>12. CASE Abandon(c)
  <2>1. call'[c] = [call[c] EXCEPT !.pc = "lost"]
    BY <1>0, <1>12 DEF Abandon
  <2> QED BY <1>0, <2>1 DEF Locals
<1> QED
  BY <1>1, <1>2, <1>3, <1>4, <1>5, <1>6, <1>7, <1>8, <1>9, <1>10, <1>11, <1>12 DEF BrokerStep

\* A row no call in progress works on never moves again, whoever looks it up
\* later: a ToolCall a crash left behind is returned and not taken over.
THEOREM LeftBehindStays == Spec => NobodyTakesOver
<1> DEFINE Stays(i) == /\ Deserted(i)'
                       /\ status'[i] = status[i]
                       /\ audit'[i] = audit[i]
<1>1. ASSUME BrokerInv, Next, NEW i \in Invocations, Deserted(i) PROVE Stays(i)
  <2>1. /\ call \in [Calls -> Locals] /\ status[i] # NoRow
        /\ \A d \in Calls : call[d].inv = i => ~InProgress(d)
    BY <1>1 DEF BrokerInv, TypeOK, Deserted, CallsOf
  <2>2. ASSUME NEW c \in Calls,
               \/ BrokerStep(c) \/ AttemptAnswers(c) \/ AttemptThrows(c) \/ Abandon(c)
        PROVE  Stays(i)
    <3>1. call[c].inv # i
      BY <1>1, <2>1, <2>2, StepIsLocal
    <3>2. /\ status'[i] = status[i] /\ audit'[i] = audit[i]
          /\ \A d \in Calls \ {c} : call'[d] = call[d]
      BY <1>1, <2>2, <3>1, StepIsLocal
    <3>3. call'[c].inv = call[c].inv
      BY <1>1, <2>2, StepKeepsInvocation
    <3> QED BY <2>1, <3>1, <3>2, <3>3 DEF Deserted, CallsOf, InProgress
  <2>3. ASSUME NEW c \in Calls, NEW j \in Invocations,
               ReturnExisting(c, j) \/ FindNothing(c, j)
        PROVE  Stays(i)
    <3>1. /\ status' = status /\ audit' = audit
          /\ \A d \in Calls \ {c} : call'[d] = call[d]
      BY <2>1, <2>3 DEF ReturnExisting, FindNothing
    <3>2. \/ ReturnExisting(c, j) /\ call'[c].pc = "returned"
          \/ j # i /\ call'[c].inv = j
      BY <2>1, <2>3 DEF ReturnExisting, FindNothing, Idle
    <3> QED BY <2>1, <3>1, <3>2 DEF Deserted, CallsOf, InProgress
  <2>4. ASSUME NEW c \in Calls, LeftoverEnds(c) PROVE Stays(i)
    BY <1>1, <2>4 DEF LeftoverEnds, Deserted, CallsOf, InProgress
  <2> QED BY <1>1, <2>2, <2>3, <2>4 DEF Next, ExecutorStep
<1>2. BrokerInv /\ [Next]_vars =>
        [\A i \in Invocations : Deserted(i) => Stays(i)]_vars
  BY <1>1
<1> QED BY <1>2, BrokerInvariant, PTL DEF Spec, NobodyTakesOver

-----------------------------------------------------------------------------
(* What the end of a call rests on                                         *)
(*                                                                         *)
(* That a call returns is a property of fair behaviours.  What it needs of *)
(* the broker is that no call in progress is stuck, and that none goes on  *)
(* for ever; both are statements about states and steps.                   *)

Moves(c, from, to) ==
  call[c].pc = from /\ call'[c].pc = to /\ call'[c].attempts = call[c].attempts

\* The order of what execute(...) does.
LEMMA OrderOfSteps ==
  ASSUME BrokerInv, NEW c \in Calls,
         \/ BrokerStep(c) \/ AttemptAnswers(c) \/ AttemptThrows(c) \/ Abandon(c)
  PROVE  \/ Moves(c, "inserting", "deciding") \/ Moves(c, "inserting", "rereading")
         \/ Moves(c, "rereading", "deciding") \/ Moves(c, "rereading", "returned")
         \/ Moves(c, "deciding", "returned") \/ Moves(c, "deciding", "starting")
         \/ Moves(c, "starting", "executing")
         \/ /\ call[c].pc = "executing" /\ call'[c].pc = "waiting"
            /\ call'[c].attempts = call[c].attempts + 1
         \/ Moves(c, "waiting", "executing") \/ Moves(c, "waiting", "completing")
         \/ Moves(c, "completing", "returned")
         \/ InProgress(c) /\ Moves(c, call[c].pc, "lost")
<1>0. call \in [Calls -> Locals]
  BY DEF BrokerInv, TypeOK
<1>1. CASE InsertRequested(c)
  <2>1. \/ call'[c] = [call[c] EXCEPT !.pc = "deciding", !.copy = "REQUESTED"]
        \/ call'[c] = [call[c] EXCEPT !.pc = "rereading"]
    BY <1>0, <1>1 DEF InsertRequested
  <2> QED BY <1>0, <1>1, <2>1 DEF InsertRequested, Moves, Locals
<1>2. CASE InsertFails(c)
  <2>1. call'[c] = [call[c] EXCEPT !.pc = "rereading"]
    BY <1>0, <1>2 DEF InsertFails
  <2> QED BY <1>0, <1>2, <2>1 DEF InsertFails, Moves, Locals
<1>3. CASE Reread(c)
  <2>1. \/ call'[c] = [call[c] EXCEPT !.pc = "deciding", !.copy = status[call[c].inv]]
        \/ call'[c] = [call[c] EXCEPT !.pc = "returned", !.copy = status[call[c].inv]]
    BY <1>0, <1>3 DEF Reread, Return
  <2> QED BY <1>0, <1>3, <2>1 DEF Reread, Moves, Locals
<1>4. CASE Deny(c)
  <2>1. call'[c] = [call[c] EXCEPT !.pc = "returned", !.copy = "DENIED"]
    BY <1>0, <1>4 DEF Deny, Return
  <2> QED BY <1>0, <1>4, <2>1 DEF Deny, Moves, Locals
<1>5. CASE Allow(c)
  <2>1. call'[c] = [call[c] EXCEPT !.pc = "starting", !.copy = "ALLOWED"]
    BY <1>0, <1>5 DEF Allow
  <2> QED BY <1>0, <1>5, <2>1 DEF Allow, Moves, Locals
<1>6. CASE StartRunning(c)
  <2>1. call'[c] = [call[c] EXCEPT !.pc = "executing", !.copy = "RUNNING"]
    BY <1>0, <1>6 DEF StartRunning
  <2> QED BY <1>0, <1>6, <2>1 DEF StartRunning, Moves, Locals
<1>7. CASE StartAttempt(c)
  <2>1. PICK n : n = call[c].attempts + 1
    OBVIOUS
  <2>2. call'[c] = [call[c] EXCEPT !.pc = "waiting", !.attempts = n]
    BY <1>0, <1>7, <2>1 DEF StartAttempt, Current
  <2> QED BY <1>0, <1>7, <2>1, <2>2 DEF StartAttempt, Locals
<1>8. CASE AttemptTimesOut(c)
  <2>1. \/ call'[c] = [call[c] EXCEPT !.pc = "executing"]
        \/ call'[c] = [call[c] EXCEPT !.pc = "completing", !.outcome = "FAILED"]
    BY <1>0, <1>8 DEF AttemptTimesOut, RetryOrConclude, Conclude
  <2> QED BY <1>0, <1>8, <2>1 DEF AttemptTimesOut, Awaited, Moves, Locals
<1>9. CASE Complete(c)
  <2>1. call'[c] = [call[c] EXCEPT !.pc = "returned", !.copy = call[c].outcome]
    BY <1>0, <1>9 DEF Complete, Return
  <2> QED BY <1>0, <1>9, <2>1 DEF Complete, Moves, Locals
<1>10. CASE AttemptAnswers(c)
  <2>1. \/ call'[c] = [call[c] EXCEPT !.pc = "completing", !.outcome = "SUCCEEDED"]
        \/ call'[c] = [call[c] EXCEPT !.pc = "completing", !.outcome = "FAILED"]
    BY <1>0, <1>10 DEF AttemptAnswers, Conclude
  <2> QED BY <1>0, <1>10, <2>1 DEF AttemptAnswers, Awaited, Moves, Locals
<1>11. CASE AttemptThrows(c)
  <2>1. \/ call'[c] = [call[c] EXCEPT !.pc = "executing"]
        \/ call'[c] = [call[c] EXCEPT !.pc = "completing", !.outcome = "FAILED"]
    BY <1>0, <1>11 DEF AttemptThrows, RetryOrConclude, Conclude
  <2> QED BY <1>0, <1>11, <2>1 DEF AttemptThrows, Awaited, Moves, Locals
<1>12. CASE Abandon(c)
  <2>1. call'[c] = [call[c] EXCEPT !.pc = "lost"]
    BY <1>0, <1>12 DEF Abandon
  <2> QED BY <1>0, <1>12, <2>1 DEF Abandon, Moves, Locals
<1> QED
  BY <1>1, <1>2, <1>3, <1>4, <1>5, <1>6, <1>7, <1>8, <1>9, <1>10, <1>11, <1>12 DEF BrokerStep

\* How many steps a call has before it at most: what is left of the budget of
\* attempts counts for two steps each.
Budget(c) == 2 * (MaxRetries + 1 - call[c].attempts)
StepsLeft(c) ==
  CASE call[c].pc = "idle" -> Budget(c) + 8
    [] call[c].pc = "inserting" -> Budget(c) + 7
    [] call[c].pc = "rereading" -> Budget(c) + 6
    [] call[c].pc = "deciding" -> Budget(c) + 5
    [] call[c].pc = "starting" -> Budget(c) + 4
    [] call[c].pc = "executing" -> Budget(c) + 2
    [] call[c].pc = "waiting" -> Budget(c) + 3
    [] call[c].pc = "completing" -> 1
    [] call[c].pc \in {"returned", "lost"} -> 0

\* Every step a call makes takes it nearer to its end, whatever others do to
\* its row, however often its attempts fail or time out.
CallsRunDown ==
  /\ [](\A c \in Calls : StepsLeft(c) \in 0 .. 2 * MaxRetries + 10)
  /\ [][\A c \in Calls : call'[c] # call[c] => StepsLeft(c)' < StepsLeft(c)]_vars

\* The steps left are a number within bounds.
LEMMA StepsLeftCounted ==
  ASSUME BrokerInv, NEW c \in Calls
  PROVE  StepsLeft(c) \in 0 .. 2 * MaxRetries + 10
<1>1. call[c] \in Locals /\ call[c].attempts \in 0 .. 1 + MaxRetries
  BY BrokerBoundsAssumption DEF BrokerInv, TypeOK, Locals, ShapeOf
<1>2. Budget(c) \in 0 .. 2 * MaxRetries + 2
  BY <1>1, BrokerBoundsAssumption DEF Budget
<1>3. StepsLeft(c) \in {0, 1} \/ \E n \in 2 .. 8 : StepsLeft(c) = Budget(c) + n
  <2>1. call[c].pc \in {"idle", "inserting", "rereading", "deciding", "starting",
                        "executing", "waiting", "completing", "returned", "lost"}
    BY <1>1 DEF Locals
  <2>2. CASE call[c].pc \in {"completing", "returned", "lost"}
    BY <2>2 DEF StepsLeft
  <2>3. CASE call[c].pc \notin {"completing", "returned", "lost"}
    BY <2>1, <2>3 DEF StepsLeft
  <2> QED BY <2>2, <2>3
<1> HIDE DEF Budget, StepsLeft
<1> QED BY <1>2, <1>3, BrokerBoundsAssumption

\* Each step of a call leaves it fewer.
LEMMA StepRunsDown ==
  ASSUME BrokerInv, [Next]_vars, NEW c \in Calls, call'[c] # call[c]
  PROVE  StepsLeft(c)' < StepsLeft(c)
<1>1. /\ call[c] \in Locals /\ call \in [Calls -> Locals] /\ MaxRetries \in Nat
      /\ call[c].attempts \in 0 .. 1 + MaxRetries
      /\ call[c].pc \in {"idle", "inserting", "rereading", "deciding", "starting"} =>
           call[c].attempts = 0
      /\ call[c].pc = "executing" => call[c].attempts <= MaxRetries
  BY BrokerBoundsAssumption DEF BrokerInv, TypeOK, Locals, ShapeOf
<1>2. CASE \/ BrokerStep(c) \/ AttemptAnswers(c) \/ AttemptThrows(c) \/ Abandon(c)
  <2>1. call'[c].attempts = call[c].attempts =>
          Budget(c)' = Budget(c) /\ Budget(c) \in Nat
    BY <1>1 DEF Budget
  <2>2. ASSUME call[c].pc = "executing", call'[c].attempts = call[c].attempts + 1
        PROVE  Budget(c)' = Budget(c) - 2 /\ Budget(c) \in Nat
    BY <1>1, <2>2 DEF Budget
  <2> HIDE DEF Budget
  <2> QED BY <1>1, <1>2, <2>1, <2>2, OrderOfSteps DEF StepsLeft, Moves, InProgress, Locals
<1>3. ASSUME NEW i \in Invocations, ReturnExisting(c, i) \/ FindNothing(c, i)
      PROVE  StepsLeft(c)' < StepsLeft(c)
  <2>1. /\ call[c].pc = "idle" /\ call'[c].pc \in {"returned", "inserting"}
        /\ call'[c].attempts = 0
    BY <1>1, <1>3 DEF ReturnExisting, FindNothing, Idle
  <2>2. Budget(c)' = Budget(c) /\ Budget(c) \in Nat
    BY <1>1, <2>1 DEF Budget
  <2> HIDE DEF Budget
  <2> QED BY <2>1, <2>2 DEF StepsLeft
<1>4. ASSUME NEW d \in Calls \ {c}, NEW i \in Invocations,
             ReturnExisting(d, i) \/ FindNothing(d, i)
      PROVE  FALSE
  BY <1>1, <1>4 DEF ReturnExisting, FindNothing
<1>5. ASSUME NEW d \in Calls \ {c},
             \/ BrokerStep(d) \/ AttemptAnswers(d) \/ AttemptThrows(d) \/ Abandon(d)
      PROVE  FALSE
  BY <1>5, StepIsLocal
<1>6. ASSUME NEW d \in Calls, LeftoverEnds(d) PROVE FALSE
  BY <1>6 DEF LeftoverEnds
<1> QED BY <1>2, <1>3, <1>4, <1>5, <1>6 DEF Next, ExecutorStep, vars

\* No call goes on for ever: executeWithRetry is the only loop, and it runs
\* down the retries.
THEOREM CallsAreBounded == Spec => CallsRunDown
<1>1. BrokerInv => \A c \in Calls : StepsLeft(c) \in 0 .. 2 * MaxRetries + 10
  BY StepsLeftCounted
<1>2. BrokerInv /\ [Next]_vars =>
        [\A c \in Calls : call'[c] # call[c] => StepsLeft(c)' < StepsLeft(c)]_vars
  BY StepRunsDown
<1> QED BY <1>1, <1>2, BrokerInvariant, PTL DEF Spec, CallsRunDown

\* The guards of BrokerStep: every transition asserted on the copy in memory is
\* legal, and an attempt that is waited for is one the executor works on, so
\* that its answer or its timer can end it.
CanGoOn(c) ==
  \/ call[c].pc \in {"inserting", "rereading", "executing"}
  \/ /\ call[c].pc = "deciding"
     /\ \A to \in {"ALLOWED", "DENIED"} : CanTransitionToolCall(call[c].copy, to)
  \/ call[c].pc = "starting" /\ CanTransitionToolCall(call[c].copy, "RUNNING")
  \/ Awaited(c)
  \/ call[c].pc = "completing" /\ CanTransitionToolCall(call[c].copy, call[c].outcome)

NobodyStuck == \A c \in Calls : InProgress(c) => CanGoOn(c)

AttemptsAreWorkedOn ==
  \A c \in Calls : call[c].pc = "waiting" => call[c].attempts \in inFlight[c]

\* An attempt that is waited for is one the executor works on.
LEMMA WorkedOnStep ==
  BrokerInv /\ AttemptsAreWorkedOn /\ [Next]_vars => AttemptsAreWorkedOn'
<1> SUFFICES ASSUME BrokerInv, AttemptsAreWorkedOn, [Next]_vars,
                    NEW c \in Calls, call'[c].pc = "waiting"
             PROVE  call'[c].attempts \in inFlight'[c]
  BY DEF AttemptsAreWorkedOn
<1>0. /\ call \in [Calls -> Locals] /\ inFlight \in [Calls -> SUBSET Nat]
      /\ call[c].attempts \in Nat
  BY DEF BrokerInv, TypeOK, Locals
<1>1. CASE StartAttempt(c)
  <2>1. PICK n : n = call[c].attempts + 1
    OBVIOUS
  <2>2. call'[c] = [call[c] EXCEPT !.pc = "waiting", !.attempts = n]
    BY <1>0, <1>1, <2>1 DEF StartAttempt, Current
  <2>3. call'[c].attempts = n
    BY <1>0, <2>2 DEF Locals
  <2> QED BY <1>0, <1>1, <2>1, <2>3 DEF StartAttempt, Current
<1>2. CASE (BrokerStep(c) /\ ~StartAttempt(c)) \/ AttemptAnswers(c) \/ AttemptThrows(c)
           \/ Abandon(c)
  <2>1. call[c].pc = "executing"
    BY <1>2, OrderOfSteps DEF Moves
  <2>2. ~Abandon(c)
    BY <1>0 DEF Abandon, Locals
  <2> QED
    BY <1>2, <2>1, <2>2 DEF BrokerStep, InsertRequested, InsertFails, Reread, Deny, Allow,
                            StartRunning, AttemptTimesOut, Awaited, Complete,
                            AttemptAnswers, AttemptThrows
<1>3. ASSUME NEW i \in Invocations, ReturnExisting(c, i) \/ FindNothing(c, i) PROVE FALSE
  BY <1>0, <1>3 DEF ReturnExisting, FindNothing, Idle
<1>4. ASSUME call'[c] = call[c], inFlight'[c] = inFlight[c]
      PROVE  call'[c].attempts \in inFlight'[c]
  BY <1>4 DEF AttemptsAreWorkedOn
<1>5. ASSUME NEW d \in Calls \ {c},
             \/ BrokerStep(d) \/ AttemptAnswers(d) \/ AttemptThrows(d) \/ Abandon(d)
      PROVE  call'[c].attempts \in inFlight'[c]
  <2>1. call'[c] = call[c]
    BY <1>5, StepIsLocal
  <2>2. inFlight'[c] = inFlight[c]
    BY <1>0, <1>5 DEF BrokerStep, InsertRequested, InsertFails, Reread, Deny, Allow,
                      StartRunning, StartAttempt, AttemptTimesOut, Complete,
                      AttemptAnswers, AttemptThrows, Abandon
  <2> QED BY <1>4, <2>1, <2>2
<1>6. ASSUME NEW d \in Calls \ {c}, NEW i \in Invocations,
             ReturnExisting(d, i) \/ FindNothing(d, i)
      PROVE  call'[c].attempts \in inFlight'[c]
  BY <1>0, <1>4, <1>6 DEF ReturnExisting, FindNothing
<1>7. ASSUME NEW d \in Calls, LeftoverEnds(d)
      PROVE  call'[c].attempts \in inFlight'[c]
  <2>1. call' = call /\ Awaited(c)
    BY <1>7 DEF LeftoverEnds, AttemptsAreWorkedOn, Awaited, Current
  <2> QED BY <1>0, <1>7, <2>1 DEF LeftoverEnds, Awaited, Current
<1>8. CASE UNCHANGED vars
  BY <1>4, <1>8 DEF vars
<1> QED BY <1>1, <1>2, <1>3, <1>5, <1>6, <1>7, <1>8 DEF Next, ExecutorStep

\* No call is ever stuck: assertToolCallTransition never refuses what the broker
\* is about to do, races included, and whoever waits can be timed out.
THEOREM BrokerIsNeverStuck == Spec => []NobodyStuck
<1>1. Init => AttemptsAreWorkedOn
  BY DEF Init, Idle, AttemptsAreWorkedOn
<1>2. BrokerInv /\ AttemptsAreWorkedOn => NobodyStuck
  <2> SUFFICES ASSUME BrokerInv, AttemptsAreWorkedOn, NEW c \in Calls, InProgress(c)
               PROVE  CanGoOn(c)
    BY DEF NobodyStuck
  <2>1. /\ call[c].pc \in {"inserting", "rereading", "executing"} \cup Working
        /\ CopyOf(c) /\ ShapeOf(c)
    BY DEF BrokerInv, TypeOK, Locals, InProgress, Working
  <2>2. CASE call[c].pc = "deciding"
    BY <2>1, <2>2 DEF CopyOf, Working, CanGoOn, CanTransitionToolCall, ToolCallTransitions
  <2>3. CASE call[c].pc = "starting"
    BY <2>1, <2>3 DEF CopyOf, Working, CanGoOn, CanTransitionToolCall, ToolCallTransitions
  <2>4. CASE call[c].pc = "completing"
    BY <2>1, <2>4 DEF CopyOf, ShapeOf, Working, CanGoOn, CanTransitionToolCall,
                      ToolCallTransitions
  <2>5. CASE call[c].pc = "waiting"
    BY <2>5 DEF AttemptsAreWorkedOn, CanGoOn, Awaited, Current
  <2> QED BY <2>1, <2>2, <2>3, <2>4, <2>5 DEF CanGoOn, Working
<1> QED BY <1>1, <1>2, WorkedOnStep, BrokerInvariant, PTL DEF Spec

-----------------------------------------------------------------------------
(* The broker keeps the promise of ToolInvocation *)

Asked == [i \in Invocations |-> [c \in Calls |->
            IF call[c].inv = i THEN call[c].attempts ELSE 0]]
AnswerOf(c) ==
  IF call[c].pc = "returned" THEN <<call[c].copy, call[c].inv>> ELSE <<>>

\* A step of a call past its lookup.
Progress(c) == BrokerStep(c) \/ AttemptAnswers(c) \/ AttemptThrows(c) \/ Abandon(c)

\* At first nothing is recorded, asked or answered.
LEMMA PromiseInit == Init => Invocation!Init
<1> SUFFICES ASSUME Init PROVE Invocation!Init
  OBVIOUS
<1>1. \A c \in Calls : call[c].pc = "idle" /\ call[c].attempts = 0
  BY DEF Init, Idle
<1>2. \A i \in Invocations, c \in Calls :
        (IF call[c].inv = i THEN call[c].attempts ELSE 0) = 0
  BY <1>1
<1>3. \A c \in Calls : AnswerOf(c) = <<>>
  BY <1>1 DEF AnswerOf
<1> QED BY <1>2, <1>3 DEF Init, Invocation!Init, AnswerOf, NoRow

\* A call that returns is given what is recorded, by this very step if by any.
LEMMA ReturnsWhatIsRecorded ==
  ASSUME BrokerInv, NEW c \in Calls, Progress(c)
  PROVE  /\ call[c].pc # "returned"
         /\ call'[c].pc = "returned" => call'[c].copy = status'[call[c].inv]
<1>0. /\ call \in [Calls -> Locals] /\ status \in [Invocations -> ToolCallStatus \cup {NoRow}]
      /\ call[c].pc # "idle" => call[c].inv \in Invocations
  BY DEF BrokerInv, TypeOK, ShapeOf
<1>1. InProgress(c)
  BY StepIsLocal DEF Progress
<1>2. CASE Reread(c)
  <2>1. status' = status
    BY <1>2 DEF Reread
  <2>2. \/ call'[c] = [call[c] EXCEPT !.pc = "deciding", !.copy = status[call[c].inv]]
        \/ call'[c] = [call[c] EXCEPT !.pc = "returned", !.copy = status[call[c].inv]]
    BY <1>0, <1>2 DEF Reread, Return
  <2> QED BY <1>0, <1>1, <2>1, <2>2 DEF Locals, InProgress
<1>3. CASE Deny(c)
  <2>1. call'[c] = [call[c] EXCEPT !.pc = "returned", !.copy = "DENIED"]
    BY <1>0, <1>3 DEF Deny, Return
  <2>2. status'[call[c].inv] = "DENIED"
    BY <1>0, <1>1, <1>3 DEF Deny, UpdateStatusWithAudit, UpdateStatus, InProgress
  <2> QED BY <1>0, <1>1, <2>1, <2>2 DEF Locals, InProgress
<1>4. CASE Complete(c)
  <2>1. call'[c] = [call[c] EXCEPT !.pc = "returned", !.copy = call[c].outcome]
    BY <1>0, <1>4 DEF Complete, Return
  <2>2. status'[call[c].inv] = call[c].outcome
    BY <1>0, <1>1, <1>4 DEF Complete, UpdateStatusWithAudit, UpdateStatus, InProgress
  <2> QED BY <1>0, <1>1, <2>1, <2>2 DEF Locals, InProgress
<1>5. CASE ~Reread(c) /\ ~Deny(c) /\ ~Complete(c)
  <2>1. CASE \/ InsertRequested(c) \/ InsertFails(c) \/ Allow(c) \/ StartRunning(c)
             \/ StartAttempt(c) \/ Abandon(c)
    <3>1. call'[c].pc # "returned"
      BY <1>0, <2>1, ZenonT(30) DEF InsertRequested, InsertFails, Allow, StartRunning,
         StartAttempt, Abandon, Locals
    <3> QED BY <1>1, <3>1 DEF InProgress
  <2>2. CASE AttemptTimesOut(c) \/ AttemptAnswers(c) \/ AttemptThrows(c)
    <3>1. call'[c].pc # "returned"
      BY <1>0, <2>2, ZenonT(30) DEF AttemptTimesOut, AttemptAnswers, AttemptThrows,
         RetryOrConclude, Conclude, Locals
    <3> QED BY <1>1, <3>1 DEF InProgress
  <2> QED BY <1>5, <2>1, <2>2 DEF Progress, BrokerStep
<1> QED BY <1>2, <1>3, <1>4, <1>5

\* Callers are told the truth, contested or not.
LEMMA CallersAreTold ==
  ASSUME BrokerInv, Next, NEW d \in Calls
  PROVE  Invocation!Told(d)
<1>0. /\ call \in [Calls -> Locals]
      /\ \A c \in Calls : call[c].pc # "idle" => call[c].inv \in Invocations
  BY DEF BrokerInv, TypeOK, ShapeOf
<1> DEFINE Honest ==
      \/ AnswerOf(d)' = AnswerOf(d)
      \/ AnswerOf(d) = <<>> /\ \E i \in Invocations : AnswerOf(d)' = <<status'[i], i>>
<1>1. Honest
  <2>1. ASSUME NEW c \in Calls, NEW i \in Invocations, ReturnExisting(c, i)
        PROVE  Honest
    <3>1. CASE d = c
      <4>1. call'[c].pc = "returned" /\ call'[c].inv = i /\ call'[c].copy = status'[i]
        BY <1>0, <2>1 DEF ReturnExisting, Idle
      <4> QED BY <2>1, <3>1, <4>1 DEF ReturnExisting, AnswerOf
    <3>2. CASE d # c
      BY <1>0, <2>1, <3>2 DEF ReturnExisting, AnswerOf
    <3> QED BY <3>1, <3>2
  <2>2. ASSUME NEW c \in Calls, NEW i \in Invocations, FindNothing(c, i)
        PROVE  Honest
    BY <1>0, <2>2 DEF FindNothing, AnswerOf, Idle
  <2>3. ASSUME NEW c \in Calls, Progress(c) PROVE Honest
    <3>1. CASE d = c
      <4>1. call'[c].inv = call[c].inv /\ call[c].inv \in Invocations
        BY <1>0, <2>3, StepIsLocal, StepKeepsInvocation DEF Progress, InProgress
      <4> QED BY <2>3, <3>1, <4>1, ReturnsWhatIsRecorded DEF AnswerOf
    <3>2. CASE d # c
      BY <2>3, <3>2, StepIsLocal DEF Progress, AnswerOf
    <3> QED BY <3>1, <3>2
  <2>4. ASSUME NEW c \in Calls, LeftoverEnds(c) PROVE Honest
    BY <2>4 DEF LeftoverEnds, AnswerOf
  <2> QED BY <2>1, <2>2, <2>3, <2>4 DEF Next, ExecutorStep, Progress
<1> QED BY <1>1 DEF Invocation!Told, AnswerOf

\* Asking is counted for the call that asks.
LEMMA OthersAsked ==
  ASSUME NEW c \in Calls, \A d \in Calls \ {c} : call'[d] = call[d],
         call'[c].inv = call[c].inv
  PROVE  /\ \A j \in Invocations \ {call[c].inv} : Asked'[j] = Asked[j]
         /\ call'[c].attempts = call[c].attempts => Asked' = Asked
<1>1. ASSUME NEW j \in Invocations, NEW d \in Calls,
             j # call[c].inv \/ call'[c].attempts = call[c].attempts
      PROVE  (IF call[d].inv = j THEN call[d].attempts ELSE 0)'
               = IF call[d].inv = j THEN call[d].attempts ELSE 0
  BY <1>1
<1> QED BY <1>1 DEF Asked

\* Looking an invocation up asks nobody.
LEMMA LookupAsksNobody ==
  ASSUME BrokerInv, NEW c \in Calls, NEW i \in Invocations,
         ReturnExisting(c, i) \/ FindNothing(c, i)
  PROVE  Asked' = Asked
<1>1. call \in [Calls -> Locals] /\ call[c].attempts = 0
  BY DEF BrokerInv, TypeOK, ShapeOf, ReturnExisting, FindNothing
<1>2. /\ call'[c].attempts = 0
      /\ \A d \in Calls \ {c} : call'[d] = call[d]
  BY <1>1 DEF ReturnExisting, FindNothing, Idle
<1>3. ASSUME NEW j \in Invocations, NEW d \in Calls
      PROVE  (IF call[d].inv = j THEN call[d].attempts ELSE 0)'
               = IF call[d].inv = j THEN call[d].attempts ELSE 0
  BY <1>1, <1>2
<1> QED BY <1>3 DEF Asked

\* Two tables with the same entries are one.
LEMMA SameTable ==
  ASSUME NEW F \in [Invocations -> [Calls -> Nat]],
         NEW G \in [Invocations -> [Calls -> Nat]],
         \A i \in Invocations, c \in Calls : F[i][c] = G[i][c]
  PROVE  F = G
<1>1. \A i \in Invocations : F[i] = G[i]
  OBVIOUS
<1> QED BY <1>1

\* What was promised of is as it was.
Unmoved == UNCHANGED <<status, Asked, raced>>

\* One step of a call in progress is one move of its record, or asks once, or
\* changes nothing that was promised.
LEMMA StepKeepsPromise ==
  ASSUME BrokerInv, NEW c \in Calls, Progress(c), NEW i \in Invocations, i = call[c].inv,
         i \notin raced
  PROVE  \/ Unmoved
         \/ Invocation!Request(i) \/ Invocation!Decide(i) \/ Invocation!Run(i)
         \/ Invocation!Ask(i, c) \/ Invocation!End(i)
<1>0. /\ call \in [Calls -> Locals] /\ status \in [Invocations -> ToolCallStatus \cup {NoRow}]
      /\ ShapeOf(c) /\ CopyOf(c) /\ raced' = raced
  BY DEF BrokerInv, TypeOK, Progress, BrokerStep, InsertRequested, InsertFails, Reread, Deny,
     Allow, StartRunning, StartAttempt, AttemptTimesOut, Complete, AttemptAnswers,
     AttemptThrows, Abandon
<1>1. /\ \A d \in Calls \ {c} : call'[d] = call[d]
      /\ call'[c].inv = call[c].inv
  BY StepIsLocal, StepKeepsInvocation DEF Progress
<1>2. ~StartAttempt(c) => Asked' = Asked
  <2>1. \/ call'[c].attempts = call[c].attempts
        \/ call[c].pc = "executing" /\ call'[c].pc = "waiting"
    BY OrderOfSteps DEF Progress, Moves
  <2>2. call[c].pc = "executing" => StartAttempt(c) \/ Abandon(c)
    BY DEF Progress, BrokerStep, InsertRequested, InsertFails, Reread, Deny, Allow,
       StartRunning, AttemptTimesOut, Complete, AttemptAnswers, AttemptThrows, Awaited
  <2>3. Abandon(c) => call'[c].pc = "lost"
    BY <1>0 DEF Abandon
  <2>4. ~StartAttempt(c) => call'[c].attempts = call[c].attempts
    BY <2>1, <2>2, <2>3
  <2> QED BY <1>1, <2>4, OthersAsked
<1>3. ASSUME NEW to, UpdateStatus(c, to), call[c].pc \in Working
      PROVE  /\ CanTransitionToolCall(status[i], to)
             /\ status' = [status EXCEPT ![i] = to]
  BY <1>0, <1>3 DEF UpdateStatus, CopyOf
<1>4. CASE InsertRequested(c)
  BY <1>0, <1>2, <1>4 DEF InsertRequested, StartAttempt, Invocation!Request,
     Invocation!Become, NoRow, Asked
<1>5. CASE Deny(c) \/ Allow(c)
  <2>1. PICK to \in {"DENIED", "ALLOWED"} : UpdateStatus(c, to)
    BY <1>5 DEF Deny, Allow, UpdateStatusWithAudit
  <2>2. call[c].pc = "deciding" /\ status[i] = "REQUESTED"
    BY <1>0, <1>5 DEF Deny, Allow, CopyOf, Working
  <2>3. Asked' = Asked
    BY <1>2, <2>2 DEF StartAttempt
  <2> QED BY <1>0, <1>3, <2>1, <2>2, <2>3
          DEF Working, Invocation!Decide, Invocation!Become, Asked
<1>6. CASE StartRunning(c)
  <2>1. call[c].pc = "starting" /\ status[i] = "ALLOWED"
    BY <1>0, <1>6 DEF StartRunning, CopyOf, Working
  <2>2. Asked' = Asked
    BY <1>2, <2>1 DEF StartAttempt
  <2> QED BY <1>0, <1>3, <1>6, <2>1, <2>2
          DEF StartRunning, Working, Invocation!Run, Invocation!Become, Asked
<1>7. CASE StartAttempt(c)
  <2>1. /\ status[i] = "RUNNING" /\ call[c].pc = "executing" /\ status' = status
        /\ call[c].attempts \in Nat
        /\ call'[c].attempts = call[c].attempts + 1
    BY <1>0, <1>7, OrderOfSteps DEF StartAttempt, CopyOf, Working, Current, Locals, Moves,
       InProgress, Progress, BrokerStep
  <2>2. \A d \in Calls \ {c} : Asked[i][d] = 0
    <3>1. SUFFICES ASSUME NEW d \in Calls \ {c}, call[d].inv = i
                   PROVE  call[d].attempts = 0
      BY DEF Asked
    <3>2. ~Engaged(d)
      BY <2>1, <3>1 DEF BrokerInv, SoleEngaged, Engaged, Working
    <3> QED BY <1>0, <3>2 DEF Engaged, Locals
  <2>3. Asked[i][c] = call[c].attempts /\ call[c].attempts < Invocation!Budget(i)
    BY <1>0, <2>1, BrokerBoundsAssumption DEF Asked, ShapeOf, Invocation!Budget
  <2>4. Asked' = [Asked EXCEPT ![i][c] = @ + 1]
    <3>1. ASSUME NEW j \in Invocations, NEW d \in Calls
          PROVE  (IF call[d].inv = j THEN call[d].attempts ELSE 0)'
                   = [Asked EXCEPT ![i][c] = @ + 1][j][d]
      BY <1>1, <2>1, <3>1 DEF Asked
    <3>2. /\ Asked \in [Invocations -> [Calls -> Nat]]
          /\ Asked' \in [Invocations -> [Calls -> Nat]]
      BY <1>0, <1>1, <2>1 DEF Asked, Locals
    <3>3. \A j \in Invocations, d \in Calls :
            Asked'[j][d] = [Asked EXCEPT ![i][c] = @ + 1][j][d]
      BY <3>1 DEF Asked
    <3>4. [Asked EXCEPT ![i][c] = @ + 1] \in [Invocations -> [Calls -> Nat]]
      BY <3>2
    <3>5. PICK F, G : F = Asked' /\ G = [Asked EXCEPT ![i][c] = @ + 1]
      OBVIOUS
    <3>6. F \in [Invocations -> [Calls -> Nat]] /\ G \in [Invocations -> [Calls -> Nat]]
      BY <3>2, <3>4, <3>5
    <3>7. \A j \in Invocations, d \in Calls : F[j][d] = G[j][d]
      BY <3>3, <3>5
    <3>8. F = G
      BY <3>6, <3>7, SameTable
    <3> QED BY <3>5, <3>8
  <2> QED BY <1>0, <2>1, <2>2, <2>3, <2>4 DEF Invocation!Ask, Invocation!AskedBy, Asked
<1>8. CASE Complete(c)
  <2>1. /\ call[c].pc = "completing" /\ status[i] = "RUNNING"
        /\ call[c].outcome \in {"SUCCEEDED", "FAILED"} /\ call[c].attempts > 0
        /\ UpdateStatus(c, call[c].outcome)
    BY <1>0, <1>8 DEF Complete, UpdateStatusWithAudit, CopyOf, ShapeOf, Working
  <2>2. Asked' = Asked
    BY <1>2, <2>1 DEF StartAttempt
  <2>3. \E d \in Calls : Asked[i][d] > 0
    BY <2>1 DEF Asked
  <2> QED BY <1>0, <1>3, <2>1, <2>2, <2>3
          DEF Working, Invocation!End, Invocation!AskedBy, Invocation!Become, Asked
<1>9. CASE \/ InsertFails(c) \/ Reread(c) \/ AttemptTimesOut(c) \/ AttemptAnswers(c)
           \/ AttemptThrows(c) \/ Abandon(c)
  <2>1. status' = status
    BY <1>9 DEF InsertFails, Reread, AttemptTimesOut, AttemptAnswers, AttemptThrows, Abandon
  <2>2. CASE ~StartAttempt(c)
    BY <1>0, <1>2, <2>1, <2>2 DEF Unmoved
  <2> QED BY <1>7, <2>2
<1> QED BY <1>4, <1>5, <1>6, <1>7, <1>8, <1>9 DEF Progress, BrokerStep

\* Every step of the broker is one that was promised.
LEMMA PromiseStep == BrokerInv /\ [Next]_vars => [Invocation!Next]_(Invocation!invocation)
<1> SUFFICES ASSUME BrokerInv, [Next]_vars
             PROVE  [Invocation!Next]_(Invocation!invocation)
  OBVIOUS
<1> DEFINE Promised ==
      \/ \E i \in Invocations :
           \/ Invocation!Request(i) \/ Invocation!Decide(i) \/ Invocation!Run(i)
           \/ \E c \in Calls : Invocation!Ask(i, c)
           \/ Invocation!End(i) \/ Invocation!Contest(i) \/ Invocation!Dispute(i)
      \/ Unmoved
<1>1. ASSUME NEW c \in Calls, NEW i \in Invocations, ReturnExisting(c, i) PROVE Promised
  BY <1>1, LookupAsksNobody DEF ReturnExisting, Unmoved
<1>2. ASSUME NEW c \in Calls, NEW i \in Invocations, FindNothing(c, i) PROVE Promised
  <2>1. Asked' = Asked
    BY <1>2, LookupAsksNobody
  <2>2. raced' = raced \/ raced' = raced \cup {i}
    BY <1>2 DEF FindNothing
  <2> QED BY <1>2, <2>1, <2>2 DEF FindNothing, Unmoved, Invocation!Contest, Asked, NoRow
<1>3. ASSUME NEW c \in Calls, Progress(c) PROVE Promised
  <2>1. PICK i \in Invocations : i = call[c].inv
    BY <1>3, StepIsLocal DEF Progress, InProgress, BrokerInv, ShapeOf
  <2>2. CASE i \in raced
    <3>1. raced' = raced
      BY <1>3 DEF Progress, BrokerStep, InsertRequested, InsertFails, Reread, Deny,
         Allow, StartRunning, StartAttempt, AttemptTimesOut, Complete, AttemptAnswers,
         AttemptThrows, Abandon
    <3>2. \A j \in Invocations \ {i} : status'[j] = status[j] /\ Asked'[j] = Asked[j]
      BY <1>3, <2>1, StepIsLocal, StepKeepsInvocation, OthersAsked DEF Progress
    <3>3. Invocation!Dispute(i)
      BY <2>2, <3>1, <3>2 DEF Invocation!Dispute, Asked
    <3> QED BY <3>3
  <2> QED BY <1>3, <2>1, <2>2, StepKeepsPromise
<1>4. ASSUME NEW c \in Calls, LeftoverEnds(c) PROVE Promised
  BY <1>4 DEF LeftoverEnds, Unmoved, Asked
<1>5. CASE Next
  <2>1. Promised
    BY <1>1, <1>2, <1>3, <1>4, <1>5 DEF Next, ExecutorStep, Progress
  <2>2. \A d \in Calls : Invocation!Told(d)
    BY <1>5, CallersAreTold
  <2> QED BY <2>1, <2>2 DEF Invocation!Next, Unmoved, Asked
<1>6. CASE UNCHANGED vars
  BY <1>6 DEF vars, Invocation!invocation
<1> QED BY <1>5, <1>6

\* ToolBrokerService keeps its promise, however calls for an invocation repeat,
\* race, time out, retry and are lost.
THEOREM BrokerImplementsInvocation == Spec => ImplementsInvocation
<1> QED BY PromiseInit, PromiseStep, BrokerInvariant,
           PTL DEF Spec, ImplementsInvocation, Invocation!Spec
=============================================================================
