---------------------------- MODULE ToolSession ----------------------------
(***************************************************************************)
(* The composition of the Tool Broker's retries and timeouts, the          *)
(* McpToolExecutor and the shared connection of McpClientService.          *)
(*                                                                         *)
(* An execution is one executeWithRetry of a tool of the local MCP server, *)
(* whose definitions are all idempotent.  Each of its attempts is a caller *)
(* of McpConnection.  The timer of an attempt aborts its signal: from then *)
(* on nobody waits for the attempt, but the client still finishes it, and  *)
(* a request made or pending under an aborted signal fails.  In what order *)
(* the abort and the retry reach the client is left open.                  *)
(***************************************************************************)
EXTENDS Naturals, FiniteSets

CONSTANTS
  Executions,    \* executeWithRetry calls, of one invocation each
  MaxRetries,    \* max_retries of the definitions
  MaxConnections \* bound: how many child processes are spawned

ASSUME SessionAssumption ==
  /\ IsFiniteSet(Executions)
  /\ MaxRetries \in Nat /\ MaxConnections \in Nat

VARIABLES
  session, \* where each execution is
  calm,    \* history: of what broke, timed out or was shut down nothing is left
  connection, connecting, destroyed, server, caller, closer

Attempts == Executions \X (1 .. MaxRetries + 1)

Mcp == INSTANCE McpConnection WITH Callers <- Attempts

clientVars == <<connection, connecting, destroyed, server, caller, closer>>
vars == <<session, calm, clientVars>>

Retryable == {"MCP_CONNECTION_ERROR", "MCP_TRANSPORT_ERROR", "TOOL_TIMEOUT"}
ErrorCodes == Retryable \cup {"MCP_TOOL_ERROR", "MCP_INVALID_RESPONSE"}

\* The attempt the broker waits for, when pc is "waiting".
Now(e) == <<e, session[e].attempts>>
Awaited(a) == session[a[1]].pc = "waiting" /\ a = Now(a[1])

TypeOK ==
  /\ Mcp!TypeOK
  /\ calm \in BOOLEAN
  /\ session \in
       [Executions -> [pc : {"executing", "waiting", "succeeded", "failed"},
                       attempts : 0 .. MaxRetries + 1,
                       error : ErrorCodes \cup {"none"}]]
  /\ \A a \in Attempts : a[2] > session[a[1]].attempts => caller[a] = Mcp!Idle

Init ==
  /\ Mcp!Init
  /\ calm = TRUE
  /\ session = [e \in Executions |->
                  [pc |-> "executing", attempts |-> 0, error |-> "none"]]

-----------------------------------------------------------------------------
(* What the broker makes of the end of an attempt *)

CanRetry(n, error) == error \in Retryable /\ n - 1 < MaxRetries

AfterFailure(n, error) ==
  [pc |-> IF CanRetry(n, error) THEN "executing" ELSE "failed",
   attempts |-> n, error |-> error]

\* The executions whose attempt the client gave up in this step.
GivenUp(e) ==
  /\ Awaited(Now(e))
  /\ caller[Now(e)] # Mcp!Idle
  /\ caller'[Now(e)] = Mcp!Idle

Failing(error) ==
  session' = [e \in Executions |->
    IF GivenUp(e) THEN AfterFailure(session[e].attempts, error) ELSE session[e]]

-----------------------------------------------------------------------------
(* Calm: the client is left in peace, and no attempt that was disturbed is still
   in it.  Whether it has a connection, and which, is not asked. *)

Rested ==
  /\ ~destroyed
  /\ \A a \in Attempts : caller[a] = Mcp!Idle
  /\ \A k \in Mcp!Connections : server[k] # "broken"

\* A step that disturbs nothing: calm lasts, and begins once the client rests.
Calmed == calm' = (calm \/ Rested)
Disturbed == calm' = FALSE

-----------------------------------------------------------------------------
(* One attempt *)

\* Child processes are numbered as they are spawned.
NextConnection == 1 + Cardinality({k \in Mcp!Connections : server[k] # "unused"})

\* Mutant: the attempt is made and not counted.
StartUncounted(e) ==
  /\ session[e].pc = "executing"
  /\ \E k \in Mcp!Connections :
       k = NextConnection /\ Mcp!OpenConnection(<<e, session[e].attempts + 1>>, k)
  /\ session' = [session EXCEPT ![e].pc = "waiting"]
  /\ Calmed

\* The executor calls the client, which calls getConnection at once.
StartAttempt(e) ==
  LET a == <<e, session[e].attempts + 1>> IN
  /\ session[e].pc = "executing"
  /\ \/ Mcp!UseConnection(a)
     \/ Mcp!JoinConnecting(a)
     \/ \E k \in Mcp!Connections : k = NextConnection /\ Mcp!OpenConnection(a, k)
  /\ session' = [session EXCEPT ![e] =
       [pc |-> "waiting", attempts |-> @.attempts + 1, error |-> @.error]]
  /\ Calmed

\* A client that is destroyed refuses, which counts as an attempt.
StartRefused(e) ==
  /\ session[e].pc = "executing"
  /\ destroyed
  /\ session' = [session EXCEPT ![e] =
                   AfterFailure(@.attempts + 1, "MCP_CONNECTION_ERROR")]
  /\ Calmed
  /\ UNCHANGED clientVars

OpeningSettles(k) ==
  /\ \/ Mcp!OpenSucceeds(k) /\ Calmed
     \/ Mcp!OpenFails(k) /\ Disturbed
  /\ Failing("MCP_CONNECTION_ERROR")

\* What the local server answers: both forms of the output, or the error of a
\* lookup that found nothing.
successResult == [isError |-> FALSE, structured |-> TRUE, textBlocks |-> 1]
errorResult == [isError |-> TRUE, structured |-> FALSE, textBlocks |-> 1]

\* The executor prefers structured content to a single block of JSON.
ErrorOf(result) ==
  CASE result.isError -> "MCP_TOOL_ERROR"
    [] ~result.isError /\ (result.structured \/ result.textBlocks = 1) -> "none"
    [] OTHER -> "MCP_INVALID_RESPONSE"

Conclude(e, error) ==
  session' = [session EXCEPT ![e] =
    [pc |-> IF error = "none" THEN "succeeded" ELSE "failed",
     attempts |-> @.attempts, error |-> error]]

\* An answer ends the execution: an error of the tool is not retried.
AttemptAnswered(e) ==
  /\ Awaited(Now(e))
  /\ Mcp!Answered(Now(e))
  /\ \E result \in {successResult, errorResult} : Conclude(e, ErrorOf(result))
  /\ Calmed

\* Mutant: only the server ends a request, its signal does not.
FailsOnlyWithServer(a) ==
  /\ caller[a].pc = "requesting"
  /\ server[caller[a].conn] # "open"
  /\ Mcp!RequestFails(a)
  /\ Failing("MCP_TRANSPORT_ERROR")
  /\ Calmed

\* The signal is aborted or the connection is gone.
RequestFails(a) ==
  /\ caller[a].pc = "requesting"
  /\ ~Awaited(a) \/ server[caller[a].conn] # "open"
  /\ Mcp!RequestFails(a)
  /\ Failing("MCP_TRANSPORT_ERROR")
  /\ Calmed

\* Mutant: the client opens a connection in place of the one it closed.
ResetAndReopen(a) ==
  /\ caller[a].pc = "resetting" /\ Mcp!Drained(caller[a].conn)
  /\ connection = 0 /\ connecting = 0 /\ NextConnection <= MaxConnections
  /\ server' = [server EXCEPT ![caller[a].conn] = "closed",
                              ![NextConnection] = "opening"]
  /\ connecting' = NextConnection
  /\ caller' = [caller EXCEPT ![a] = Mcp!At("opening", NextConnection)]
  /\ Calmed
  /\ UNCHANGED <<session, connection, destroyed, closer>>

ResetDone(a) ==
  /\ Mcp!ResetDone(a)
  /\ Failing("MCP_TRANSPORT_ERROR")
  /\ Calmed

\* Mutant: no timer is armed.
NeverTimesOut(e) == FALSE /\ UNCHANGED vars

\* The timer wins: the signal is aborted and the attempt left to itself.
AttemptTimesOut(e) ==
  /\ Awaited(Now(e))
  /\ session' = [session EXCEPT ![e] = AfterFailure(@.attempts, "TOOL_TIMEOUT")]
  /\ Disturbed
  /\ UNCHANGED clientVars

\* The child process breaks, or the module is destroyed.
Disturbance ==
  /\ \/ \E k \in Mcp!Connections : Mcp!ServerBreaks(k)
     \/ Mcp!Close
  /\ Disturbed
  /\ UNCHANGED session

ClosingStep ==
  /\ Mcp!ClosePending \/ Mcp!CloseDone
  /\ Calmed
  /\ UNCHANGED session

BrokerStep(e) == StartAttempt(e) \/ StartRefused(e) \/ AttemptTimesOut(e)
ClientStep(a) == RequestFails(a) \/ ResetDone(a)

Next ==
  \/ \E e \in Executions : BrokerStep(e) \/ AttemptAnswered(e)
  \/ \E a \in Attempts : ClientStep(a)
  \/ \E k \in Mcp!Connections : OpeningSettles(k)
  \/ Disturbance
  \/ ClosingStep

Spec == Init /\ [][Next]_vars

\* The event loop resumes the broker and fires its timers, a request under an
\* aborted signal or on a closed connection fails, a child is killed in time
\* and the handshake has a timeout of its own.  No server need ever answer.
FairSpec ==
  /\ Spec
  /\ \A e \in Executions : WF_vars(BrokerStep(e))
  /\ \A a \in Attempts : WF_vars(ClientStep(a))
  /\ \A k \in Mcp!Connections : WF_vars(OpeningSettles(k))
  /\ WF_vars(ClosingStep)

-----------------------------------------------------------------------------
(* Properties *)

\* The broker is told that the attempt it waits for failed.
Fails(e) ==
  /\ Awaited(Now(e))
  /\ session'[e] # session[e]
  /\ session'[e].error \in Retryable

\* Sharing one connection that any request may reset (resetConnection) harms
\* nobody by itself, and the harm of a timeout, a broken server or a failed
\* opening does not last: once every attempt has left the client, no execution
\* fails until something is disturbed anew.
HarmPasses == [][calm' => \A e \in Executions : ~Fails(e)]_vars

\* The client does not retry by itself: however often connections are dropped,
\* no more child processes are spawned than attempts were made.
SpawnsWithinAttempts ==
  Cardinality({k \in Mcp!Connections : server[k] # "unused"})
    <= Cardinality({a \in Attempts : a[2] <= session[a[1]].attempts})

\* Every execution ends, though no server need answer, the connection is dropped
\* by others and the module destroyed.
ExecutionsEnd ==
  \A e \in Executions : <>[](session[e].pc \in {"succeeded", "failed"})

\* No attempt that timed out stays behind in the client.
LeftoversEnd ==
  \A a \in Attempts : caller[a] # Mcp!Idle ~> caller[a] = Mcp!Idle
=============================================================================
