------------------------- MODULE ToolSessionProofs -------------------------
(***************************************************************************)
(* Proofs about executions that share one connection, for any number of    *)
(* executions, retries and child processes: the client spawns no more than *)
(* attempts were made, and no execution fails unless something was         *)
(* disturbed since every attempt had last left the client.                 *)
(*                                                                         *)
(* The steps of the client are steps of McpConnection with the attempts    *)
(* for callers, so that what is proved of it (McpConnectionProofs) holds   *)
(* here; the session adds what the broker knows of its attempts.           *)
(***************************************************************************)
EXTENDS ToolSession, FiniteSetTheorems, TLAPS

\* The client's theorems, for these callers.
Client == INSTANCE McpConnectionProofs WITH Callers <- Attempts

Row == [pc : {"executing", "waiting", "succeeded", "failed"},
        attempts : 0 .. MaxRetries + 1, error : ErrorCodes \cup {"none"}]

SessionTypes == calm \in BOOLEAN /\ session \in [Executions -> Row]

\* An execution that goes on has an attempt left, and one that waits has made one.
AttemptsCounted ==
  \A e \in Executions :
    /\ session[e].pc = "executing" => session[e].attempts <= MaxRetries
    /\ session[e].pc = "waiting" => session[e].attempts >= 1

\* The client knows of no attempt that was not made.
OnlyMadeAttempts ==
  \A a \in Attempts : a[2] > session[a[1]].attempts => caller[a] = Mcp!Idle

Spawned == {k \in Mcp!Connections : server[k] # "unused"}
Made == {a \in Attempts : a[2] <= session[a[1]].attempts}

\* In calm no child process is in trouble, nobody closes or resets, and every
\* attempt in the client is awaited and has the connection it asks.
Undisturbed ==
  /\ ~destroyed /\ closer = Mcp!Idle
  /\ \A k \in Mcp!Connections :
       server[k] \in {"unused", "opening", "open", "failed", "closed"}
  /\ \A a \in Attempts :
       /\ caller[a] # Mcp!Idle => Awaited(a)
       /\ caller[a].pc # "resetting"
       /\ caller[a].pc = "requesting" => server[caller[a].conn] = "open"

SessionInv ==
  /\ Client!ConnectionInv
  /\ SessionTypes
  /\ AttemptsCounted
  /\ OnlyMadeAttempts
  /\ SpawnsWithinAttempts
  /\ calm => Undisturbed

-----------------------------------------------------------------------------
(* The client *)

\* What the session needs to know of the client.
LEMMA ClientFacts ==
  ASSUME Client!ConnectionInv
  PROVE  /\ Mcp!TypeOK
         /\ connection # Mcp!none => server[connection] \in {"open", "broken"}
         /\ \A a \in Attempts :
              caller[a].pc = "resetting" => server[caller[a].conn] = "closing"
         /\ closer.pc = "closing" => server[closer.conn] = "closing"
         /\ closer.pc = "awaiting" => server[closer.conn] # "unused"
         /\ closer # Mcp!Idle => destroyed
         /\ \A k \in Mcp!Connections : server[k] = "closing" =>
              \/ closer = Mcp!At("closing", k)
              \/ \E a \in Attempts : caller[a] = Mcp!At("resetting", k)
<1>1. Mcp!TypeOK
  BY DEF Client!ConnectionInv, Client!TypeOK, Mcp!TypeOK, Client!Connections,
         Mcp!Connections, Client!Actor, Mcp!Actor, Client!Serving, Mcp!Serving,
         Client!none, Mcp!none
<1>2. /\ closer # Mcp!Idle => destroyed
      /\ \A k \in Mcp!Connections : server[k] = "closing" =>
           \/ closer = Mcp!At("closing", k)
           \/ \E a \in Attempts : caller[a] = Mcp!At("resetting", k)
  BY DEF Client!ConnectionInv, Client!Destroyed, Client!ClosedOnce, Client!Idle, Mcp!Idle,
         Client!At, Mcp!At, Client!Connections, Mcp!Connections, Client!none, Mcp!none
<1> QED BY <1>1, <1>2 DEF Client!ConnectionInv, Client!OnePlace, Client!Live,
                    Client!Destroyed, Client!ClosedOnce, Client!none, Mcp!none

\* The client's steps, whoever takes them here.
StepOfClient ==
  \/ \E a \in Attempts :
       \/ Mcp!UseConnection(a) \/ Mcp!JoinConnecting(a)
       \/ \E k \in Mcp!Connections : Mcp!OpenConnection(a, k)
       \/ Mcp!Answered(a) \/ Mcp!RequestFails(a) \/ Mcp!ResetDone(a)
  \/ \E k \in Mcp!Connections :
       Mcp!OpenSucceeds(k) \/ Mcp!OpenFails(k) \/ Mcp!ServerBreaks(k)
  \/ Mcp!Close \/ Mcp!ClosePending \/ Mcp!CloseDone
  \/ UNCHANGED clientVars

\* The client begins as McpConnection does.
LEMMA ClientBegins == Init => Client!Init
BY DEF Init, Mcp!Init, Client!Init, Mcp!Connections, Client!Connections, Mcp!Idle,
       Client!Idle, Mcp!none, Client!none

\* Each step of the client here is one of McpConnection's.
LEMMA StepMaps == StepOfClient => [Client!Next]_(Client!vars)
<1> SUFFICES ASSUME StepOfClient PROVE [Client!Next]_(Client!vars)
  OBVIOUS
<1> USE DEF Client!Connections, Mcp!Connections, Client!Idle, Mcp!Idle, Client!At, Mcp!At,
            Client!none, Mcp!none, Client!MayConnect, Mcp!MayConnect,
            Client!Resume, Mcp!Resume, Client!Drained, Mcp!Drained
<1>1. ASSUME NEW a \in Attempts,
             \/ Mcp!UseConnection(a) \/ Mcp!JoinConnecting(a)
             \/ \E k \in Mcp!Connections : Mcp!OpenConnection(a, k)
      PROVE  Client!Next
  BY <1>1 DEF Client!Next, Mcp!UseConnection, Client!UseConnection, Mcp!JoinConnecting,
              Client!JoinConnecting, Mcp!OpenConnection, Client!OpenConnection
<1>2. ASSUME NEW a \in Attempts,
             Mcp!Answered(a) \/ Mcp!RequestFails(a) \/ Mcp!ResetDone(a)
      PROVE  Client!Next
  BY <1>2 DEF Client!Next, Client!RequestEnds, Mcp!Answered, Client!Answered,
              Mcp!RequestFails, Client!RequestFails, Mcp!ResetDone, Client!ResetDone
<1>3. ASSUME NEW k \in Mcp!Connections,
             Mcp!OpenSucceeds(k) \/ Mcp!OpenFails(k) \/ Mcp!ServerBreaks(k)
      PROVE  Client!Next
  BY <1>3 DEF Client!Next, Client!Settles, Mcp!OpenSucceeds, Client!OpenSucceeds,
              Mcp!OpenFails, Client!OpenFails, Mcp!ServerBreaks, Client!ServerBreaks
<1>4. Mcp!Close \/ Mcp!ClosePending \/ Mcp!CloseDone => Client!Next
  BY DEF Client!Next, Mcp!Close, Client!Close, Mcp!ClosePending, Client!ClosePending,
         Mcp!CloseDone, Client!CloseDone
<1> QED BY <1>1, <1>2, <1>3, <1>4 DEF StepOfClient, clientVars, Client!vars

\* So the client's invariant holds here.
LEMMA ClientPreserved == Client!ConnectionInv /\ StepOfClient => Client!ConnectionInv'
<1>1. Client!ConnectionInv /\ [Client!Next]_(Client!vars) => Client!ConnectionInv'
  BY SessionAssumption, Client!ConnectionStep
<1> QED BY <1>1, StepMaps

\* The steps of the client but those that begin an attempt.
Onward ==
  \/ \E a \in Attempts : Mcp!Answered(a) \/ Mcp!RequestFails(a) \/ Mcp!ResetDone(a)
  \/ \E k \in Mcp!Connections :
       Mcp!OpenSucceeds(k) \/ Mcp!OpenFails(k) \/ Mcp!ServerBreaks(k)
  \/ Mcp!Close \/ Mcp!ClosePending \/ Mcp!CloseDone
  \/ UNCHANGED clientVars

\* They spawn no child process and bring no attempt back.
LEMMA OnwardIsQuiet ==
  ASSUME Client!ConnectionInv, Onward
  PROVE  /\ Spawned' = Spawned
         /\ \A a \in Attempts : caller[a] = Mcp!Idle => caller'[a] = Mcp!Idle
<1> USE DEF Mcp!Connections, Mcp!none, Spawned
<1>1. Mcp!TypeOK
  BY ClientFacts
<1> USE DEF Mcp!TypeOK, Mcp!Actor, Mcp!Serving
<1>2. ASSUME NEW b \in Attempts,
             Mcp!Answered(b) \/ Mcp!RequestFails(b) \/ Mcp!ResetDone(b)
      PROVE  /\ Spawned' = Spawned
             /\ \A a \in Attempts : caller[a] = Mcp!Idle => caller'[a] = Mcp!Idle
  <2>1. caller[b] # Mcp!Idle /\ \A a \in Attempts \ {b} : caller'[a] = caller[a]
    BY <1>1, <1>2 DEF Mcp!Answered, Mcp!RequestFails, Mcp!ResetDone, Mcp!Idle
  <2>2. \A k \in Mcp!Connections : server'[k] = "unused" <=> server[k] = "unused"
    BY <1>1, <1>2, ClientFacts DEF Mcp!Answered, Mcp!RequestFails, Mcp!ResetDone
  <2> QED BY <2>1, <2>2
<1>3. ASSUME NEW k \in Mcp!Connections,
             Mcp!OpenSucceeds(k) \/ Mcp!OpenFails(k) \/ Mcp!ServerBreaks(k)
      PROVE  /\ Spawned' = Spawned
             /\ \A a \in Attempts : caller[a] = Mcp!Idle => caller'[a] = Mcp!Idle
  <2>1. \A j \in Mcp!Connections : server'[j] = "unused" <=> server[j] = "unused"
    BY <1>1, <1>3 DEF Mcp!OpenSucceeds, Mcp!OpenFails, Mcp!ServerBreaks
  <2>2. \A a \in Attempts : caller[a] = Mcp!Idle => caller'[a] = Mcp!Idle
    <3>1. ASSUME NEW opener, NEW waiter, NEW a \in Attempts, caller[a] = Mcp!Idle
          PROVE  Mcp!Resume(k, opener, waiter)[a] = Mcp!Idle
      BY <3>1 DEF Mcp!Resume, Mcp!Idle, Mcp!At
    <3> QED BY <1>3, <3>1 DEF Mcp!OpenSucceeds, Mcp!OpenFails, Mcp!ServerBreaks
  <2> QED BY <2>1, <2>2
<1>4. ASSUME Mcp!Close \/ Mcp!ClosePending \/ Mcp!CloseDone
      PROVE  Spawned' = Spawned /\ caller' = caller
  <2>1. caller' = caller
    BY <1>4 DEF Mcp!Close, Mcp!ClosePending, Mcp!CloseDone
  <2>2. CASE Mcp!Close
    BY <1>1, <2>1, <2>2, ClientFacts DEF Mcp!Close
  <2>3. CASE Mcp!ClosePending
    BY <1>1, <2>1, <2>3, ClientFacts DEF Mcp!ClosePending
  <2>4. CASE Mcp!CloseDone
    BY <1>1, <2>1, <2>4, ClientFacts DEF Mcp!CloseDone
  <2> QED BY <1>4, <2>2, <2>3, <2>4
<1> QED BY <1>2, <1>3, <1>4 DEF Onward, clientVars

-----------------------------------------------------------------------------
(* The session *)

\* There are finitely many attempts,
LEMMA AttemptsFinite == IsFiniteSet(Attempts)
<1>1. IsFiniteSet(1 .. MaxRetries + 1)
  BY SessionAssumption, 1 \in Int, MaxRetries + 1 \in Int, FS_Interval
<1> QED BY <1>1, SessionAssumption, FS_Product DEF Attempts

\* The set of child processes, by the name the proofs give it.
LEMMA SpawnedFinite ==
  /\ IsFiniteSet(Spawned) /\ Cardinality(Spawned) \in Nat
  /\ IsFiniteSet(Spawned') /\ Cardinality(Spawned') \in Nat
<1>1. IsFiniteSet(Mcp!Connections)
  BY SessionAssumption, 1 \in Int, MaxConnections \in Int, FS_Interval DEF Mcp!Connections
<1>2. Spawned \in SUBSET Mcp!Connections /\ Spawned' \in SUBSET Mcp!Connections
  BY DEF Spawned, Mcp!Connections
<1> QED BY <1>1, <1>2, FS_Subset, FS_CardinalityType

\* and finitely many were made.
LEMMA MadeFinite ==
  /\ IsFiniteSet(Made) /\ Cardinality(Made) \in Nat
  /\ IsFiniteSet(Made') /\ Cardinality(Made') \in Nat
<1>1. Made \in SUBSET Attempts /\ Made' \in SUBSET Attempts
  BY DEF Made
<1> QED BY <1>1, AttemptsFinite, FS_Subset, FS_CardinalityType

\* The property in the words of this module.
LEMMA SpawnsCounted ==
  /\ SpawnsWithinAttempts <=> Cardinality(Spawned) <= Cardinality(Made)
  /\ SpawnsWithinAttempts' <=> Cardinality(Spawned') <= Cardinality(Made')
<1> QED BY DEF SpawnsWithinAttempts, Spawned, Made

\* Where an execution goes on after a failed attempt.
LEMMA FailureTyped ==
  ASSUME NEW n \in 1 .. MaxRetries + 1, NEW error \in ErrorCodes
  PROVE  /\ AfterFailure(n, error) \in Row
         /\ AfterFailure(n, error).attempts = n
         /\ AfterFailure(n, error).pc # "waiting"
         /\ AfterFailure(n, error).pc = "executing" => n <= MaxRetries
<1> QED BY SessionAssumption DEF AfterFailure, CanRetry, Row

\* At first nothing was attempted.
LEMMA SessionInit == Init => SessionInv
<1> SUFFICES ASSUME Init PROVE SessionInv
  OBVIOUS
<1>1. Client!ConnectionInv
  BY ClientBegins, SessionAssumption, Client!ConnectionInit
<1>2. SessionTypes /\ AttemptsCounted
  BY SessionAssumption DEF Init, SessionTypes, AttemptsCounted, Row
<1>3. OnlyMadeAttempts /\ (calm => Undisturbed)
  BY SessionAssumption
  DEF Init, Mcp!Init, OnlyMadeAttempts, Undisturbed, Mcp!Idle
<1>4. SpawnsWithinAttempts
  <2>1. Spawned = {}
    BY DEF Init, Mcp!Init, Spawned
  <2> QED BY <2>1, FS_EmptySet, MadeFinite, SpawnsCounted
<1> QED BY <1>1, <1>2, <1>3, <1>4 DEF SessionInv

\* Nobody is left in a client at rest to close what others use.
LEMMA RestIsUndisturbed ==
  ASSUME Client!ConnectionInv, Rested
  PROVE  Undisturbed
<1>1. Mcp!TypeOK /\ ~destroyed /\ closer = Mcp!Idle
  BY ClientFacts DEF Rested
<1>2. \A a \in Attempts :
        caller[a] = Mcp!Idle /\ caller[a].pc # "resetting" /\ caller[a].pc # "requesting"
  BY DEF Rested, Mcp!Idle
<1>3. \A k \in Mcp!Connections : server[k] # "closing" /\ server[k] # "broken"
  <2>1. \A k : Mcp!At("closing", k) # Mcp!Idle /\ Mcp!At("resetting", k) # Mcp!Idle
    BY DEF Mcp!At, Mcp!Idle
  <2> QED BY <1>1, <1>2, <2>1, ClientFacts DEF Rested
<1> QED BY <1>1, <1>2, <1>3 DEF Undisturbed, Mcp!TypeOK, Mcp!Serving

\* Calm lasts, and begins, where nothing is disturbed.
LEMMA CalmIsUndisturbed ==
  ASSUME SessionInv, Calmed
  PROVE  calm' \in BOOLEAN /\ (calm' => Undisturbed)
<1>1. Rested => Undisturbed
  BY RestIsUndisturbed DEF SessionInv
<1> QED BY <1>1 DEF Calmed, SessionInv, SessionTypes

\* A step that begins no attempt in the client keeps what ties it to the session.
LEMMA QuietStep ==
  ASSUME SessionInv, Onward, SessionTypes', AttemptsCounted', calm' => Undisturbed',
         \A e \in Executions : session'[e].attempts >= session[e].attempts
  PROVE  SessionInv'
<1>1. Client!ConnectionInv'
  BY ClientPreserved DEF SessionInv, Onward, StepOfClient
<1>2. Spawned' = Spawned
      /\ \A a \in Attempts : caller[a] = Mcp!Idle => caller'[a] = Mcp!Idle
  BY OnwardIsQuiet DEF SessionInv
<1>3. \A a \in Attempts : /\ a[1] \in Executions /\ a[2] \in Nat
                         /\ session[a[1]].attempts \in Nat
                         /\ session'[a[1]].attempts \in Nat
  BY SessionAssumption DEF Attempts, SessionInv, SessionTypes, Row
<1>4. OnlyMadeAttempts'
  BY <1>2, <1>3 DEF SessionInv, OnlyMadeAttempts, Mcp!Idle, Attempts
<1>5. SpawnsWithinAttempts'
  <2>1. Made \in SUBSET Made'
    BY <1>3 DEF Made, Attempts
  <2>2. Cardinality(Made) <= Cardinality(Made')
    BY <2>1, MadeFinite, FS_Subset
  <2> QED BY <1>2, <2>2, SpawnedFinite, MadeFinite, SpawnsCounted DEF SessionInv
<1> QED BY <1>1, <1>4, <1>5 DEF SessionInv

\* What the end of an attempt in the client makes of its execution.
LEMMA FailingKeeps ==
  ASSUME SessionInv, NEW error \in ErrorCodes, Failing(error)
  PROVE  /\ session' \in [Executions -> Row] /\ AttemptsCounted'
         /\ \A e \in Executions : session'[e].attempts = session[e].attempts
<1>1. ASSUME NEW e \in Executions
      PROVE  /\ session'[e] \in Row
             /\ session'[e].pc = "executing" => session'[e].attempts <= MaxRetries
             /\ session'[e].pc = "waiting" => session'[e].attempts >= 1
             /\ session'[e].attempts = session[e].attempts
  <2>1. CASE GivenUp(e)
    <3>1. session[e].pc = "waiting"
      BY <2>1 DEF GivenUp, Awaited, Now
    <3>2. session[e].attempts \in 1 .. MaxRetries + 1
      BY <3>1, SessionAssumption DEF SessionInv, SessionTypes, AttemptsCounted, Row
    <3>3. session'[e] = AfterFailure(session[e].attempts, error)
      BY <2>1 DEF Failing
    <3> QED BY <3>2, <3>3, FailureTyped
  <2>2. CASE ~GivenUp(e)
    BY <2>2 DEF Failing, SessionInv, SessionTypes, AttemptsCounted
  <2> QED BY <2>1, <2>2
<1>2. session' = [e \in Executions |-> session'[e]]
  BY DEF Failing
<1> QED BY <1>1, <1>2 DEF AttemptsCounted

LEMMA RequestFailsStep ==
  ASSUME SessionInv, NEW a \in Attempts, RequestFails(a)
  PROVE  SessionInv'
<1>1. Onward
  BY DEF RequestFails, Onward
<1>2. ~Undisturbed
  BY DEF Undisturbed, RequestFails, Mcp!Idle
<1>3. calm' \in BOOLEAN /\ ~calm'
  BY <1>2, CalmIsUndisturbed DEF RequestFails
<1> QED BY <1>1, <1>3, FailingKeeps, QuietStep
        DEF RequestFails, SessionTypes, SessionInv, ErrorCodes, Retryable, Row

LEMMA ResetDoneStep ==
  ASSUME SessionInv, NEW a \in Attempts, ResetDone(a)
  PROVE  SessionInv'
<1>1. Onward
  BY DEF ResetDone, Onward
<1>2. ~Undisturbed
  BY DEF ResetDone, Mcp!ResetDone, Undisturbed
<1>3. calm' \in BOOLEAN /\ ~calm'
  BY <1>2, CalmIsUndisturbed DEF ResetDone
<1> QED BY <1>1, <1>3, FailingKeeps, QuietStep
        DEF ResetDone, SessionTypes, SessionInv, ErrorCodes, Retryable, Row

\* In calm an opening that settles brings all who share it to their request.
LEMMA OpeningHarmsNobody ==
  ASSUME SessionInv, NEW k \in Mcp!Connections, OpeningSettles(k), calm'
  PROVE  /\ Mcp!OpenSucceeds(k) /\ Undisturbed /\ session' = session
         /\ \A a \in Attempts :
              /\ caller'[a] = caller[a] \/ caller'[a] = Mcp!At("requesting", k)
              /\ caller'[a] = Mcp!Idle <=> caller[a] = Mcp!Idle
<1>1. Mcp!OpenSucceeds(k) /\ Undisturbed
  BY CalmIsUndisturbed DEF OpeningSettles, Disturbed
<1>2. caller' = Mcp!Resume(k, Mcp!At("requesting", k), Mcp!At("requesting", k))
  BY <1>1 DEF Mcp!OpenSucceeds, Undisturbed
<1>3. ASSUME NEW a \in Attempts
      PROVE  /\ caller'[a] = caller[a] \/ caller'[a] = Mcp!At("requesting", k)
             /\ caller'[a] = Mcp!Idle <=> caller[a] = Mcp!Idle
  BY <1>2 DEF Mcp!Resume, Mcp!At, Mcp!Idle
<1>4. session' = session
  <2>1. \A e \in Executions : ~GivenUp(e)
    BY <1>3 DEF GivenUp, Awaited, Now, Attempts, SessionInv, SessionTypes, AttemptsCounted, Row
  <2> QED BY <2>1 DEF OpeningSettles, Failing, SessionInv, SessionTypes
<1> QED BY <1>1, <1>3, <1>4

LEMMA OpeningSettlesStep ==
  ASSUME SessionInv, NEW k \in Mcp!Connections, OpeningSettles(k)
  PROVE  SessionInv'
<1>1. Onward
  BY DEF OpeningSettles, Onward
<1>2. ASSUME calm' PROVE Undisturbed'
  <2>1. /\ Mcp!OpenSucceeds(k) /\ Undisturbed /\ session' = session /\ Mcp!TypeOK
    BY <1>2, OpeningHarmsNobody, ClientFacts DEF SessionInv
  <2>2. /\ ~destroyed' /\ closer' = Mcp!Idle
        /\ \A j \in Mcp!Connections : server'[j] = IF j = k THEN "open" ELSE server[j]
    BY <2>1 DEF Mcp!OpenSucceeds, Undisturbed, Mcp!TypeOK
  <2>3. \A j \in Mcp!Connections :
          server'[j] \in {"unused", "opening", "open", "failed", "closed"}
    BY <2>1, <2>2 DEF Undisturbed
  <2>4. ASSUME NEW a \in Attempts
        PROVE  /\ caller'[a] # Mcp!Idle => Awaited(a)'
               /\ caller'[a].pc # "resetting"
               /\ caller'[a].pc = "requesting" => server'[caller'[a].conn] = "open"
    <3>1. /\ caller'[a] = caller[a] \/ caller'[a] = Mcp!At("requesting", k)
          /\ caller'[a] = Mcp!Idle <=> caller[a] = Mcp!Idle
      BY <1>2, OpeningHarmsNobody
    <3>2. CASE caller'[a] = caller[a]
      <4>1. caller[a].pc = "requesting" => caller[a].conn \in Mcp!Connections
        BY <2>1 DEF Mcp!TypeOK, Mcp!Actor
      <4> QED BY <2>1, <2>2, <3>2, <4>1 DEF Undisturbed, Awaited, Now
    <3>3. CASE caller'[a] = Mcp!At("requesting", k)
      BY <2>1, <2>2, <3>1, <3>3 DEF Undisturbed, Awaited, Now, Mcp!At, Mcp!Idle
    <3> QED BY <3>1, <3>2, <3>3
  <2> QED BY <2>2, <2>3, <2>4 DEF Undisturbed, Mcp!Idle, Mcp!Connections
<1>3. Failing("MCP_CONNECTION_ERROR") /\ "MCP_CONNECTION_ERROR" \in ErrorCodes
  BY DEF OpeningSettles, ErrorCodes, Retryable
<1>4. calm' \in BOOLEAN
  BY CalmIsUndisturbed DEF OpeningSettles, Disturbed
<1>5. /\ SessionTypes' /\ AttemptsCounted'
      /\ \A e \in Executions : session'[e].attempts >= session[e].attempts
  BY <1>3, <1>4, FailingKeeps, SessionAssumption DEF SessionTypes, SessionInv, Row
<1> QED BY <1>1, <1>2, <1>5, QuietStep

\* The row of one execution changes, and counts no fewer attempts.
LEMMA OneRowChanges ==
  ASSUME SessionInv, NEW e \in Executions, NEW row \in Row,
         session' = [session EXCEPT ![e] = row], calm' \in BOOLEAN,
         row.attempts >= session[e].attempts,
         row.pc = "executing" => row.attempts <= MaxRetries,
         row.pc = "waiting" => row.attempts >= 1
  PROVE  /\ SessionTypes' /\ AttemptsCounted'
         /\ \A d \in Executions : session'[d].attempts >= session[d].attempts
<1> QED BY SessionAssumption DEF SessionInv, SessionTypes, AttemptsCounted, Row

LEMMA AttemptTimesOutStep ==
  ASSUME SessionInv, NEW e \in Executions, AttemptTimesOut(e)
  PROVE  SessionInv'
<1> DEFINE row == AfterFailure(session[e].attempts, "TOOL_TIMEOUT")
<1>1. session[e].pc = "waiting" /\ Onward /\ calm' = FALSE
  BY DEF AttemptTimesOut, Disturbed, Awaited, Now, Onward
<1>2. session[e].attempts \in 1 .. MaxRetries + 1 /\ "TOOL_TIMEOUT" \in ErrorCodes
  BY <1>1, SessionAssumption
  DEF SessionInv, SessionTypes, AttemptsCounted, Row, ErrorCodes, Retryable
<1>3. /\ row \in Row /\ row.attempts = session[e].attempts /\ row.pc # "waiting"
      /\ row.pc = "executing" => row.attempts <= MaxRetries
  BY <1>2, FailureTyped
<1>4. session' = [session EXCEPT ![e] = row]
  BY DEF AttemptTimesOut
<1> HIDE DEF row
<1>5. row.attempts >= session[e].attempts
  BY <1>2, <1>3
<1> QED BY <1>1, <1>3, <1>4, <1>5, OneRowChanges, QuietStep

LEMMA StartRefusedStep ==
  ASSUME SessionInv, NEW e \in Executions, StartRefused(e)
  PROVE  SessionInv'
<1> DEFINE n == session[e].attempts + 1
           row == AfterFailure(n, "MCP_CONNECTION_ERROR")
<1>1. session[e].pc = "executing" /\ Onward /\ Calmed /\ destroyed
  BY DEF StartRefused, Onward
<1>2. /\ session[e].attempts \in Nat /\ n \in 1 .. MaxRetries + 1
      /\ "MCP_CONNECTION_ERROR" \in ErrorCodes
  BY <1>1, SessionAssumption
  DEF SessionInv, SessionTypes, AttemptsCounted, Row, ErrorCodes, Retryable
<1>3. /\ row \in Row /\ row.attempts = n /\ row.pc # "waiting"
      /\ row.pc = "executing" => row.attempts <= MaxRetries
  BY <1>2, FailureTyped
<1>4. session' = [session EXCEPT ![e] = row]
  BY DEF StartRefused
<1>5. ~calm' /\ calm' \in BOOLEAN
  BY <1>1, CalmIsUndisturbed DEF Undisturbed
<1> HIDE DEF row
<1>6. row.attempts >= session[e].attempts
  BY <1>2, <1>3
<1> QED BY <1>1, <1>3, <1>4, <1>5, <1>6, OneRowChanges, QuietStep

\* An answer is a success or an error of the tool, and none of these is retried.
LEMMA AttemptAnsweredStep ==
  ASSUME SessionInv, NEW e \in Executions, AttemptAnswered(e)
  PROVE  SessionInv'
<1>1. PICK error \in {"none", "MCP_TOOL_ERROR"} : Conclude(e, error)
  BY DEF AttemptAnswered, ErrorOf, successResult, errorResult
<1> DEFINE row == [pc |-> IF error = "none" THEN "succeeded" ELSE "failed",
                   attempts |-> session[e].attempts, error |-> error]
<1>2. /\ Awaited(Now(e)) /\ Mcp!Answered(Now(e)) /\ Calmed
      /\ session[e].pc = "waiting"
  BY DEF AttemptAnswered, Awaited, Now
<1>3. session[e] \in Row /\ calm' \in BOOLEAN /\ session[e].attempts \in 1 .. MaxRetries + 1
  BY <1>2, CalmIsUndisturbed, SessionAssumption DEF SessionInv, SessionTypes, AttemptsCounted, Row
<1>4. session' = [session EXCEPT ![e] = row]
  BY <1>1 DEF Conclude
<1>5. /\ row \in Row /\ row.attempts >= session[e].attempts
      /\ row.pc \in {"succeeded", "failed"}
  BY <1>3, SessionAssumption DEF Row, ErrorCodes
<1>6. Now(e) \in Attempts /\ Onward
  BY <1>2, <1>3 DEF Now, Attempts, Onward
<1>7. ASSUME calm' PROVE Undisturbed'
  <2>1. Undisturbed /\ Mcp!TypeOK
    BY <1>2, <1>7, CalmIsUndisturbed, ClientFacts DEF SessionInv
  <2>2. /\ caller' = [caller EXCEPT ![Now(e)] = Mcp!Idle]
        /\ UNCHANGED <<server, destroyed, closer>>
    BY <1>2 DEF Mcp!Answered
  <2>3. ASSUME NEW a \in Attempts
        PROVE  /\ caller'[a] # Mcp!Idle => Awaited(a)'
               /\ caller'[a].pc # "resetting"
               /\ caller'[a].pc = "requesting" => server'[caller'[a].conn] = "open"
    <3>1. CASE a = Now(e)
      BY <2>1, <2>2, <3>1 DEF Mcp!TypeOK, Mcp!Idle
    <3>2. CASE a # Now(e)
      <4>1. caller'[a] = caller[a]
        BY <2>1, <2>2, <3>2 DEF Mcp!TypeOK
      <4>2. Awaited(a) => a[1] # e
        BY <3>2 DEF Awaited
      <4>3. a[1] # e => (Awaited(a)' <=> Awaited(a))
        BY <1>4 DEF Awaited, Now, SessionInv, SessionTypes, Attempts
      <4> QED BY <2>1, <2>2, <4>1, <4>2, <4>3 DEF Undisturbed
    <3> QED BY <3>1, <3>2
  <2> QED BY <2>1, <2>2, <2>3 DEF Undisturbed, Mcp!Idle, Mcp!Connections
<1> HIDE DEF row
<1>8. SessionTypes' /\ AttemptsCounted'
      /\ \A d \in Executions : session'[d].attempts >= session[d].attempts
  BY <1>2, <1>3, <1>4, <1>5, OneRowChanges
<1> QED BY <1>6, <1>7, <1>8, QuietStep

LEMMA EnvironmentStep ==
  ASSUME SessionInv, Disturbance \/ ClosingStep
  PROVE  SessionInv'
<1>1. Onward /\ session' = session
  BY DEF Disturbance, ClosingStep, Onward
<1>2. ~calm' /\ calm' \in BOOLEAN
  <2>1. ClosingStep => Calmed /\ ~Undisturbed
    BY DEF ClosingStep, Undisturbed, Mcp!ClosePending, Mcp!CloseDone, Mcp!Idle
  <2> QED BY <2>1, CalmIsUndisturbed DEF Disturbance, Disturbed
<1>3. SessionTypes' /\ AttemptsCounted'
  BY <1>1, <1>2 DEF SessionInv, SessionTypes, AttemptsCounted
<1> QED BY <1>1, <1>2, <1>3, QuietStep, SessionAssumption DEF SessionInv, SessionTypes, Row

\* The one step that spawns a child process is one that makes an attempt.
LEMMA StartAttemptStep ==
  ASSUME SessionInv, NEW e \in Executions, StartAttempt(e)
  PROVE  SessionInv'
<1>0. PICK n : n = session[e].attempts + 1
  OBVIOUS
<1> DEFINE row == [pc |-> "waiting", attempts |-> n, error |-> session[e].error]
<1>1. session[e].pc = "executing" /\ Calmed
      /\ session' = [session EXCEPT ![e] = row]
  BY <1>0 DEF StartAttempt
<1>2. /\ session[e] \in Row /\ session[e].attempts \in Nat /\ n \in 1 .. MaxRetries + 1
      /\ calm' \in BOOLEAN
  BY <1>0, <1>1, CalmIsUndisturbed, SessionAssumption DEF SessionInv, SessionTypes, AttemptsCounted, Row
<1>3. SessionTypes' /\ AttemptsCounted'
      /\ \A d \in Executions : session'[d].attempts >= session[d].attempts
  <2>1. row \in Row /\ row.attempts >= session[e].attempts /\ row.attempts >= 1
    BY <1>0, <1>2 DEF Row
  <2>2. row.pc = "waiting"
    OBVIOUS
  <2> HIDE DEF row
  <2> QED BY <1>1, <1>2, <2>1, <2>2, OneRowChanges
<1>4. /\ session'[e] = row /\ \A d \in Executions \ {e} : session'[d] = session[d]
  BY <1>1 DEF SessionInv, SessionTypes
<1>5. PICK a \in Attempts : a = <<e, n>> /\ a[1] = e /\ a[2] = n
  <2>1. <<e, n>> \in Attempts
    BY <1>2 DEF Attempts
  <2> QED BY <2>1
<1>6. \/ Mcp!UseConnection(a)
      \/ Mcp!JoinConnecting(a)
      \/ \E k \in Mcp!Connections : Mcp!OpenConnection(a, k)
  BY <1>0, <1>5 DEF StartAttempt
<1>7. /\ caller[a] = Mcp!Idle /\ ~destroyed /\ Mcp!TypeOK
      /\ UNCHANGED <<destroyed, closer>>
      /\ caller'[a] # Mcp!Idle /\ caller'[a].pc # "resetting"
      /\ ~Mcp!UseConnection(a) => caller'[a].pc # "requesting"
      /\ \A b \in Attempts \ {a} : caller'[b] = caller[b]
  <2>1. Mcp!TypeOK
    BY ClientFacts DEF SessionInv
  <2>2. /\ caller[a] = Mcp!Idle /\ ~destroyed
        /\ UNCHANGED <<destroyed, closer>>
    BY <1>6 DEF Mcp!UseConnection, Mcp!JoinConnecting, Mcp!OpenConnection, Mcp!MayConnect
  <2>3. PICK pc \in {"requesting", "waiting", "opening"} :
          /\ \E k : caller' = [caller EXCEPT ![a] = Mcp!At(pc, k)]
          /\ pc = "requesting" => Mcp!UseConnection(a)
    BY <1>6 DEF Mcp!UseConnection, Mcp!JoinConnecting, Mcp!OpenConnection
  <2>4. PICK k : caller' = [caller EXCEPT ![a] = Mcp!At(pc, k)]
    BY <2>3
  <2>5. /\ caller'[a] = Mcp!At(pc, k)
        /\ \A b \in Attempts \ {a} : caller'[b] = caller[b]
    BY <1>5, <2>1, <2>4 DEF Mcp!TypeOK
  <2> QED BY <2>1, <2>2, <2>3, <2>5 DEF Mcp!At, Mcp!Idle
<1>8. Client!ConnectionInv'
  BY <1>5, <1>6, ClientPreserved DEF SessionInv, StepOfClient
<1>9. /\ Made' = Made \cup {a} /\ a \notin Made
      /\ \A b \in Attempts : b[2] > session'[b[1]].attempts => caller'[b] = Mcp!Idle
  <2>1. ASSUME NEW b \in Attempts
        PROVE  /\ b[2] <= session'[b[1]].attempts <=> b = a \/ b[2] <= session[b[1]].attempts
               /\ b[2] > session'[b[1]].attempts => b # a /\ b[2] > session[b[1]].attempts
    <3>1. b = <<b[1], b[2]>> /\ b[1] \in Executions /\ b[2] \in Nat
      BY SessionAssumption DEF Attempts
    <3>2. CASE b[1] = e
      <4>1. session'[b[1]].attempts = n
        BY <1>4, <3>2
      <4> QED BY <1>0, <1>2, <1>5, <3>1, <3>2, <4>1
    <3>3. CASE b[1] # e
      BY <1>4, <1>5, <3>1, <3>3
    <3> QED BY <3>2, <3>3
  <2>2. ~(a[2] <= session[a[1]].attempts)
    BY <1>0, <1>2, <1>5
  <2>3. \A b \in Attempts : b[2] > session'[b[1]].attempts => caller'[b] = Mcp!Idle
    BY <1>7, <2>1 DEF SessionInv, OnlyMadeAttempts
  <2> QED BY <1>5, <2>1, <2>2, <2>3 DEF Made
<1>10. SpawnsWithinAttempts'
  <2>1. Cardinality(Made') = Cardinality(Made) + 1
    BY <1>9, MadeFinite, FS_AddElement
  <2>2. Cardinality(Spawned') <= Cardinality(Spawned) + 1
    <3>1. CASE Mcp!UseConnection(a) \/ Mcp!JoinConnecting(a)
      <4>1. Spawned' = Spawned
        BY <3>1 DEF Mcp!UseConnection, Mcp!JoinConnecting, Spawned, Mcp!Connections
      <4> QED BY <4>1, SpawnedFinite
    <3>2. ASSUME NEW k \in Mcp!Connections, Mcp!OpenConnection(a, k)
          PROVE  Cardinality(Spawned') <= Cardinality(Spawned) + 1
      <4>1. Spawned' = Spawned \cup {k}
        BY <1>7, <3>2 DEF Mcp!OpenConnection, Spawned, Mcp!Connections, Mcp!TypeOK
      <4> QED BY <4>1, SpawnedFinite, FS_AddElement
    <3> QED BY <1>6, <3>1, <3>2
  <2>3. Cardinality(Spawned') \in Nat
    BY SpawnedFinite
  <2> QED BY <2>1, <2>2, <2>3, SpawnedFinite, MadeFinite, SpawnsCounted DEF SessionInv
<1>11. ASSUME calm' PROVE Undisturbed'
  <2>1. Undisturbed
    BY <1>1, <1>11, CalmIsUndisturbed
  <2>2. ~destroyed' /\ closer' = Mcp!Idle
    BY <1>7, <2>1 DEF Undisturbed
  <2>3. \A k \in Mcp!Connections :
          /\ server'[k] \in {"unused", "opening", "open", "failed", "closed"}
          /\ server[k] = "open" => server'[k] = "open"
    BY <1>6, <1>7, <2>1
    DEF Undisturbed, Mcp!UseConnection, Mcp!JoinConnecting, Mcp!OpenConnection, Mcp!TypeOK
  <2>4. /\ caller'[a].pc # "resetting"
        /\ caller'[a].pc = "requesting" => server'[caller'[a].conn] = "open"
    <3>1. CASE Mcp!UseConnection(a)
      <4>1. /\ caller'[a] = Mcp!At("requesting", connection)
            /\ connection \in Mcp!Connections /\ server[connection] = "open"
        BY <1>5, <1>7, <2>1, <3>1, ClientFacts
        DEF SessionInv, Undisturbed, Mcp!UseConnection, Mcp!TypeOK, Mcp!none
      <4> QED BY <1>7, <2>3, <4>1 DEF Mcp!At
    <3>2. CASE ~Mcp!UseConnection(a)
      BY <1>7, <3>2
    <3> QED BY <3>1, <3>2
  <2>5. Awaited(a)'
    BY <1>4, <1>5 DEF Awaited, Now
  <2>6. ASSUME NEW b \in Attempts \ {a}
        PROVE  /\ caller'[b] # Mcp!Idle => Awaited(b)'
               /\ caller'[b].pc # "resetting"
               /\ caller'[b].pc = "requesting" => server'[caller'[b].conn] = "open"
    <3>1. caller'[b] = caller[b]
      BY <1>7
    <3>2. caller[b] # Mcp!Idle => Awaited(b) /\ b[1] # e
      BY <1>1, <2>1 DEF Undisturbed, Awaited
    <3>3. b[1] # e => (Awaited(b) => Awaited(b)')
      BY <1>4 DEF Awaited, Now, Attempts
    <3>4. caller[b].pc = "requesting" => caller[b].conn \in Mcp!Connections
      BY <1>7 DEF Mcp!TypeOK, Mcp!Actor
    <3> QED BY <2>1, <2>3, <3>1, <3>2, <3>3, <3>4 DEF Undisturbed
  <2> QED BY <1>7, <2>2, <2>3, <2>4, <2>5, <2>6 DEF Undisturbed, Mcp!Idle, Mcp!Connections
<1> QED BY <1>3, <1>8, <1>9, <1>10, <1>11 DEF SessionInv, OnlyMadeAttempts

\* Every step keeps the invariant.
LEMMA SessionStep == SessionInv /\ [Next]_vars => SessionInv'
<1> SUFFICES ASSUME SessionInv, [Next]_vars PROVE SessionInv'
  OBVIOUS
<1>1. CASE UNCHANGED vars
  <2>1. Onward /\ session' = session /\ calm' = calm
    BY <1>1 DEF vars, Onward
  <2>2. SessionTypes' /\ AttemptsCounted' /\ (calm' => Undisturbed')
    BY <1>1 DEF vars, clientVars, SessionInv, SessionTypes, AttemptsCounted, Undisturbed,
                Awaited, Now, Mcp!Idle, Mcp!Connections
  <2> QED BY <2>1, <2>2, QuietStep, SessionAssumption DEF SessionInv, SessionTypes, Row
<1> QED BY <1>1, StartAttemptStep, StartRefusedStep, AttemptTimesOutStep,
           AttemptAnsweredStep, RequestFailsStep, ResetDoneStep, OpeningSettlesStep,
           EnvironmentStep
        DEF Next, BrokerStep, ClientStep

-----------------------------------------------------------------------------

\* The client of every reachable state is sound, its attempts are counted, and
\* in calm each of them is well.
THEOREM SessionInvariant == Spec => []SessionInv
<1> QED BY SessionInit, SessionStep, PTL DEF Spec

\* The variables of the composition keep their types.
THEOREM SessionTyped == Spec => []TypeOK
<1>1. SessionInv => TypeOK
  BY ClientFacts DEF SessionInv, SessionTypes, OnlyMadeAttempts, TypeOK, Row
<1> QED BY <1>1, SessionInvariant, PTL

\* In calm no step of the client or the broker fails an attempt that is waited for.
LEMMA CalmStepFailsNobody ==
  ASSUME SessionInv, Next, calm', NEW d \in Executions
  PROVE  ~Fails(d)
<1>1. ASSUME NEW e \in Executions, StartAttempt(e)
      PROVE  ~Fails(d)
  BY <1>1 DEF StartAttempt, Fails, Awaited, Now, SessionInv, SessionTypes
<1>2. ASSUME NEW e \in Executions, StartRefused(e)
      PROVE  FALSE
  BY <1>2, CalmIsUndisturbed DEF StartRefused, Undisturbed
<1>3. ASSUME NEW e \in Executions, AttemptAnswered(e)
      PROVE  ~Fails(d)
  <2>1. PICK error \in {"none", "MCP_TOOL_ERROR"} : Conclude(e, error)
    BY <1>3 DEF AttemptAnswered, ErrorOf, successResult, errorResult
  <2>2. session'[d] = session[d] \/ session'[d].error \notin Retryable
    BY <2>1 DEF Conclude, Retryable, SessionInv, SessionTypes
  <2> QED BY <2>2 DEF Fails
<1>4. ASSUME NEW a \in Attempts, ClientStep(a)
      PROVE  FALSE
  <2>1. Calmed /\ ~Undisturbed
    BY <1>4 DEF ClientStep, RequestFails, ResetDone, Mcp!ResetDone, Undisturbed, Mcp!Idle
  <2> QED BY <2>1, CalmIsUndisturbed
<1>5. ASSUME NEW k \in Mcp!Connections, OpeningSettles(k)
      PROVE  ~Fails(d)
  BY <1>5, OpeningHarmsNobody DEF Fails
<1>6. ClosingStep => ~Fails(d)
  BY DEF ClosingStep, Fails
<1>7. ~Disturbance /\ \A e \in Executions : ~AttemptTimesOut(e)
  BY DEF Disturbance, AttemptTimesOut, Disturbed
<1> QED BY <1>1, <1>2, <1>3, <1>4, <1>5, <1>6, <1>7 DEF Next, BrokerStep

\* What a timeout, a broken server or a failed opening does to those who share
\* the connection (McpClientService, executeWithRetry) is over once every
\* attempt has left the client, however many executions and retries there are.
THEOREM HarmEnds == Spec => HarmPasses
<1>1. SessionInv /\ [Next]_vars => [calm' => \A e \in Executions : ~Fails(e)]_vars
  <2> SUFFICES ASSUME SessionInv, [Next]_vars
               PROVE  [calm' => \A e \in Executions : ~Fails(e)]_vars
    OBVIOUS
  <2> QED BY CalmStepFailsNobody
<1> QED BY <1>1, SessionInvariant, PTL DEF Spec, HarmPasses

\* No child process is spawned but for an attempt the broker counts.
THEOREM NoSpawnBeyondAttempts == Spec => []SpawnsWithinAttempts
<1>1. SessionInv => SpawnsWithinAttempts
  BY DEF SessionInv
<1> QED BY <1>1, SessionInvariant, PTL

-----------------------------------------------------------------------------
(* The client within *)

\* Whatever the broker does with its attempts, the client takes its own steps only.
LEMMA StepIsOfClient == SessionInv /\ [Next]_vars => StepOfClient
<1> SUFFICES ASSUME SessionInv, [Next]_vars PROVE StepOfClient
  OBVIOUS
<1>1. ASSUME NEW e \in Executions, session[e] \in Row
      PROVE  /\ session[e].pc = "executing" => <<e, session[e].attempts + 1>> \in Attempts
             /\ session[e].pc = "waiting" => Now(e) \in Attempts
  BY <1>1, SessionAssumption DEF SessionInv, AttemptsCounted, Row, Now, Attempts
<1>2. \A e \in Executions : session[e] \in Row
  BY DEF SessionInv, SessionTypes
<1>3. ASSUME NEW e \in Executions,
             StartAttempt(e) \/ StartRefused(e) \/ AttemptTimesOut(e) \/ AttemptAnswered(e)
      PROVE  StepOfClient
  BY <1>1, <1>2, <1>3 DEF StartAttempt, StartRefused, AttemptTimesOut, AttemptAnswered,
                          Awaited, Now, StepOfClient
<1>4. ASSUME NEW a \in Attempts, RequestFails(a) \/ ResetDone(a) PROVE StepOfClient
  BY <1>4 DEF RequestFails, ResetDone, StepOfClient
<1>5. ASSUME NEW k \in Mcp!Connections, OpeningSettles(k) PROVE StepOfClient
  BY <1>5 DEF OpeningSettles, StepOfClient
<1>6. Disturbance \/ ClosingStep \/ UNCHANGED vars => StepOfClient
  BY DEF Disturbance, ClosingStep, vars, StepOfClient
<1> QED BY <1>3, <1>4, <1>5, <1>6 DEF Next, BrokerStep, ClientStep

\* The attempts of all executions use the client as McpConnection says it may be
\* used, so that what is proved of it holds for them.
THEOREM AttemptsShareTheClient == Spec => Client!Spec
<1>1. SessionInv /\ [Next]_vars => [Client!Next]_(Client!vars)
  BY StepIsOfClient, StepMaps
<1> QED BY <1>1, ClientBegins, SessionInvariant, PTL DEF Spec, Client!Spec

\* Retried and abandoned attempts included, one child process serves at a time
\* and none is left without anybody to close it (McpClientService).
THEOREM SharedClientIsSound == Spec => [](Client!OneServing /\ Client!NoOrphan)
<1>1. Client!ConnectionInv => Client!OneServing /\ Client!NoOrphan
  BY SessionAssumption, Client!ConnectionInvSafe
<1>2. SessionInv => Client!ConnectionInv
  BY DEF SessionInv
<1> QED BY <1>1, <1>2, SessionInvariant, PTL
=============================================================================
