------------------------ MODULE McpConnectionProofs ------------------------
(***************************************************************************)
(* Proofs that the shared MCP connection has one child process in use at   *)
(* most and orphans none, for any number of callers and connections.       *)
(*                                                                         *)
(* What the service knows of a child is spread over connection,            *)
(* connecting, close() and the callers that reset.  The invariant says     *)
(* that each of them holds what the state of the child says it does; that  *)
(* a child is in use only once then follows from there being one place     *)
(* for it at a time.                                                       *)
(***************************************************************************)
EXTENDS McpConnection, FiniteSetTheorems, TLAPS

Live == {"open", "broken"}

\* The service has one place for a child, and what is there is in use.
OnePlace ==
  /\ connection = none \/ connecting = none
  /\ connection # none => server[connection] \in Live
  /\ connecting # none => server[connecting] = "opening"

\* A child in use is in that place, or was left to close().
Known ==
  \A k \in Connections :
    /\ server[k] = "opening" => connecting = k \/ closer = At("awaiting", k)
    /\ server[k] \in Live => connection = k \/ closer = At("awaiting", k)

\* close() empties the place for good, and awaits a child nobody else closes.
Destroyed ==
  /\ destroyed => connection = none /\ connecting = none
  /\ closer # Idle => destroyed
  /\ closer.pc = "awaiting" => server[closer.conn] \in Live \cup {"opening", "failed"}

\* A child is being closed by one caller or by close(), never by two.
ClosedOnce ==
  /\ \A c \in Callers :
       caller[c].pc = "resetting" => server[caller[c].conn] = "closing"
  /\ closer.pc = "closing" => server[closer.conn] = "closing"
  /\ \A k \in Connections : server[k] = "closing" =>
       \/ closer = At("closing", k)
       \/ \E c \in Callers : caller[c] = At("resetting", k)
  /\ \A c, d \in Callers :
       caller[c].pc = "resetting" /\ caller[d] = caller[c] => c = d
  /\ \A c \in Callers : closer.pc = "closing" /\ caller[c].pc = "resetting" =>
                          caller[c].conn # closer.conn

ConnectionInv == TypeOK /\ OnePlace /\ Known /\ Destroyed /\ ClosedOnce
-----------------------------------------------------------------------------

\* At first nobody knows of a child and none is in use.
LEMMA ConnectionInit == Init => ConnectionInv
<1> SUFFICES ASSUME Init PROVE ConnectionInv
  OBVIOUS
<1> USE DEF Init, Idle, none
<1>1. TypeOK
  BY DEF TypeOK, Actor, Serving
<1>2. OnePlace /\ Known /\ Destroyed
  BY DEF OnePlace, Known, Destroyed, Live
<1>3. ClosedOnce
  BY DEF ClosedOnce
<1> QED
  BY <1>1, <1>2, <1>3 DEF ConnectionInv

\* A step of callers that reset nothing, before or after, disturbs nobody.
LEMMA OnlyCallersMove ==
  ASSUME ConnectionInv, TypeOK',
         UNCHANGED <<connection, connecting, destroyed, server, closer>>,
         \A c \in Callers : caller[c].pc = "resetting" \/ caller'[c].pc = "resetting"
                             => caller'[c] = caller[c]
  PROVE  ConnectionInv'
<1> USE MaxConnectionsAssumption DEF ConnectionInv, Connections, none
<1>1. OnePlace' /\ Known' /\ Destroyed'
  BY DEF OnePlace, Known, Destroyed, Idle, At
<1>2. ClosedOnce'
  <2>1. \A k \in Connections, c \in Callers :
          caller[c] = At("resetting", k) => caller'[c] = At("resetting", k)
    BY DEF At
  <2> QED BY <2>1 DEF ClosedOnce, At
<1> QED BY <1>1, <1>2

\* Every step keeps each child in the one place its state says.
LEMMA ConnectionStep == ConnectionInv /\ [Next]_vars => ConnectionInv'
<1> SUFFICES ASSUME ConnectionInv, [Next]_vars PROVE ConnectionInv'
  OBVIOUS
<1> USE MaxConnectionsAssumption DEF ConnectionInv, Connections, none
<1>1. ASSUME NEW c \in Callers, UseConnection(c)
     PROVE  ConnectionInv'
  <2>1. TypeOK'
    BY <1>1 DEF UseConnection, MayConnect, TypeOK, Actor, At, Idle
  <2>2. \A d \in Callers : caller[d].pc = "resetting" \/ caller'[d].pc = "resetting"
                            => caller'[d] = caller[d]
    BY <1>1 DEF UseConnection, MayConnect, TypeOK, At, Idle
  <2> QED BY <1>1, <2>1, <2>2, OnlyCallersMove DEF UseConnection
<1>2. ASSUME NEW c \in Callers, JoinConnecting(c)
     PROVE  ConnectionInv'
  <2>1. TypeOK'
    BY <1>2 DEF JoinConnecting, MayConnect, TypeOK, Actor, At, Idle
  <2>2. \A d \in Callers : caller[d].pc = "resetting" \/ caller'[d].pc = "resetting"
                            => caller'[d] = caller[d]
    BY <1>2 DEF JoinConnecting, MayConnect, TypeOK, At, Idle
  <2> QED BY <1>2, <2>1, <2>2, OnlyCallersMove DEF JoinConnecting
<1>3. ASSUME NEW c \in Callers, NEW k \in Connections, OpenConnection(c, k)
     PROVE  ConnectionInv'
  <2>1. TypeOK'
    BY <1>3 DEF OpenConnection, MayConnect, TypeOK, Actor, Serving, At, Idle
  <2>2. OnePlace'
    BY <1>3 DEF OpenConnection, MayConnect, TypeOK, OnePlace, Live, Serving, Actor, At, Idle
  <2>3. Known'
    BY <1>3 DEF OpenConnection, MayConnect, TypeOK, OnePlace, Known, Destroyed, Live, Actor, At, Idle
  <2>4. Destroyed'
    BY <1>3 DEF OpenConnection, MayConnect, TypeOK, OnePlace, Destroyed, Live, Actor, At, Idle
  <2>5. ClosedOnce'
    BY <1>3 DEF OpenConnection, MayConnect, TypeOK, OnePlace, Destroyed, ClosedOnce, Live, Actor, At, Idle
  <2> QED BY <2>1, <2>2, <2>3, <2>4, <2>5
<1>4. ASSUME NEW c \in Callers, Connected(c)
     PROVE  ConnectionInv'
  <2>1. TypeOK'
    BY <1>4 DEF Connected, TypeOK, Actor, At, Idle
  <2>2. \A d \in Callers : caller[d].pc = "resetting" \/ caller'[d].pc = "resetting"
                            => caller'[d] = caller[d]
    BY <1>4 DEF Connected, TypeOK, At, Idle
  <2> QED BY <1>4, <2>1, <2>2, OnlyCallersMove DEF Connected
<1>5. ASSUME NEW c \in Callers, Answered(c)
     PROVE  ConnectionInv'
  <2>1. TypeOK'
    BY <1>5 DEF Answered, TypeOK, Actor, At, Idle
  <2>2. \A d \in Callers : caller[d].pc = "resetting" \/ caller'[d].pc = "resetting"
                            => caller'[d] = caller[d]
    BY <1>5 DEF Answered, TypeOK, At, Idle
  <2> QED BY <1>5, <2>1, <2>2, OnlyCallersMove DEF Answered
<1>6. ASSUME NEW c \in Callers, RequestFails(c)
     PROVE  ConnectionInv'
  <2>1. TypeOK'
    BY <1>6 DEF RequestFails, TypeOK, Actor, Serving, At, Idle
  <2>2. OnePlace'
    BY <1>6 DEF RequestFails, TypeOK, OnePlace, Live, Serving, Actor, At, Idle
  <2>3. Known'
    BY <1>6 DEF RequestFails, TypeOK, OnePlace, Known, Destroyed, Live, Actor, At, Idle
  <2>4. Destroyed'
    BY <1>6 DEF RequestFails, TypeOK, OnePlace, Destroyed, Live, Actor, At, Idle
  <2>5. ClosedOnce'
    <3>1. \A d \in Callers :
            caller'[d].pc = "resetting" => server'[caller'[d].conn] = "closing"
      BY <1>6 DEF RequestFails, TypeOK, OnePlace, Destroyed, ClosedOnce, Live, Actor, At, Idle
    <3>2. closer'.pc = "closing" => server'[closer'.conn] = "closing"
      BY <1>6 DEF RequestFails, TypeOK, OnePlace, Destroyed, ClosedOnce, Live, Actor, At, Idle
    <3>3. ASSUME NEW j \in Connections, server'[j] = "closing"
          PROVE  \/ closer' = At("closing", j)
                 \/ \E d \in Callers : caller'[d] = At("resetting", j)
      <4>1. CASE connection # none /\ j = connection
        <5>1. caller'[c] = At("resetting", j)
          BY <1>6, <4>1 DEF RequestFails, TypeOK
        <5> QED BY <5>1
      <4>2. CASE ~(connection # none /\ j = connection)
        <5>1. server[j] = "closing" /\ closer' = closer
          BY <1>6, <3>3, <4>2 DEF RequestFails, TypeOK
        <5>2. CASE closer = At("closing", j)
          BY <5>1, <5>2
        <5>3. ASSUME NEW d \in Callers, caller[d] = At("resetting", j)
              PROVE  caller'[d] = At("resetting", j)
          <6>1. d # c
            BY <1>6, <5>3 DEF RequestFails, At
          <6> QED BY <1>6, <5>3, <6>1 DEF RequestFails, TypeOK
        <5> QED BY <5>1, <5>2, <5>3 DEF ClosedOnce
      <4> QED BY <4>1, <4>2
    <3>4. \A d, e \in Callers :
            caller'[d].pc = "resetting" /\ caller'[e] = caller'[d] => d = e
      BY <1>6 DEF RequestFails, TypeOK, OnePlace, Destroyed, ClosedOnce, Live, Actor, At, Idle
    <3>5. \A d \in Callers : closer'.pc = "closing" /\ caller'[d].pc = "resetting" =>
                               caller'[d].conn # closer'.conn
      BY <1>6 DEF RequestFails, TypeOK, OnePlace, Destroyed, ClosedOnce, Live, Actor, At, Idle
    <3> QED BY <3>1, <3>2, <3>3, <3>4, <3>5 DEF ClosedOnce
  <2> QED BY <2>1, <2>2, <2>3, <2>4, <2>5
<1>7. ASSUME NEW c \in Callers, ResetDone(c)
     PROVE  ConnectionInv'
  <2>1. TypeOK'
    BY <1>7 DEF ResetDone, TypeOK, Actor, Serving, At, Idle
  <2>2. OnePlace'
    BY <1>7 DEF ResetDone, TypeOK, OnePlace, ClosedOnce, Live, Serving, Actor, At, Idle
  <2>3. Known'
    BY <1>7 DEF ResetDone, TypeOK, OnePlace, Known, Destroyed, Live, Actor, At, Idle
  <2>4. Destroyed'
    BY <1>7 DEF ResetDone, TypeOK, OnePlace, Destroyed, ClosedOnce, Live, Actor, At, Idle
  <2>5. ClosedOnce'
    BY <1>7 DEF ResetDone, TypeOK, OnePlace, Destroyed, ClosedOnce, Live, Actor, At, Idle
  <2> QED BY <2>1, <2>2, <2>3, <2>4, <2>5
<1>8. ASSUME NEW k \in Connections, OpenSucceeds(k)
     PROVE  ConnectionInv'
  <2>1. TypeOK'
    BY <1>8 DEF OpenSucceeds, Resume, TypeOK, Actor, Serving, At, Idle
  <2>2. OnePlace'
    BY <1>8 DEF OpenSucceeds, Resume, TypeOK, OnePlace, Live, Serving, Actor, At, Idle
  <2>3. Known'
    BY <1>8 DEF OpenSucceeds, Resume, TypeOK, OnePlace, Known, Destroyed, Live, Actor, At, Idle
  <2>4. Destroyed'
    BY <1>8 DEF OpenSucceeds, Resume, TypeOK, OnePlace, Destroyed, Live, Actor, At, Idle
  <2>5. ClosedOnce'
    <3>1. \A d \in Callers :
            caller'[d].pc = "resetting" => server'[caller'[d].conn] = "closing"
      BY <1>8 DEF OpenSucceeds, Resume, TypeOK, OnePlace, Destroyed, ClosedOnce, Live, Actor, At, Idle
    <3>2. closer'.pc = "closing" => server'[closer'.conn] = "closing"
      BY <1>8 DEF OpenSucceeds, Resume, TypeOK, OnePlace, Destroyed, ClosedOnce, Live, Actor, At, Idle
    <3>3. ASSUME NEW j \in Connections, server'[j] = "closing"
          PROVE  \/ closer' = At("closing", j)
                 \/ \E d \in Callers : caller'[d] = At("resetting", j)
      <4>1. server[j] = "closing" /\ closer' = closer
        BY <1>8, <3>3 DEF OpenSucceeds, TypeOK
      <4>2. \A d \in Callers :
              caller[d] = At("resetting", j) => caller'[d] = At("resetting", j)
        BY <1>8 DEF OpenSucceeds, Resume, At
      <4> QED BY <4>1, <4>2 DEF ClosedOnce
    <3>4. \A d, e \in Callers :
            caller'[d].pc = "resetting" /\ caller'[e] = caller'[d] => d = e
      BY <1>8 DEF OpenSucceeds, Resume, TypeOK, OnePlace, Destroyed, ClosedOnce, Live, Actor, At, Idle
    <3>5. \A d \in Callers : closer'.pc = "closing" /\ caller'[d].pc = "resetting" =>
                               caller'[d].conn # closer'.conn
      BY <1>8 DEF OpenSucceeds, Resume, TypeOK, OnePlace, Destroyed, ClosedOnce, Live, Actor, At, Idle
    <3> QED BY <3>1, <3>2, <3>3, <3>4, <3>5 DEF ClosedOnce
  <2> QED BY <2>1, <2>2, <2>3, <2>4, <2>5
<1>9. ASSUME NEW k \in Connections, OpenFails(k)
     PROVE  ConnectionInv'
  <2>1. TypeOK'
    BY <1>9 DEF OpenFails, Resume, TypeOK, Actor, Serving, At, Idle
  <2>2. OnePlace'
    BY <1>9 DEF OpenFails, Resume, TypeOK, OnePlace, Live, Serving, Actor, At, Idle
  <2>3. Known'
    BY <1>9 DEF OpenFails, Resume, TypeOK, OnePlace, Known, Destroyed, Live, Actor, At, Idle
  <2>4. Destroyed'
    BY <1>9 DEF OpenFails, Resume, TypeOK, OnePlace, Destroyed, Live, Actor, At, Idle
  <2>5. ClosedOnce'
    BY <1>9 DEF OpenFails, Resume, TypeOK, OnePlace, Destroyed, ClosedOnce, Live, Actor, At, Idle
  <2> QED BY <2>1, <2>2, <2>3, <2>4, <2>5
<1>10. ASSUME NEW k \in Connections, ServerBreaks(k)
     PROVE  ConnectionInv'
  <2>1. TypeOK'
    BY <1>10 DEF ServerBreaks, TypeOK, Actor, Serving, At, Idle
  <2>2. OnePlace'
    BY <1>10 DEF ServerBreaks, TypeOK, OnePlace, Live, Serving, Actor, At, Idle
  <2>3. Known'
    BY <1>10 DEF ServerBreaks, TypeOK, OnePlace, Known, Destroyed, Live, Actor, At, Idle
  <2>4. Destroyed'
    BY <1>10 DEF ServerBreaks, TypeOK, OnePlace, Destroyed, Live, Actor, At, Idle
  <2>5. ClosedOnce'
    BY <1>10 DEF ServerBreaks, TypeOK, OnePlace, Destroyed, ClosedOnce, Live, Actor, At, Idle
  <2> QED BY <2>1, <2>2, <2>3, <2>4, <2>5
<1>11. ASSUME Close PROVE ConnectionInv'
  <2>1. TypeOK'
    BY <1>11 DEF Close, TypeOK, Actor, Serving, At, Idle
  <2>2. OnePlace'
    BY <1>11 DEF Close, TypeOK, OnePlace, Live, Serving, Actor, At, Idle
  <2>3. Known'
    BY <1>11 DEF Close, TypeOK, OnePlace, Known, Destroyed, Live, Actor, At, Idle
  <2>4. Destroyed'
    BY <1>11 DEF Close, TypeOK, OnePlace, Destroyed, Live, Actor, At, Idle
  <2>5. ClosedOnce'
    <3>1. \A d \in Callers :
            caller'[d].pc = "resetting" => server'[caller'[d].conn] = "closing"
      BY <1>11 DEF Close, TypeOK, OnePlace, Destroyed, ClosedOnce, Live, Actor, At, Idle
    <3>2. closer'.pc = "closing" => server'[closer'.conn] = "closing"
      BY <1>11 DEF Close, TypeOK, OnePlace, Destroyed, ClosedOnce, Live, Actor, At, Idle
    <3>3. ASSUME NEW j \in Connections, server'[j] = "closing"
          PROVE  \/ closer' = At("closing", j)
                 \/ \E d \in Callers : caller'[d] = At("resetting", j)
      <4>1. CASE connecting = none /\ connection # none /\ j = connection
        BY <1>11, <4>1 DEF Close
      <4>2. CASE ~(connecting = none /\ connection # none /\ j = connection)
        <5>1. server[j] = "closing" /\ closer = Idle /\ caller' = caller
          BY <1>11, <3>3, <4>2 DEF Close, TypeOK, OnePlace, Destroyed
        <5> QED BY <5>1 DEF ClosedOnce, Idle, At
      <4> QED BY <4>1, <4>2
    <3>4. \A d, e \in Callers :
            caller'[d].pc = "resetting" /\ caller'[e] = caller'[d] => d = e
      BY <1>11 DEF Close, TypeOK, OnePlace, Destroyed, ClosedOnce, Live, Actor, At, Idle
    <3>5. \A d \in Callers : closer'.pc = "closing" /\ caller'[d].pc = "resetting" =>
                               caller'[d].conn # closer'.conn
      BY <1>11 DEF Close, TypeOK, OnePlace, Destroyed, ClosedOnce, Live, Actor, At, Idle
    <3> QED BY <3>1, <3>2, <3>3, <3>4, <3>5 DEF ClosedOnce
  <2> QED BY <2>1, <2>2, <2>3, <2>4, <2>5
<1>12. ASSUME ClosePending PROVE ConnectionInv'
  <2>1. TypeOK'
    BY <1>12 DEF ClosePending, TypeOK, Actor, Serving, At, Idle
  <2>2. OnePlace'
    BY <1>12 DEF ClosePending, TypeOK, OnePlace, Destroyed, Live, Serving, Actor, At, Idle
  <2>3. Known'
    BY <1>12 DEF ClosePending, TypeOK, OnePlace, Known, Destroyed, Live, Actor, At, Idle
  <2>4. Destroyed'
    BY <1>12 DEF ClosePending, TypeOK, OnePlace, Destroyed, Live, Actor, At, Idle
  <2>5. ClosedOnce'
    BY <1>12 DEF ClosePending, TypeOK, OnePlace, Destroyed, ClosedOnce, Live, Actor, At, Idle
  <2> QED BY <2>1, <2>2, <2>3, <2>4, <2>5
<1>13. ASSUME CloseDone PROVE ConnectionInv'
  <2>1. TypeOK'
    BY <1>13 DEF CloseDone, TypeOK, Actor, Serving, At, Idle
  <2>2. OnePlace'
    BY <1>13 DEF CloseDone, TypeOK, OnePlace, Destroyed, ClosedOnce, Live, Serving, Actor, At, Idle
  <2>3. Known'
    BY <1>13 DEF CloseDone, TypeOK, OnePlace, Known, Destroyed, Live, Actor, At, Idle
  <2>4. Destroyed'
    BY <1>13 DEF CloseDone, TypeOK, OnePlace, Destroyed, Live, Actor, At, Idle
  <2>5. ClosedOnce'
    BY <1>13 DEF CloseDone, TypeOK, OnePlace, Destroyed, ClosedOnce, Live, Actor, At, Idle
  <2> QED BY <2>1, <2>2, <2>3, <2>4, <2>5
<1>14. CASE UNCHANGED vars
  BY <1>14 DEF vars, TypeOK, OnePlace, Known, Destroyed, ClosedOnce, Live, At, Idle
<1> QED
  BY <1>1, <1>2, <1>3, <1>4, <1>5, <1>6, <1>7, <1>8, <1>9, <1>10, <1>11, <1>12, <1>13, <1>14 DEF Next, RequestEnds, Settles

-----------------------------------------------------------------------------
(* What follows *)

\* The invariant gives the two properties: one child in use, none orphaned.
LEMMA ConnectionInvSafe == ConnectionInv => OneServing /\ NoOrphan
<1> SUFFICES ASSUME ConnectionInv PROVE OneServing /\ NoOrphan
  OBVIOUS
<1> USE MaxConnectionsAssumption DEF ConnectionInv, Connections, none
<1>1. OneServing
  <2> DEFINE S == {k \in Connections : server[k] \in Serving}
  <2>1. \A j, k \in S : j = k
    BY DEF TypeOK, OnePlace, Known, Destroyed, Live, Serving, Actor, At, Idle
  <2>2. CASE S = {}
    BY <2>2, FS_EmptySet DEF OneServing, OnePlace
  <2>3. ASSUME NEW k \in S PROVE Cardinality(S) <= 1
    <3>1. S = {k}
      BY <2>1
    <3> QED BY <3>1, FS_Singleton
  <2> QED BY <2>2, <2>3 DEF OneServing, OnePlace
<1>2. ASSUME NEW k \in Connections, server[k] = "closing"
      PROVE  Cardinality(Closing(k)) = 1
  <2>1. PICK x : x \in Closing(k)
    BY <1>2 DEF ClosedOnce, Closing
  <2>2. \A y, z \in Closing(k) : y = z
    BY DEF ClosedOnce, Closing, At
  <2>3. Closing(k) = {x}
    BY <2>1, <2>2
  <2> QED BY <2>3, FS_Singleton
<1>3. ASSUME NEW k \in Connections, server[k] # "closing" PROVE Closing(k) = {}
  BY <1>3 DEF ClosedOnce, Closing, At
<1>4. NoOrphan
  BY <1>2, <1>3 DEF NoOrphan, TypeOK, OnePlace, Known, Live, Serving
<1> QED BY <1>1, <1>4

\* The invariant holds however calls, failures, openings and close() mix.
THEOREM ConnectionInvariant == Spec => []ConnectionInv
<1> QED BY ConnectionInit, ConnectionStep, PTL DEF Spec

\* The variables of the client keep their types.
THEOREM ConnectionTypes == Spec => []TypeOK
<1>1. ConnectionInv => TypeOK
  BY DEF ConnectionInv
<1> QED BY <1>1, ConnectionInvariant, PTL

\* At most one child process is in use, and the service never has a connection
\* and an opening at once.
THEOREM ServedByOne == Spec => []OneServing
<1> QED BY ConnectionInvSafe, ConnectionInvariant, PTL

\* No child process is orphaned or closed twice.
THEOREM NothingOrphaned == Spec => []NoOrphan
<1> QED BY ConnectionInvSafe, ConnectionInvariant, PTL

-----------------------------------------------------------------------------
(* What callers wait for *)

\* Whoever waits for a connection waits for one that is still being opened, and
\* a request is on a child that was opened and has not ended.
WaitsFor(c) ==
  /\ caller[c].pc \in {"opening", "waiting"} => server[caller[c].conn] = "opening"
  /\ caller[c].pc = "requesting" => server[caller[c].conn] \in Live \cup {"closing"}

\* What close() waits for is being opened, or it need not wait any longer.
CloserWaitsFor ==
  closer.pc = "awaiting" => server[closer.conn] \in Live \cup {"opening", "failed"}

NobodyWaitsInVain == CloserWaitsFor /\ \A c \in Callers : WaitsFor(c)

\* Callers stay where they are or are resumed, and only children nobody waits for
\* change.
LEMMA WaitersUndisturbed ==
  ASSUME ConnectionInv, NobodyWaitsInVain, NEW k \in Connections, NEW new,
         server' = [server EXCEPT ![k] = new],
         server[k] = "opening" => \A c \in Callers : caller'[c].pc \in {"opening", "waiting"}
                                                       => caller'[c].conn # k,
         new \in Live \cup {"closing"} \/ \A c \in Callers : caller'[c] # At("requesting", k),
         \A c \in Callers : \/ caller'[c] = caller[c] \/ caller'[c].pc \in {"idle", "resetting"}
                              \/ caller'[c] = At("requesting", k)
  PROVE  \A c \in Callers : WaitsFor(c)'
<1> SUFFICES ASSUME NEW c \in Callers PROVE WaitsFor(c)'
  OBVIOUS
<1>1. /\ server \in [Connections -> Serving \cup {"unused", "failed", "closing", "closed"}]
      /\ caller[c] \in Actor({"opening", "waiting", "requesting", "resetting"})
      /\ WaitsFor(c)
  BY DEF ConnectionInv, TypeOK, NobodyWaitsInVain
<1>2. server'[k] = new /\ \A j \in Connections \ {k} : server'[j] = server[j]
  BY <1>1
<1>3. CASE caller'[c].pc \in {"idle", "resetting"}
  BY <1>3 DEF WaitsFor
<1>4. CASE caller'[c] = At("requesting", k)
  BY <1>2, <1>4 DEF WaitsFor, At
<1>5. CASE caller'[c] = caller[c] /\ caller[c] # At("requesting", k)
  <2>1. caller[c].pc \in {"opening", "waiting", "requesting"} => caller[c].conn \in Connections
    BY <1>1 DEF Actor
  <2>2. caller[c].pc = "requesting" => caller[c].conn # k
    BY <1>1, <1>5 DEF Actor, At
  <2> QED BY <1>1, <1>2, <1>5, <2>1, <2>2 DEF WaitsFor
<1> QED BY <1>3, <1>4, <1>5

\* At first nobody waits.
LEMMA WaitersInit == Init => NobodyWaitsInVain
BY DEF Init, Idle, NobodyWaitsInVain, CloserWaitsFor, WaitsFor

\* Each step leaves those who wait something to wait for.
LEMMA WaitersStep ==
  ConnectionInv /\ ConnectionInv' /\ NobodyWaitsInVain /\ [Next]_vars => NobodyWaitsInVain'
<1> SUFFICES ASSUME ConnectionInv, ConnectionInv', NobodyWaitsInVain, [Next]_vars
             PROVE  \A c \in Callers : WaitsFor(c)'
  BY DEF ConnectionInv, Destroyed, NobodyWaitsInVain, CloserWaitsFor
<1>t. /\ caller \in [Callers -> Actor({"opening", "waiting", "requesting", "resetting"})]
      /\ server \in [Connections -> Serving \cup {"unused", "failed", "closing", "closed"}]
      /\ connection \in Connections \cup {none} /\ connecting \in Connections \cup {none}
      /\ closer \in Actor({"awaiting", "closing"})
      /\ OnePlace /\ Destroyed /\ ClosedOnce
      /\ \A c \in Callers : WaitsFor(c)
  BY DEF ConnectionInv, TypeOK, NobodyWaitsInVain
<1>a. \A c \in Callers : caller[c].pc \in {"opening", "waiting", "requesting", "resetting"} =>
                          caller[c].conn \in Connections
  BY <1>t DEF Actor
<1>b. closer.pc \in {"awaiting", "closing"} => closer.conn \in Connections
  BY <1>t DEF Actor
<1>1. ASSUME server' = server,
             \A c \in Callers : caller'[c] = caller[c] \/ WaitsFor(c)'
      PROVE  \A c \in Callers : WaitsFor(c)'
  BY <1>1, <1>t DEF WaitsFor
<1>2. ASSUME NEW c \in Callers,
             UseConnection(c) \/ JoinConnecting(c) \/ Connected(c) \/ Answered(c)
      PROVE  \A d \in Callers : WaitsFor(d)'
  <2>1. server' = server /\ \A d \in Callers \ {c} : caller'[d] = caller[d]
    BY <1>2, <1>t DEF UseConnection, JoinConnecting, Connected, Answered
  <2>2. WaitsFor(c)'
    BY <1>2, <1>t DEF UseConnection, JoinConnecting, Connected, Answered, WaitsFor, OnePlace,
                      At, Idle
  <2> QED BY <1>1, <2>1, <2>2
<1>3. ASSUME NEW c \in Callers, NEW k \in Connections, OpenConnection(c, k)
      PROVE  \A d \in Callers : WaitsFor(d)'
  <2>1. /\ caller'[c] = At("opening", k) /\ \A d \in Callers \ {c} : caller'[d] = caller[d]
        /\ server[k] = "unused" /\ server'[k] = "opening"
        /\ \A j \in Connections \ {k} : server'[j] = server[j]
    BY <1>3, <1>t DEF OpenConnection
  <2> QED BY <2>1, <1>t, <1>a DEF WaitsFor, At, Live
<1>4. ASSUME NEW k \in Connections, Settles(k) PROVE \A d \in Callers : WaitsFor(d)'
  <2>1. PICK new \in {"open", "failed"},
               opener \in {Idle, At("requesting", k)}, waiter \in {Idle, At("requesting", k)} :
          /\ server[k] = "opening" /\ server' = [server EXCEPT ![k] = new]
          /\ caller' = Resume(k, opener, waiter)
          /\ {opener, waiter} \subseteq
               {Idle} \cup (IF new = "open" THEN {At("requesting", k)} ELSE {})
    BY <1>4 DEF Settles, OpenSucceeds, OpenFails
  <2>2. ASSUME NEW c \in Callers
        PROVE  /\ \/ caller'[c] = caller[c] \/ caller'[c].pc = "idle"
                  \/ new = "open" /\ caller'[c] = At("requesting", k)
               /\ caller'[c].pc \in {"opening", "waiting"} => caller'[c].conn # k
               /\ new = "failed" => caller'[c] # At("requesting", k)
    <3>1. caller[c] \in Actor({"opening", "waiting", "requesting", "resetting"})
      BY <1>t
    <3>2. caller[c] # At("requesting", k)
      BY <1>t, <2>1 DEF WaitsFor, At, Live
    <3>3. CASE caller[c] \in {At("opening", k), At("waiting", k)}
      <4>1. caller'[c] \in {opener, waiter}
        BY <2>1, <3>3 DEF Resume, At
      <4> QED BY <2>1, <4>1 DEF Idle, At
    <3>4. CASE caller[c] \notin {At("opening", k), At("waiting", k)}
      <4>1. caller'[c] = caller[c]
        BY <2>1, <3>4 DEF Resume
      <4>2. caller[c].pc \in {"opening", "waiting"} => caller[c].conn # k
        BY <3>1, <3>4 DEF Actor, At
      <4> QED BY <3>2, <4>1, <4>2
    <3> QED BY <3>3, <3>4
  <2> QED BY <2>1, <2>2, WaitersUndisturbed DEF Live
<1>5. ASSUME NEW c \in Callers, RequestFails(c) PROVE \A d \in Callers : WaitsFor(d)'
  <2>1. CASE connection = none
    BY <1>1, <1>5, <1>t, <2>1 DEF RequestFails, WaitsFor, Idle
  <2>2. CASE connection # none
    <3>1. /\ connection \in Connections /\ server[connection] \in Live
          /\ server' = [server EXCEPT ![connection] = "closing"]
          /\ caller'[c] = At("resetting", connection)
          /\ \A d \in Callers \ {c} : caller'[d] = caller[d]
      BY <1>5, <1>t, <2>2 DEF RequestFails, OnePlace
    <3>2. server[connection] # "opening"
      BY <3>1 DEF Live
    <3>3. caller'[c].pc = "resetting" /\ caller'[c] # At("requesting", connection)
      BY <3>1 DEF At
    <3>4. \A d \in Callers : \/ caller'[d] = caller[d]
                            \/ caller'[d].pc \in {"idle", "resetting"}
      BY <3>1, <3>3
    <3>5. \A d \in Callers : WaitsFor(d)
      BY <1>t
    <3> QED BY <3>1, <3>2, <3>3, <3>4, <3>5, WaitersUndisturbed
  <2> QED BY <2>1, <2>2
<1>6. ASSUME NEW c \in Callers, ResetDone(c) PROVE \A d \in Callers : WaitsFor(d)'
  <2>1. PICK k \in Connections : k = caller[c].conn
    BY <1>6, <1>a DEF ResetDone
  <2>2. /\ server[k] = "closing" /\ server' = [server EXCEPT ![k] = "closed"]
        /\ caller'[c] = Idle /\ \A d \in Callers \ {c} : caller'[d] = caller[d]
        /\ \A d \in Callers : caller[d] # At("requesting", k)
    BY <1>6, <1>t, <2>1 DEF ResetDone, ClosedOnce, Drained
  <2>3. caller'[c].pc = "idle" /\ caller'[c] # At("requesting", k)
    BY <2>2 DEF Idle, At
  <2> QED BY <2>2, <2>3, WaitersUndisturbed
<1>7. ASSUME NEW k \in Connections, ServerBreaks(k) PROVE \A d \in Callers : WaitsFor(d)'
  BY <1>7, WaitersUndisturbed DEF ServerBreaks, Live
<1>8. ASSUME Close PROVE \A d \in Callers : WaitsFor(d)'
  <2>1. CASE server' = server
    BY <1>1, <1>8, <2>1 DEF Close
  <2>2. CASE server' # server
    <3>1. /\ connection \in Connections /\ server[connection] \in Live /\ caller' = caller
          /\ server' = [server EXCEPT ![connection] = "closing"]
      BY <1>8, <1>t, <2>2 DEF Close, OnePlace
    <3> QED BY <3>1, WaitersUndisturbed DEF Live
  <2> QED BY <2>1, <2>2
<1>9. ASSUME ClosePending PROVE \A d \in Callers : WaitsFor(d)'
  <2>1. CASE server' = server
    BY <1>1, <1>9, <2>1 DEF ClosePending
  <2>2. CASE server' # server
    <3>1. /\ closer.conn \in Connections /\ server[closer.conn] # "opening"
          /\ caller' = caller /\ server' = [server EXCEPT ![closer.conn] = "closing"]
      BY <1>9, <1>b, <2>2 DEF ClosePending
    <3> QED BY <3>1, WaitersUndisturbed
  <2> QED BY <2>1, <2>2
<1>10. ASSUME CloseDone PROVE \A d \in Callers : WaitsFor(d)'
  <2>1. /\ closer.conn \in Connections /\ server[closer.conn] = "closing"
        /\ caller' = caller /\ server' = [server EXCEPT ![closer.conn] = "closed"]
        /\ \A d \in Callers : caller[d] # At("requesting", closer.conn)
    BY <1>10, <1>b, <1>t DEF CloseDone, ClosedOnce, Drained
  <2> QED BY <2>1, WaitersUndisturbed
<1>11. CASE UNCHANGED vars
  BY <1>1, <1>11 DEF vars
<1> QED
  BY <1>2, <1>3, <1>4, <1>5, <1>6, <1>7, <1>8, <1>9, <1>10, <1>11 DEF Next, RequestEnds

\* Nobody waits for a promise that is settled already or for a child that ended:
\* who opens, joins or requests can always be served or refused (getConnection,
\* callTool, close).
THEOREM WaitersHaveSomethingToWaitFor == Spec => []NobodyWaitsInVain
<1> QED BY WaitersInit, WaitersStep, ConnectionInvariant, PTL DEF Spec
=============================================================================
