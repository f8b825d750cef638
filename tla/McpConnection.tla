--------------------------- MODULE McpConnection ---------------------------
(***************************************************************************)
(* McpClientService: the one stdio connection that all tool calls share.   *)
(* It is opened by the first call, dropped when a request fails, opened    *)
(* again by the next call and closed when the Nest module is destroyed.    *)
(*                                                                         *)
(* A member of Callers calls callTool, listTools or connect over and over. *)
(* Each await is a boundary between two actions, but for the callers that  *)
(* await one opening: its promise resumes them all, the opener first,      *)
(* before any other event.  A request may fail at any time: its signal is  *)
(* aborted (before or after it is sent), the SDK times it out, the server  *)
(* dies.  The SDK and the child process are external.                      *)
(***************************************************************************)
EXTENDS Naturals, FiniteSets

CONSTANTS
  Callers,       \* concurrent users of the service
  MaxConnections \* bound: how many child processes are spawned

ASSUME MaxConnectionsAssumption == MaxConnections \in Nat

VARIABLES
  connection, \* this.connection
  connecting, \* this.connecting
  destroyed,  \* this.destroyed
  server,     \* the client, transport and child process of each connection
  caller,     \* where each caller is
  closer      \* where close() is

vars == <<connection, connecting, destroyed, server, caller, closer>>

Connections == 1 .. MaxConnections
none == 0

\* In use; "broken" is open with the child dead or deaf, which nobody knows.
Serving == {"opening", "open", "broken"}

Actor(pcs) ==
  [pc : {"idle"}, conn : {none}] \cup [pc : pcs, conn : Connections]
Idle == [pc |-> "idle", conn |-> none]
At(pc, k) == [pc |-> pc, conn |-> k]

TypeOK ==
  /\ connection \in Connections \cup {none}
  /\ connecting \in Connections \cup {none}
  /\ destroyed \in BOOLEAN
  /\ server \in [Connections ->
                   Serving \cup {"unused", "failed", "closing", "closed"}]
  /\ caller \in [Callers ->
                   Actor({"opening", "waiting", "requesting", "resetting"})]
  /\ closer \in Actor({"awaiting", "closing"})

Init ==
  /\ connection = none
  /\ connecting = none
  /\ destroyed = FALSE
  /\ server = [k \in Connections |-> "unused"]
  /\ caller = [c \in Callers |-> Idle]
  /\ closer = Idle

-----------------------------------------------------------------------------
(* getConnection: use the connection, join the opening, or open.  A        *)
(* destroyed service refuses and changes nothing.                          *)

MayConnect(c) == caller[c] = Idle /\ ~destroyed

UseConnection(c) ==
  /\ MayConnect(c)
  /\ connection # none
  /\ caller' = [caller EXCEPT ![c] = At("requesting", connection)]
  /\ UNCHANGED <<connection, connecting, destroyed, server, closer>>

JoinConnecting(c) ==
  /\ MayConnect(c)
  /\ connection = none
  /\ connecting # none
  /\ caller' = [caller EXCEPT ![c] = At("waiting", connecting)]
  /\ UNCHANGED <<connection, connecting, destroyed, server, closer>>

\* Mutant: only an established connection is shared.
OpenAlways(c, k) ==
  /\ MayConnect(c)
  /\ connection = none
  /\ server[k] = "unused"
  /\ server' = [server EXCEPT ![k] = "opening"]
  /\ connecting' = k
  /\ caller' = [caller EXCEPT ![c] = At("opening", k)]
  /\ UNCHANGED <<connection, destroyed, closer>>

OpenConnection(c, k) ==
  /\ MayConnect(c)
  /\ connection = none
  /\ connecting = none
  /\ server[k] = "unused"
  /\ server' = [server EXCEPT ![k] = "opening"]
  /\ connecting' = k
  /\ caller' = [caller EXCEPT ![c] = At("opening", k)]
  /\ UNCHANGED <<connection, destroyed, closer>>

\* Mutant: the promise that failed is only seen by the one who made it.
ResumeOpener(k, opener, waiter) ==
  [c \in Callers |->
     IF caller[c] = At("opening", k) THEN opener ELSE caller[c]]

\* The callers after the promise of connection k settled.
Resume(k, opener, waiter) ==
  [c \in Callers |-> CASE caller[c] = At("opening", k) -> opener
                       [] caller[c] = At("waiting", k) -> waiter
                       [] OTHER -> caller[c]]

\* Mutant: the opener does not look whether the service was destroyed.
OpenSucceedsAnyway(k) ==
  /\ server[k] = "opening"
  /\ server' = [server EXCEPT ![k] = "open"]
  /\ connecting' = none
  /\ connection' = k
  /\ caller' = Resume(k, At("requesting", k), At("requesting", k))
  /\ UNCHANGED <<destroyed, closer>>

\* A service destroyed meanwhile leaves the connection to close() and its
\* opener throws; those who joined go on with it.
OpenSucceeds(k) ==
  /\ server[k] = "opening"
  /\ server' = [server EXCEPT ![k] = "open"]
  /\ connecting' = none
  /\ connection' = IF destroyed THEN connection ELSE k
  /\ caller' = Resume(k, IF destroyed THEN Idle ELSE At("requesting", k),
                         At("requesting", k))
  /\ UNCHANGED <<destroyed, closer>>

OpenFails(k) ==
  /\ server[k] = "opening"
  /\ server' = [server EXCEPT ![k] = "failed"]
  /\ connecting' = none
  /\ caller' = Resume(k, Idle, Idle)
  /\ UNCHANGED <<connection, destroyed, closer>>

-----------------------------------------------------------------------------
(* A request and its end *)

\* connect() wants the connection and makes no request on it.
Connected(c) ==
  /\ caller[c].pc = "requesting"
  /\ caller' = [caller EXCEPT ![c] = Idle]
  /\ UNCHANGED <<connection, connecting, destroyed, server, closer>>

\* A result, or an error of the tool that leaves the connection alone.
Answered(c) ==
  /\ caller[c].pc = "requesting"
  /\ server[caller[c].conn] = "open"
  /\ caller' = [caller EXCEPT ![c] = Idle]
  /\ UNCHANGED <<connection, connecting, destroyed, server, closer>>

\* Mutant: the connection is closed and stays in this.connection.
FailAndKeep(c) ==
  /\ caller[c].pc = "requesting"
  /\ IF connection # none
       THEN /\ server' = [server EXCEPT ![connection] = "closing"]
            /\ caller' = [caller EXCEPT ![c] = At("resetting", connection)]
       ELSE /\ caller' = [caller EXCEPT ![c] = Idle]
            /\ UNCHANGED server
  /\ UNCHANGED <<connection, connecting, destroyed, closer>>

\* Mutant: the connection is not tested before it is closed.
FailUnchecked(c) ==
  /\ caller[c].pc = "requesting"
  /\ connection' = none
  /\ caller' = [caller EXCEPT ![c] = At("resetting", connection)]
  /\ server' = [k \in Connections |->
                  IF k = connection THEN "closing" ELSE server[k]]
  /\ UNCHANGED <<connecting, destroyed, closer>>

\* mapRequestError and resetConnection: whatever connection the service has
\* by now is dropped and closed.
RequestFails(c) ==
  /\ caller[c].pc = "requesting"
  /\ connection' = none
  /\ IF connection # none
       THEN /\ server' = [server EXCEPT ![connection] = "closing"]
            /\ caller' = [caller EXCEPT ![c] = At("resetting", connection)]
       ELSE /\ caller' = [caller EXCEPT ![c] = Idle]
            /\ UNCHANGED server
  /\ UNCHANGED <<connecting, destroyed, closer>>

\* The requests still open on a connection fail at the latest when its child
\* process has ended, before the one who closes it goes on.
Drained(k) == \A c \in Callers : caller[c] # At("requesting", k)

ResetDone(c) ==
  /\ caller[c].pc = "resetting"
  /\ Drained(caller[c].conn)
  /\ server' = [server EXCEPT ![caller[c].conn] = "closed"]
  /\ caller' = [caller EXCEPT ![c] = Idle]
  /\ UNCHANGED <<connection, connecting, destroyed, closer>>

ServerBreaks(k) ==
  /\ server[k] = "open"
  /\ server' = [server EXCEPT ![k] = "broken"]
  /\ UNCHANGED <<connection, connecting, destroyed, caller, closer>>

-----------------------------------------------------------------------------
(* close().  It finds a connection, one being opened, or neither: see      *)
(* OneServing.  A second close() finds neither and changes nothing.        *)

\* Mutant: an opening under way is forgotten.
CloseEstablished ==
  /\ ~destroyed
  /\ destroyed' = TRUE
  /\ connection' = none
  /\ connecting' = none
  /\ IF connection # none
       THEN /\ closer' = At("closing", connection)
            /\ server' = [server EXCEPT ![connection] = "closing"]
       ELSE UNCHANGED <<closer, server>>
  /\ UNCHANGED caller

Close ==
  /\ ~destroyed
  /\ destroyed' = TRUE
  /\ connection' = none
  /\ connecting' = none
  /\ CASE connecting # none ->
            closer' = At("awaiting", connecting) /\ UNCHANGED server
       [] connection # none ->
            /\ closer' = At("closing", connection)
            /\ server' = [server EXCEPT ![connection] = "closing"]
       [] OTHER -> UNCHANGED <<closer, server>>
  /\ UNCHANGED caller

\* The opening that close() awaited settled.
ClosePending ==
  LET k == closer.conn IN
  /\ closer.pc = "awaiting"
  /\ server[k] # "opening"
  /\ IF server[k] = "failed"
       THEN closer' = Idle /\ UNCHANGED server
       ELSE /\ closer' = At("closing", k)
            /\ server' = [server EXCEPT ![k] = "closing"]
  /\ UNCHANGED <<connection, connecting, destroyed, caller>>

CloseDone ==
  /\ closer.pc = "closing"
  /\ Drained(closer.conn)
  /\ server' = [server EXCEPT ![closer.conn] = "closed"]
  /\ closer' = Idle
  /\ UNCHANGED <<connection, connecting, destroyed, caller>>

-----------------------------------------------------------------------------
Settles(k) == OpenSucceeds(k) \/ OpenFails(k)
RequestEnds(c) == Answered(c) \/ RequestFails(c)

Next ==
  \/ \E c \in Callers :
       \/ UseConnection(c)
       \/ JoinConnecting(c)
       \/ \E k \in Connections : OpenConnection(c, k)
       \/ Connected(c)
       \/ RequestEnds(c)
       \/ ResetDone(c)
  \/ \E k \in Connections : Settles(k) \/ ServerBreaks(k)
  \/ Close
  \/ ClosePending
  \/ CloseDone

Spec == Init /\ [][Next]_vars

\* The SDK bounds the handshake and every request by a timeout of its own and
\* kills a child that does not exit, so what was begun ends.  Nothing obliges
\* anyone to call, the server to break or the module to be destroyed.
FairSpec ==
  /\ Spec
  /\ \A k \in Connections : WF_vars(Settles(k))
  /\ \A c \in Callers : WF_vars(RequestEnds(c)) /\ WF_vars(ResetDone(c))
  /\ WF_vars(ClosePending)
  /\ WF_vars(CloseDone)

-----------------------------------------------------------------------------
(* Properties *)

\* However calls, failures and close() interleave, at most one child process
\* is in use, and the service never has a connection and an opening at once.
OneServing ==
  /\ Cardinality({k \in Connections : server[k] \in Serving}) <= 1
  /\ connection = none \/ connecting = none

Closing(k) ==
  {c \in Callers : caller[c] = At("resetting", k)} \cup
  {d \in {"close"} : closer = At("closing", k)}

\* No child process is orphaned or closed twice: one in use is known to the
\* service or awaited by close(), one being closed has exactly one closer, and
\* what the service knows is in use.
NoOrphan ==
  /\ \A k \in Connections :
       CASE server[k] = "opening" -> connecting = k \/ closer = At("awaiting", k)
         [] server[k] \in {"open", "broken"} ->
              connection = k \/ closer = At("awaiting", k)
         [] server[k] = "closing" -> Cardinality(Closing(k)) = 1
         [] OTHER -> Closing(k) = {}
  /\ connection # none => server[connection] \in {"open", "broken"}
  /\ connecting # none => server[connecting] = "opening"

\* Once the module is destroyed every child process ends for good, the one
\* still starting at that moment included.
ShutdownCloses ==
  destroyed ~> [](\A k \in Connections : server[k] \in {"unused", "failed", "closed"})

\* Nobody waits for ever: not for an opening that fails, nor for a request on
\* a connection that somebody else dropped.
CallsEnd == \A c \in Callers : caller[c] # Idle ~> caller[c] = Idle

\* What the documentation says of a broken transport: the service drops the
\* old connection.  A connection is dropped only by close() or by a request
\* that failed on that very connection.
DropsOnlyWhatFailed ==
  [][connection # none /\ connection' = none =>
       \/ destroyed'
       \/ \E c \in Callers :
            caller[c] = At("requesting", connection) /\ caller'[c] # caller[c]]_vars
=============================================================================
