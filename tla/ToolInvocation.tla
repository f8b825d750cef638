--------------------------- MODULE ToolInvocation ---------------------------
(***************************************************************************)
(* What ToolBrokerService promises of an invocation: one record that moves *)
(* along its lifecycle, an executor that one call asks while the record is *)
(* RUNNING and within the budget of the tool, and callers that are told    *)
(* what the record says.  There are no copies, inserts, timers, retries or *)
(* lost replies here.                                                      *)
(*                                                                         *)
(* The promise excepts a contested invocation, whose record two calls      *)
(* looked for at once and did not find.  None becomes contested once it    *)
(* has a record, and contested or not a caller is told the truth.          *)
(***************************************************************************)
EXTENDS Naturals

CONSTANTS
  Invocations, Calls,
  Idempotent, \* the invocations whose tool may be asked again
  MaxRetries  \* how often

VARIABLES
  record,    \* the status of each invocation's record
  asked,     \* how often each call asked the executor of an invocation
  contested, \* the invocations nothing is promised of
  answer     \* what each call was told: <<>>, or a status and of what

invocation == <<record, asked, contested, answer>>

Init ==
  /\ record = [i \in Invocations |-> "NONE"]
  /\ asked = [i \in Invocations |-> [c \in Calls |-> 0]]
  /\ contested = {}
  /\ answer = [c \in Calls |-> <<>>]

Become(i, from, to) ==
  /\ record[i] = from
  /\ record' = [record EXCEPT ![i] = to]
  /\ UNCHANGED <<asked, contested>>

Request(i) == Become(i, "NONE", "REQUESTED")
Decide(i) == \E verdict \in {"ALLOWED", "DENIED"} : Become(i, "REQUESTED", verdict)
Run(i) == Become(i, "ALLOWED", "RUNNING")

AskedBy(i, c) == asked[i][c] > 0
Budget(i) == IF i \in Idempotent THEN 1 + MaxRetries ELSE 1

\* Whoever asks first is the only one to ask.
Ask(i, c) ==
  /\ record[i] = "RUNNING"
  /\ \A d \in Calls \ {c} : ~AskedBy(i, d)
  /\ asked[i][c] < Budget(i)
  /\ asked' = [asked EXCEPT ![i][c] = @ + 1]
  /\ UNCHANGED <<record, contested>>

End(i) ==
  /\ \E c \in Calls : AskedBy(i, c)
  /\ \E outcome \in {"SUCCEEDED", "FAILED"} : Become(i, "RUNNING", outcome)

Contest(i) ==
  /\ record[i] = "NONE"
  /\ contested' = contested \cup {i}
  /\ UNCHANGED <<record, asked>>

\* Anything may become of a contested invocation, and of it alone.
Dispute(i) ==
  /\ i \in contested
  /\ \A j \in Invocations \ {i} : record'[j] = record[j] /\ asked'[j] = asked[j]
  /\ UNCHANGED contested

\* A call is told once, and what the record says then.
Told(c) ==
  \/ answer'[c] = answer[c]
  \/ answer[c] = <<>> /\ \E i \in Invocations : answer'[c] = <<record'[i], i>>

Next ==
  /\ \A c \in Calls : Told(c)
  /\ \/ \E i \in Invocations :
          \/ Request(i)
          \/ Decide(i)
          \/ Run(i)
          \/ \E c \in Calls : Ask(i, c)
          \/ End(i)
          \/ Contest(i)
          \/ Dispute(i)
     \/ UNCHANGED <<record, asked, contested>>

Spec == Init /\ [][Next]_invocation
=============================================================================
