----------------------------- MODULE AuditTrail -----------------------------
(***************************************************************************)
(* When the audit events of one run are stamped, when they are committed   *)
(* and in what order findByRunId gives them back.                          *)
(*                                                                         *)
(* created_at is read from the clock before the transaction that inserts   *)
(* the event, in whole milliseconds, and the table is read back by         *)
(* created_at and then by id, a random UUID.  Writers are commands on the  *)
(* run, guarded by its version, and tool calls, which start once the run   *)
(* is RUNNING_STEP.  One clock that never goes back is assumed: all        *)
(* processes on one host.                                                  *)
(***************************************************************************)
EXTENDS Naturals, Sequences, FiniteSets

CONSTANTS
  Workers,      \* commands on the run
  Calls,        \* execute(...) calls made for it
  ReadyVersion, \* the version of the run at which it is RUNNING_STEP
  MaxTime,      \* bound: the last millisecond
  MaxEvents     \* bound: how many events are inserted

ASSUME TrailAssumption ==
  /\ ReadyVersion \in Nat /\ MaxTime \in Nat /\ MaxEvents \in Nat
  /\ "run" \notin Calls

VARIABLES
  clock,   \* the milliseconds of new Date()
  version, \* of the run's row, 0 before it is created
  events,  \* table audit_events, in the order of insertion
  command, \* of each command: pc, the version of its copy of the row, its stamp
  call     \* of each execute(...): pc, its transactions so far, its stamp

vars == <<clock, version, events, command, call>>

Ids == 1 .. MaxEvents

\* An AuditEvent, by what tells when it was written; number counts the
\* transactions of its source, a call or the run's commands.
Stamped(source, number, time, id) ==
  [source |-> source, number |-> number, created_at |-> time, id |-> id]

Init ==
  /\ clock = 0 /\ version = 0 /\ events = <<>>
  /\ command = [w \in Workers |-> [pc |-> "idle", copy |-> 0, stamp |-> 0]]
  /\ call = [c \in Calls |-> [pc |-> "idle", number |-> 0, stamp |-> 0]]

\* The next millisecond begins.
Tick ==
  /\ clock < MaxTime
  /\ clock' = clock + 1
  /\ UNCHANGED <<version, events, command, call>>

\* Random UUIDs: no two alike, in no order.
Stored == {events[n] : n \in 1 .. Len(events)}
Unused == Ids \ {e.id : e \in Stored}

-----------------------------------------------------------------------------
(* Commands: read the row, decide and stamp, save at the version read *)

ReadRun(w) ==
  /\ command[w].pc = "idle"
  /\ version < ReadyVersion
  /\ command' = [command EXCEPT ![w].pc = "deciding", ![w].copy = version]
  /\ UNCHANGED <<clock, version, events, call>>

\* All events of the transaction get one timestamp.
Stamp(w) ==
  /\ command[w].pc = "deciding"
  /\ command' = [command EXCEPT ![w].pc = "saving", ![w].stamp = clock]
  /\ UNCHANGED <<clock, version, events, call>>

\* Mutant: the row is saved whatever its version is by now.
SaveUnguarded(w) ==
  /\ command[w].pc = "saving"
  /\ version' = version + 1
  /\ \E id \in Unused :
       events' = Append(events, Stamped("run", version + 1, command[w].stamp, id))
  /\ command' = [command EXCEPT ![w].pc = "idle"]
  /\ UNCHANGED <<clock, call>>

\* One event or two.  A preflight goes on from the row it saved.
SaveRunWithAudits(w) ==
  /\ command[w].pc = "saving"
  /\ version = command[w].copy
  /\ version' = version + 1
  /\ \E i, j \in Unused :
       LET event(id) == Stamped("run", version + 1, command[w].stamp, id) IN
       events' = events \o IF i = j THEN <<event(i)>> ELSE <<event(i), event(j)>>
  /\ \/ command' = [command EXCEPT ![w].pc = "idle"]
     \/ /\ version + 1 < ReadyVersion
        /\ command' = [command EXCEPT ![w].pc = "deciding", ![w].copy = @ + 1]
  /\ UNCHANGED <<clock, call>>

VersionConflict(w) ==
  /\ command[w].pc = "saving"
  /\ version # command[w].copy
  /\ command' = [command EXCEPT ![w].pc = "idle"]
  /\ UNCHANGED <<clock, version, events, call>>

-----------------------------------------------------------------------------
(* Tool calls: TOOL_REQUESTED, then TOOL_DENIED or TOOL_ALLOWED and in the  *)
(* end TOOL_COMPLETED, each stamped before its transaction.                 *)

\* The call begins, or its last transaction, or its executor, has answered.
StampToolEvent(c) ==
  /\ call[c].pc \in {"idle", "deciding"}
  /\ version = ReadyVersion
  /\ call' = [call EXCEPT ![c].pc = "saving", ![c].stamp = clock]
  /\ UNCHANGED <<clock, version, events, command>>

AppendToolEvent(c) ==
  LET number == call[c].number + 1 IN
  /\ call[c].pc = "saving"
  /\ \E id \in Unused :
       events' = Append(events, Stamped(c, number, call[c].stamp, id))
  /\ \E pc \in {"deciding", "returned"} :
       /\ number = 1 => pc = "deciding"
       /\ number = 3 => pc = "returned"
       /\ call' = [call EXCEPT ![c].pc = pc, ![c].number = number]
  /\ UNCHANGED <<clock, version, command>>

Next ==
  \/ Tick
  \/ \E w \in Workers : \/ ReadRun(w) \/ Stamp(w)
                        \/ SaveRunWithAudits(w) \/ VersionConflict(w)
  \/ \E c \in Calls : StampToolEvent(c) \/ AppendToolEvent(c)

Spec == Init /\ [][Next]_vars

-----------------------------------------------------------------------------
(* Reading the trail *)

Before(e, f) ==
  \/ e.created_at < f.created_at
  \/ e.created_at = f.created_at /\ e.id < f.id

\* The n-th row of the answer is the one that n - 1 others come before.
findByRunId ==
  [n \in 1 .. Len(events) |->
     CHOOSE e \in Stored : Cardinality({f \in Stored : Before(f, e)}) = n - 1]

\* e is a reason for f: an earlier transaction of the run, or of the same call.
Causes(e, f) ==
  \/ e.source = "run" /\ f.source # "run"
  \/ e.source = f.source /\ e.number < f.number

\* A reader of the trail never finds an event after one it caused, unless both
\* bear one timestamp.  (Commands of concurrent workers stamp their events well
\* before they commit them; the version guard keeps the two orders together.)
TrailShowsCausesFirst ==
  LET trail == findByRunId IN
  \A m, n \in 1 .. Len(trail) :
    m < n /\ Causes(trail[n], trail[m]) => trail[m].created_at = trail[n].created_at
=============================================================================
