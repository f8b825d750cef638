-------------------------- MODULE AuditTrailProofs --------------------------
(***************************************************************************)
(* Proof that no event of the audit log bears an earlier timestamp than    *)
(* one it was caused by, for any number of commands and tool calls, and    *)
(* what follows for a reader of the log.                                   *)
(*                                                                         *)
(* Timestamps are taken before the transaction that stores them, so that   *)
(* an old one may be stored late.  The invariant says which: a stamp that  *)
(* can still be stored is not older than what its source has stored, for   *)
(* the commands because only one that read the last version can save, and  *)
(* calls begin when no command can.                                        *)
(***************************************************************************)
EXTENDS AuditTrail, SequenceTheorems, FiniteSetTheorems, TLAPS

AuditEvent ==
  [source : {"run"} \cup Calls, number : Nat, created_at : Nat, id : Nat]

TrailTypes ==
  /\ clock \in Nat /\ version \in 0 .. ReadyVersion
  /\ events \in Seq(AuditEvent)
  /\ command \in [Workers -> [pc : {"idle", "deciding", "saving"}, copy : Nat, stamp : Nat]]
  /\ call \in [Calls -> [pc : {"idle", "deciding", "saving", "returned"}, number : Nat,
                         stamp : Nat]]

\* What is stored was stamped by now, and counted.
StoredCounted ==
  \A e \in Stored :
    /\ e.created_at <= clock
    /\ e.source = "run" => e.number <= version
    /\ e.source \in Calls => e.number \in 1 .. call[e.source].number

\* Who can still save has the last stamp of the run, and calls wait for that.
CommandsInTime ==
  \A w \in Workers : command[w].pc # "idle" =>
    /\ command[w].copy <= version /\ command[w].copy < ReadyVersion
    /\ command[w].pc = "saving" =>
         /\ command[w].stamp <= clock
         /\ command[w].copy = version =>
              \A e \in Stored : e.source = "run" => e.created_at <= command[w].stamp

CallsInTime ==
  \A c \in Calls :
    /\ call[c].pc # "idle" \/ call[c].number > 0 => version = ReadyVersion
    /\ call[c].pc = "saving" =>
         /\ call[c].stamp <= clock
         /\ \A e \in Stored : e.source \in {"run", c} => e.created_at <= call[c].stamp

CausesStampedFirst ==
  \A e, f \in Stored : Causes(e, f) => e.created_at <= f.created_at

\* No id is given twice.
IdsUnique ==
  \A m, n \in 1 .. Len(events) : events[m].id = events[n].id => m = n

TrailInv ==
  /\ TrailTypes
  /\ IdsUnique
  /\ StoredCounted
  /\ CommandsInTime
  /\ CallsInTime
  /\ CausesStampedFirst

-----------------------------------------------------------------------------

LEMMA StoredAppended ==
  ASSUME NEW new \in Seq(AuditEvent), events \in Seq(AuditEvent), events' = events \o new
  PROVE  /\ events' \in Seq(AuditEvent)
         /\ \A e \in Stored' : e \in Stored \/ \E n \in 1 .. Len(new) : e = new[n]
<1>1. /\ events' \in Seq(AuditEvent) /\ Len(events') = Len(events) + Len(new)
      /\ Len(events) \in Nat /\ Len(new) \in Nat
      /\ \A n \in 1 .. Len(events) : events'[n] = events[n]
      /\ \A n \in 1 .. Len(new) : events'[Len(events) + n] = new[n]
  OBVIOUS
<1>2. ASSUME NEW e \in Stored' PROVE e \in Stored \/ \E n \in 1 .. Len(new) : e = new[n]
  <2>1. PICK m \in 1 .. Len(events') : e = events'[m]
    BY DEF Stored
  <2>2. CASE m <= Len(events)
    BY <1>1, <2>1, <2>2 DEF Stored
  <2>3. CASE m > Len(events)
    <3>1. m - Len(events) \in 1 .. Len(new) /\ m = Len(events) + (m - Len(events))
      BY <1>1, <2>1, <2>3
    <3> QED BY <1>1, <2>1, <3>1
  <2> QED BY <1>1, <2>1, <2>2, <2>3
<1> QED BY <1>1, <1>2

LEMMA UniqueAppended ==
  ASSUME NEW new \in Seq(AuditEvent), events \in Seq(AuditEvent), events' = events \o new,
         IdsUnique,
         \A n \in 1 .. Len(new) : new[n].id \in Unused,
         \A m, n \in 1 .. Len(new) : new[m].id = new[n].id => m = n
  PROVE  IdsUnique'
<1>1. /\ Len(events') = Len(events) + Len(new)
      /\ Len(events) \in Nat /\ Len(new) \in Nat
      /\ \A n \in 1 .. Len(events) : events'[n] = events[n]
      /\ \A n \in 1 .. Len(new) : events'[Len(events) + n] = new[n]
  OBVIOUS
<1>2. \A n \in 1 .. Len(events') :
        \/ n \in 1 .. Len(events)
        \/ \E i \in 1 .. Len(new) : n = Len(events) + i
  <2> SUFFICES ASSUME NEW n \in 1 .. Len(events'), n > Len(events)
               PROVE  n - Len(events) \in 1 .. Len(new) /\ n = Len(events) + (n - Len(events))
    BY <1>1
  <2> QED BY <1>1
<1>3. \A n \in 1 .. Len(events), i \in 1 .. Len(new) : events[n].id # new[i].id
  BY DEF Unused, Stored
<1>4. SUFFICES ASSUME NEW m \in 1 .. Len(events'), NEW n \in 1 .. Len(events'),
                      events'[m].id = events'[n].id
               PROVE  m = n
  BY DEF IdsUnique
<1>5. CASE m \in 1 .. Len(events) /\ n \in 1 .. Len(events)
  BY <1>1, <1>4, <1>5 DEF IdsUnique
<1>6. ASSUME NEW i \in 1 .. Len(new), m = Len(events) + i, n \in 1 .. Len(events)
      PROVE  FALSE
  BY <1>1, <1>3, <1>4, <1>6
<1>7. ASSUME NEW i \in 1 .. Len(new), n = Len(events) + i, m \in 1 .. Len(events)
      PROVE  FALSE
  BY <1>1, <1>3, <1>4, <1>7
<1>8. ASSUME NEW i \in 1 .. Len(new), NEW j \in 1 .. Len(new),
             m = Len(events) + i, n = Len(events) + j
      PROVE  m = n
  <2>1. new[i].id = new[j].id
    BY <1>1, <1>4, <1>8
  <2> QED BY <1>8, <2>1
<1> QED BY <1>2, <1>5, <1>6, <1>7, <1>8

LEMMA TrailInit == Init => TrailInv
<1> SUFFICES ASSUME Init PROVE TrailInv
  OBVIOUS
<1>1. Stored = {}
  BY DEF Init, Stored
<1>2. TrailTypes
  BY TrailAssumption DEF Init, TrailTypes
<1>3. IdsUnique
  BY DEF Init, IdsUnique
<1> QED BY <1>1, <1>2, <1>3 DEF Init, TrailInv, StoredCounted, CommandsInTime, CallsInTime,
       CausesStampedFirst

LEMMA ChangedCommand ==
  ASSUME NEW k \in [pc : {"idle", "deciding", "saving"}, copy : Nat, stamp : Nat],
         NEW copy \in Nat
  PROVE  LET new == [k EXCEPT !.pc = "deciding", !.copy = copy]
         IN /\ new \in [pc : {"idle", "deciding", "saving"}, copy : Nat, stamp : Nat]
            /\ new.pc = "deciding" /\ new.copy = copy
  OBVIOUS

LEMMA ChangedCall ==
  ASSUME NEW k \in [pc : {"idle", "deciding", "saving", "returned"}, number : Nat,
                    stamp : Nat],
         NEW pc \in {"deciding", "returned"}, NEW number \in Nat
  PROVE  LET new == [k EXCEPT !.pc = pc, !.number = number]
         IN /\ new \in [pc : {"idle", "deciding", "saving", "returned"}, number : Nat,
                       stamp : Nat]
            /\ new.pc = pc /\ new.number = number
  OBVIOUS

LEMMA TrailStep == TrailInv /\ [Next]_vars => TrailInv'
<1> SUFFICES ASSUME TrailInv, [Next]_vars PROVE TrailInv'
  OBVIOUS
<1> USE TrailAssumption
<1>a. /\ TrailTypes /\ IdsUnique /\ StoredCounted /\ CommandsInTime /\ CallsInTime
      /\ CausesStampedFirst
  BY DEF TrailInv
<1>b. /\ \A w \in Workers : command[w].copy \in Nat /\ command[w].stamp \in Nat
      /\ \A c \in Calls : call[c].number \in Nat /\ call[c].stamp \in Nat
      /\ clock \in Nat /\ version \in Nat /\ version <= ReadyVersion
  BY <1>a DEF TrailTypes
<1>c. \A e \in Stored : e \in AuditEvent
  BY <1>a DEF TrailTypes, Stored
<1>1. CASE Tick
  <2>1. clock' = clock + 1 /\ UNCHANGED <<version, events, command, call>>
    BY <1>1 DEF Tick
  <2>2. Stored' = Stored
    BY <2>1 DEF Stored
  <2>3. TrailTypes' /\ IdsUnique'
    BY <1>a, <2>1 DEF TrailTypes, IdsUnique
  <2>4. StoredCounted' /\ CausesStampedFirst'
    BY <1>a, <1>b, <1>c, <2>1, <2>2 DEF StoredCounted, CausesStampedFirst, AuditEvent, Causes
  <2>5. CommandsInTime' /\ CallsInTime'
    BY <1>a, <1>b, <2>1, <2>2 DEF CommandsInTime, CallsInTime
  <2> QED BY <2>3, <2>4, <2>5 DEF TrailInv
<1>2. ASSUME NEW w \in Workers, ReadRun(w) \/ Stamp(w) \/ VersionConflict(w)
      PROVE  TrailInv'
  <2>1. UNCHANGED <<clock, version, events, call>>
    BY <1>2 DEF ReadRun, Stamp, VersionConflict
  <2>2. Stored' = Stored
    BY <2>1 DEF Stored
  <2>3. TrailTypes'
    <3>1. CASE ReadRun(w)
      BY <1>a, <1>b, <2>1, <3>1, ZenonT(40) DEF TrailTypes, ReadRun
    <3>2. CASE Stamp(w)
      BY <1>a, <1>b, <2>1, <3>2 DEF TrailTypes, Stamp
    <3>3. CASE VersionConflict(w)
      BY <1>a, <1>b, <2>1, <3>3, ZenonT(40) DEF TrailTypes, VersionConflict
    <3> QED BY <1>2, <3>1, <3>2, <3>3
  <2>4. StoredCounted' /\ CallsInTime' /\ CausesStampedFirst' /\ IdsUnique'
    BY <1>a, <2>1, <2>2 DEF StoredCounted, CallsInTime, CausesStampedFirst, Causes, IdsUnique
  <2>5. CommandsInTime'
    <3>1. \A v \in Workers \ {w} : command'[v] = command[v]
      BY <1>a, <1>2 DEF TrailTypes, ReadRun, Stamp, VersionConflict
    <3>2. CASE ReadRun(w)
      <4>1. command'[w].pc = "deciding" /\ command'[w].copy = version /\ version < ReadyVersion
        BY <1>a, <3>2 DEF TrailTypes, ReadRun
      <4> QED BY <1>a, <1>b, <2>1, <2>2, <3>1, <4>1 DEF CommandsInTime
    <3>3. CASE Stamp(w)
      <4>1. /\ command[w].pc = "deciding" /\ command'[w].copy = command[w].copy
            /\ command'[w].pc = "saving" /\ command'[w].stamp = clock
        BY <1>a, <3>3 DEF TrailTypes, Stamp
      <4> QED BY <1>a, <1>b, <2>1, <2>2, <3>1, <4>1 DEF CommandsInTime, StoredCounted
    <3>4. CASE VersionConflict(w)
      <4>1. command'[w].pc = "idle"
        BY <1>a, <3>4 DEF TrailTypes, VersionConflict
      <4> QED BY <1>a, <2>1, <2>2, <3>1, <4>1 DEF CommandsInTime
    <3> QED BY <1>2, <3>2, <3>3, <3>4
  <2> QED BY <2>3, <2>4, <2>5 DEF TrailInv
\* The version is the one that was read, so that no stamp of the run is later,
\* and no call has begun.
<1>3. ASSUME NEW w \in Workers, SaveRunWithAudits(w) PROVE TrailInv'
  <2>1. /\ command[w].pc = "saving" /\ version = command[w].copy
        /\ version' = version + 1 /\ UNCHANGED <<clock, call>>
    BY <1>3 DEF SaveRunWithAudits
  <2>2. version < ReadyVersion /\ command[w].stamp <= clock
        /\ \A e \in Stored : e.source = "run" => e.created_at <= command[w].stamp
    BY <1>a, <2>1 DEF CommandsInTime
  <2>3. \A c \in Calls : call[c].pc = "idle" /\ call[c].number = 0
    BY <1>a, <1>b, <2>2 DEF CallsInTime
  <2> DEFINE New(e) == /\ e \in AuditEvent /\ e.source = "run" /\ e.number = version + 1
                       /\ e.created_at = command[w].stamp
             event(id) == Stamped("run", version + 1, command[w].stamp, id)
  <2>4. /\ events' \in Seq(AuditEvent) /\ \A e \in Stored' : e \in Stored \/ New(e)
        /\ IdsUnique'
    <3>1. PICK i \in Unused, j \in Unused :
            events' = events \o IF i = j THEN <<event(i)>> ELSE <<event(i), event(j)>>
      BY <1>3 DEF SaveRunWithAudits
    <3>2. New(event(i)) /\ New(event(j))
      BY <1>b, <3>1 DEF AuditEvent, Stamped, Unused, Ids
    <3> DEFINE new == IF i = j THEN <<event(i)>> ELSE <<event(i), event(j)>>
    <3>3. /\ new \in Seq(AuditEvent) /\ \A n \in 1 .. Len(new) : New(new[n])
          /\ \A n \in 1 .. Len(new) : new[n].id \in Unused
          /\ \A m, n \in 1 .. Len(new) : new[m].id = new[n].id => m = n
      BY <3>2 DEF Stamped
    <3> HIDE DEF new, New
    <3>4. events' = events \o new
      BY <3>1 DEF new
    <3>6. IdsUnique'
      BY <1>a, <3>3, <3>4, UniqueAppended DEF TrailTypes
    <3>5. /\ events' \in Seq(AuditEvent)
          /\ \A e \in Stored' : e \in Stored \/ \E n \in 1 .. Len(new) : e = new[n]
      BY <1>a, <3>3, <3>4, StoredAppended DEF TrailTypes
    <3> QED BY <3>3, <3>5, <3>6
  <2>5. /\ \A v \in Workers \ {w} : command'[v] = command[v]
        /\ command' \in [Workers -> [pc : {"idle", "deciding", "saving"}, copy : Nat,
                                     stamp : Nat]]
        /\ \/ command'[w].pc = "idle"
           \/ /\ command'[w].pc = "deciding" /\ command'[w].copy = version + 1
              /\ version + 1 < ReadyVersion
    <3>1. \/ command' = [command EXCEPT ![w].pc = "idle"]
          \/ /\ version + 1 < ReadyVersion
             /\ command' = [command EXCEPT ![w].pc = "deciding", ![w].copy = @ + 1]
      BY <1>3 DEF SaveRunWithAudits
    <3>2. CASE command' = [command EXCEPT ![w].pc = "idle"]
      BY <1>a, <1>b, <3>2 DEF TrailTypes
    <3>3. CASE /\ version + 1 < ReadyVersion
               /\ command' = [command EXCEPT ![w].pc = "deciding", ![w].copy = @ + 1]
      <4>1. command[w] \in [pc : {"idle", "deciding", "saving"}, copy : Nat, stamp : Nat]
        BY <1>a DEF TrailTypes
      <4> DEFINE new == [command[w] EXCEPT !.pc = "deciding", !.copy = command[w].copy + 1]
      <4>2. /\ new \in [pc : {"idle", "deciding", "saving"}, copy : Nat, stamp : Nat]
            /\ new.pc = "deciding" /\ new.copy = version + 1
        <5>1. command[w].copy + 1 \in Nat /\ command[w].copy + 1 = version + 1
          BY <1>b, <2>1
        <5>2. /\ new \in [pc : {"idle", "deciding", "saving"}, copy : Nat, stamp : Nat]
              /\ new.pc = "deciding" /\ new.copy = command[w].copy + 1
          BY ONLY <4>1, <5>1, ChangedCommand
        <5> QED BY <5>1, <5>2
      <4>3. command' = [command EXCEPT ![w] = new]
        BY <3>3
      <4> HIDE DEF new
      <4> QED BY <1>a, <3>3, <4>2, <4>3 DEF TrailTypes
    <3> QED BY <3>1, <3>2, <3>3
  <2>6. TrailTypes'
    BY <1>a, <1>b, <2>1, <2>2, <2>4, <2>5 DEF TrailTypes
  <2>7. StoredCounted'
    BY <1>a, <1>b, <1>c, <2>1, <2>2, <2>4 DEF StoredCounted, AuditEvent
  <2>8. CommandsInTime'
    BY <1>a, <1>b, <2>1, <2>5 DEF CommandsInTime
  <2>9. CallsInTime'
    BY <1>a, <1>b, <2>1, <2>3 DEF CallsInTime
  <2>10. CausesStampedFirst'
    <3> SUFFICES ASSUME NEW e \in Stored', NEW f \in Stored', Causes(e, f)
                 PROVE  e.created_at <= f.created_at
      BY DEF CausesStampedFirst, Causes
    <3>1. \A x \in Stored : x.source = "run" /\ x.number <= version /\ x.number \in Nat
      <4> SUFFICES ASSUME NEW x \in Stored
                   PROVE  x.source = "run" /\ x.number <= version /\ x.number \in Nat
        OBVIOUS
      <4>1. x.source \in Calls => FALSE
        <5> SUFFICES ASSUME x.source \in Calls PROVE FALSE
          OBVIOUS
        <5> QED BY <1>a, <1>c, <2>3 DEF StoredCounted, AuditEvent
      <4> QED BY <1>a, <1>c, <4>1 DEF StoredCounted, AuditEvent
    <3>2. CASE e \in Stored /\ f \in Stored
      BY <1>a, <3>2 DEF CausesStampedFirst
    <3>3. CASE e \in Stored /\ New(f)
      BY <2>2, <3>1, <3>3
    <3>4. CASE New(e) /\ f \in Stored
      BY <1>b, <3>1, <3>4 DEF Causes
    <3>5. CASE New(e) /\ New(f)
      BY <1>b, <3>5 DEF Causes
    <3> QED BY <2>4, <3>2, <3>3, <3>4, <3>5
  <2> QED BY <2>4, <2>6, <2>7, <2>8, <2>9, <2>10 DEF TrailInv
\* The clock is read when all that causes the event is stored.
<1>4. ASSUME NEW c \in Calls, StampToolEvent(c) PROVE TrailInv'
  <2>1. /\ UNCHANGED <<clock, version, events, command>> /\ version = ReadyVersion
        /\ call' = [call EXCEPT ![c].pc = "saving", ![c].stamp = clock]
    BY <1>4 DEF StampToolEvent
  <2>2. Stored' = Stored
    BY <2>1 DEF Stored
  <2>3. /\ \A d \in Calls \ {c} : call'[d] = call[d]
        /\ call'[c].pc = "saving" /\ call'[c].stamp = clock
        /\ \A d \in Calls : call'[d].number = call[d].number
    BY <1>a, <2>1 DEF TrailTypes
  <2>4. TrailTypes'
    BY <1>a, <1>b, <2>1, ZenonT(40) DEF TrailTypes
  <2>5. StoredCounted' /\ CommandsInTime' /\ CausesStampedFirst' /\ IdsUnique'
    BY <1>a, <2>1, <2>2, <2>3
       DEF StoredCounted, CommandsInTime, CausesStampedFirst, Causes, IdsUnique
  <2>6. CallsInTime'
    <3> SUFFICES ASSUME NEW d \in Calls
                 PROVE  /\ call'[d].pc # "idle" \/ call'[d].number > 0 => version = ReadyVersion
                        /\ call'[d].pc = "saving" =>
                             /\ call'[d].stamp <= clock
                             /\ \A e \in Stored :
                                  e.source \in {"run", d} => e.created_at <= call'[d].stamp
      BY <2>1, <2>2 DEF CallsInTime
    <3>1. CASE d = c
      <4>1. \A e \in Stored : e.created_at <= clock
        BY <1>a DEF StoredCounted
      <4>2. call'[d].stamp = clock /\ clock <= clock
        BY <1>b, <2>3, <3>1
      <4> QED BY <2>1, <4>1, <4>2
    <3>2. CASE d # c
      BY <1>a, <2>1, <2>3, <3>2 DEF CallsInTime
    <3> QED BY <3>1, <3>2
  <2> QED BY <2>4, <2>5, <2>6 DEF TrailInv
<1>5. ASSUME NEW c \in Calls, AppendToolEvent(c) PROVE TrailInv'
  <2> DEFINE number == call[c].number + 1
  <2>1. /\ UNCHANGED <<clock, version, command>> /\ call[c].pc = "saving"
        /\ \E pc \in {"deciding", "returned"} :
             call' = [call EXCEPT ![c].pc = pc, ![c].number = number]
    BY <1>5 DEF AppendToolEvent
  <2>2. /\ version = ReadyVersion /\ call[c].stamp <= clock
        /\ \A e \in Stored : e.source \in {"run", c} => e.created_at <= call[c].stamp
    BY <1>a, <2>1 DEF CallsInTime
  <2> DEFINE New(e) == /\ e \in AuditEvent /\ e.source = c /\ e.number = number
                       /\ e.created_at = call[c].stamp
  <2>3. /\ events' \in Seq(AuditEvent) /\ \A e \in Stored' : e \in Stored \/ New(e)
        /\ IdsUnique'
    <3>1. PICK id \in Unused : events' = Append(events, Stamped(c, number, call[c].stamp, id))
      BY <1>5 DEF AppendToolEvent
    <3> DEFINE new == <<Stamped(c, number, call[c].stamp, id)>>
    <3>2. New(Stamped(c, number, call[c].stamp, id))
      BY <1>b, <3>1 DEF AuditEvent, Stamped, Unused, Ids
    <3>3. /\ new \in Seq(AuditEvent) /\ \A n \in 1 .. Len(new) : New(new[n])
          /\ \A n \in 1 .. Len(new) : new[n].id \in Unused
          /\ \A m, n \in 1 .. Len(new) : new[m].id = new[n].id => m = n
      BY <3>2 DEF Stamped
    <3>4. events' = events \o new
      BY <1>a, <3>1, <3>2 DEF TrailTypes
    <3> HIDE DEF new, New
    <3>6. IdsUnique'
      BY <1>a, <3>3, <3>4, UniqueAppended DEF TrailTypes
    <3>5. /\ events' \in Seq(AuditEvent)
          /\ \A e \in Stored' : e \in Stored \/ \E n \in 1 .. Len(new) : e = new[n]
      BY <1>a, <3>3, <3>4, StoredAppended DEF TrailTypes
    <3> QED BY <3>3, <3>5, <3>6
  <2>4. /\ \A d \in Calls \ {c} : call'[d] = call[d]
        /\ call'[c].number = number /\ call'[c].pc \in {"deciding", "returned"}
        /\ call' \in [Calls -> [pc : {"idle", "deciding", "saving", "returned"},
                                number : Nat, stamp : Nat]]
    <3>1. PICK pc \in {"deciding", "returned"} :
            call' = [call EXCEPT ![c] = [call[c] EXCEPT !.pc = pc, !.number = number]]
      BY <2>1
    <3>2. call[c] \in [pc : {"idle", "deciding", "saving", "returned"}, number : Nat,
                       stamp : Nat]
      BY <1>a DEF TrailTypes
    <3> DEFINE new == [call[c] EXCEPT !.pc = pc, !.number = number]
    <3>3. /\ new \in [pc : {"idle", "deciding", "saving", "returned"}, number : Nat,
                     stamp : Nat]
          /\ new.pc = pc /\ new.number = number
      <4>1. number \in Nat
        BY <1>b
      <4> HIDE DEF number
      <4> QED BY ONLY <3>1, <3>2, <4>1, ChangedCall
    <3>4. call' = [call EXCEPT ![c] = new]
      BY <3>1
    <3> HIDE DEF new, number
    <3> QED BY <1>a, <3>1, <3>3, <3>4 DEF TrailTypes
  <2>5. TrailTypes'
    BY <1>a, <2>1, <2>3, <2>4 DEF TrailTypes
  <2>6. StoredCounted'
    BY <1>a, <1>b, <1>c, <2>1, <2>2, <2>3, <2>4 DEF StoredCounted, AuditEvent
  <2>7. CommandsInTime'
    BY <1>a, <1>b, <2>1, <2>2 DEF CommandsInTime
  <2>8. CallsInTime'
    <3> SUFFICES ASSUME NEW d \in Calls
                 PROVE  /\ call'[d].pc # "idle" \/ call'[d].number > 0 => version = ReadyVersion
                        /\ call'[d].pc = "saving" =>
                             /\ call'[d].stamp <= clock
                             /\ \A e \in Stored' :
                                  e.source \in {"run", d} => e.created_at <= call'[d].stamp
      BY <2>1 DEF CallsInTime
    <3>1. CASE d = c
      BY <2>2, <2>4, <3>1
    <3>2. CASE d # c
      <4>1. \A e \in Stored' : e.source \in {"run", d} => e \in Stored
        BY <2>3, <3>2
      <4> QED BY <1>a, <2>2, <2>4, <3>2, <4>1 DEF CallsInTime
    <3> QED BY <3>1, <3>2
  <2>9. CausesStampedFirst'
    <3> SUFFICES ASSUME NEW e \in Stored', NEW f \in Stored', Causes(e, f)
                 PROVE  e.created_at <= f.created_at
      BY DEF CausesStampedFirst, Causes
    <3>2. CASE e \in Stored /\ f \in Stored
      BY <1>a, <3>2 DEF CausesStampedFirst
    <3>3. CASE e \in Stored /\ New(f)
      BY <2>2, <3>3 DEF Causes
    <3>4. CASE New(e) /\ f \in Stored
      BY <1>a, <1>b, <1>c, <3>4 DEF Causes, StoredCounted, AuditEvent
    <3>5. CASE New(e) /\ New(f)
      BY <1>b, <3>5 DEF Causes
    <3> QED BY <2>3, <3>2, <3>3, <3>4, <3>5
  <2> QED BY <2>3, <2>5, <2>6, <2>7, <2>8, <2>9 DEF TrailInv
<1>6. CASE UNCHANGED vars
  <2>1. Stored' = Stored /\ UNCHANGED <<clock, version, events, command, call>>
    BY <1>6 DEF vars, Stored
  <2> QED BY <1>a, <2>1 DEF TrailInv, TrailTypes, IdsUnique, StoredCounted, CommandsInTime, CallsInTime,
          CausesStampedFirst, Causes
<1> QED BY <1>1, <1>2, <1>3, <1>4, <1>5, <1>6 DEF Next

-----------------------------------------------------------------------------
(* The theorems *)

\* No stamp that can still be stored is too old.
THEOREM TrailInvariant == Spec => []TrailInv
<1>1. Init => TrailInv
  BY TrailInit
<1>2. TrailInv /\ [Next]_vars => TrailInv'
  BY TrailStep
<1> QED BY <1>1, <1>2, PTL DEF Spec

\* Stamps are taken before the commit and never contradict the causes of what
\* they are on (saveRunWithAudits, updateToolCallWithAudit).
THEOREM CausesBearEarlierStamps == Spec => []CausesStampedFirst
<1>1. TrailInv => CausesStampedFirst
  BY DEF TrailInv
<1> QED BY <1>1, TrailInvariant, PTL

\* What a query that orders by created_at and id may answer.
Answers(trail) ==
  /\ \A n \in 1 .. Len(trail) : trail[n] \in Stored
  /\ \A m, n \in 1 .. Len(trail) : m < n => ~Before(trail[n], trail[m])

ShowsCausesFirst(trail) ==
  \A m, n \in 1 .. Len(trail) :
    m < n /\ Causes(trail[n], trail[m]) => trail[m].created_at = trail[n].created_at

LEMMA SortedShowsCauses ==
  ASSUME TrailInv, NEW trail \in Seq(AuditEvent), Answers(trail)
  PROVE  ShowsCausesFirst(trail)
<1> SUFFICES ASSUME NEW m \in 1 .. Len(trail), NEW n \in 1 .. Len(trail),
                    m < n, Causes(trail[n], trail[m])
             PROVE  trail[m].created_at = trail[n].created_at
  BY DEF ShowsCausesFirst
<1>1. trail[n].created_at <= trail[m].created_at
  BY DEF Answers, TrailInv, CausesStampedFirst
<1>2. ~(trail[n].created_at < trail[m].created_at)
  BY DEF Answers, Before
<1>3. trail[m] \in AuditEvent /\ trail[n] \in AuditEvent
  OBVIOUS
<1> QED BY <1>1, <1>2, <1>3 DEF AuditEvent

\* Whichever way the database sorts, no event of the answer comes after one it
\* caused, unless both bear one timestamp (findByRunId).
THEOREM AnswersShowCausesFirst ==
  Spec => [](\A trail \in Seq(AuditEvent) : Answers(trail) => ShowsCausesFirst(trail))
<1>1. TrailInv => \A trail \in Seq(AuditEvent) : Answers(trail) => ShowsCausesFirst(trail)
  BY SortedShowsCauses
<1> QED BY <1>1, TrailInvariant, PTL

-----------------------------------------------------------------------------
(* What findByRunId answers *)

\* Before puts any two events with different ids in one order.
LEMMA BeforeOrders ==
  /\ \A e \in AuditEvent : ~Before(e, e)
  /\ \A e, f \in AuditEvent : e.id # f.id => Before(e, f) \/ Before(f, e)
  /\ \A e, f, g \in AuditEvent : Before(e, f) /\ Before(f, g) => Before(e, g)
BY DEF Before, AuditEvent

Earliest(e) == {f \in Stored : Before(f, e)}

\* As many events are stored as were inserted, and they are finitely many.
LEMMA StoredFinite ==
  ASSUME TrailInv
  PROVE  /\ IsFiniteSet(Stored) /\ Cardinality(Stored) = Len(events)
         /\ Len(events) \in Nat /\ Stored \subseteq AuditEvent
         /\ \A e, f \in Stored : e.id = f.id => e = f
<1>1. Len(events) \in Nat /\ Stored \subseteq AuditEvent
  BY DEF TrailInv, TrailTypes, Stored
<1> DEFINE listed == [n \in 1 .. Len(events) |-> events[n]]
<1>2. listed \in Bijection(1 .. Len(events), Stored)
  <2>1. listed \in [1 .. Len(events) -> Stored]
    BY DEF Stored
  <2>2. \A m, n \in 1 .. Len(events) : listed[m] = listed[n] => m = n
    BY DEF TrailInv, IdsUnique
  <2>3. \A e \in Stored : \E n \in 1 .. Len(events) : listed[n] = e
    BY DEF Stored
  <2> HIDE DEF listed
  <2> QED BY <2>1, <2>2, <2>3 DEF Bijection, Injection, IsInjective, Surjection
<1>3. ExistsBijection(1 .. Len(events), Stored)
  BY <1>2 DEF ExistsBijection
<1>4. IsFiniteSet(1 .. Len(events)) /\ Cardinality(1 .. Len(events)) = Len(events)
  BY <1>1, FS_Interval, SMTT(40)
<1>5. IsFiniteSet(Stored) /\ Cardinality(Stored) = Len(events)
  BY <1>3, <1>4, FS_Bijection
<1> QED BY <1>1, <1>5 DEF TrailInv, IdsUnique, Stored

\* Every place of the answer has its event: the one that as many come before.
LEMMA EveryPlaceTaken ==
  ASSUME TrailInv, NEW n \in 1 .. Len(events)
  PROVE  \E e \in Stored : Cardinality(Earliest(e)) = n - 1
<1> DEFINE N == Len(events)
           place == [e \in Stored |-> Cardinality(Earliest(e)) + 1]
<1>1. /\ IsFiniteSet(Stored) /\ Cardinality(Stored) = N /\ N \in Nat
      /\ Stored \subseteq AuditEvent /\ \A e, f \in Stored : e.id = f.id => e = f
  BY StoredFinite
<1>2. ASSUME NEW e \in Stored
      PROVE  /\ IsFiniteSet(Earliest(e)) /\ Cardinality(Earliest(e)) \in Nat
             /\ Cardinality(Earliest(e)) < N
  <2>1. Earliest(e) \in SUBSET Stored /\ Earliest(e) # Stored
    BY <1>1, BeforeOrders DEF Earliest
  <2>2. /\ IsFiniteSet(Earliest(e)) /\ Cardinality(Earliest(e)) <= N
        /\ Cardinality(Earliest(e)) # N
    BY <1>1, <2>1, FS_Subset
  <2> QED BY <1>1, <2>2, FS_CardinalityType
<1>3. ASSUME NEW e \in Stored, NEW f \in Stored, Before(e, f)
      PROVE  Cardinality(Earliest(e)) # Cardinality(Earliest(f))
  <2>1. Earliest(e) \in SUBSET Earliest(f) /\ Earliest(e) # Earliest(f)
    BY <1>1, <1>3, BeforeOrders DEF Earliest
  <2> QED BY <1>2, <2>1, FS_Subset
<1>4. place \in [Stored -> 1 .. N]
  BY <1>1, <1>2
<1>5. ASSUME NEW e \in Stored, NEW f \in Stored, place[e] = place[f]
      PROVE  e = f
  <2>1. Cardinality(Earliest(e)) = Cardinality(Earliest(f))
    BY <1>2, <1>5
  <2>2. ~Before(e, f) /\ ~Before(f, e)
    BY <1>3, <2>1
  <2> QED BY <1>1, <2>2, BeforeOrders
<1> HIDE DEF place
<1>6. place \in Injection(Stored, 1 .. N)
  BY <1>4, <1>5 DEF Injection, IsInjective
<1>7. IsFiniteSet(1 .. N) /\ Cardinality(1 .. N) = N
  BY <1>1, FS_Interval
<1>8. place \in Surjection(Stored, 1 .. N)
  BY <1>1, <1>6, <1>7, FS_Injection
<1>9. PICK e \in Stored : place[e] = n
  BY <1>8 DEF Surjection
<1> QED BY <1>2, <1>9 DEF place

\* findByRunId gives back stored events, in the order asked for.
LEMMA AnswerSorted ==
  ASSUME TrailInv
  PROVE  findByRunId \in Seq(AuditEvent) /\ Len(findByRunId) = Len(events)
         /\ Answers(findByRunId)
<1> DEFINE N == Len(events)
           At(n) == CHOOSE e \in Stored : Cardinality(Earliest(e)) = n - 1
<1>1. /\ IsFiniteSet(Stored) /\ N \in Nat /\ Stored \subseteq AuditEvent
  BY StoredFinite
<1>2. findByRunId = [n \in 1 .. N |-> At(n)]
  BY DEF findByRunId, Earliest
<1>3. \A n \in 1 .. N : At(n) \in Stored /\ Cardinality(Earliest(At(n))) = n - 1
  BY EveryPlaceTaken
<1> HIDE DEF At
<1>4. /\ findByRunId \in Seq(AuditEvent) /\ Len(findByRunId) = N
      /\ \A n \in 1 .. N : findByRunId[n] = At(n)
  BY <1>1, <1>2, <1>3
<1>5. ASSUME NEW m \in 1 .. N, NEW n \in 1 .. N, m < n, Before(At(n), At(m))
      PROVE  FALSE
  <2>1. Earliest(At(n)) \in SUBSET Earliest(At(m))
    BY <1>1, <1>3, <1>5, BeforeOrders DEF Earliest
  <2>2. IsFiniteSet(Earliest(At(m)))
    <3>1. Earliest(At(m)) \in SUBSET Stored
      BY DEF Earliest
    <3> QED BY <1>1, <3>1, FS_Subset
  <2>3. Cardinality(Earliest(At(n))) <= Cardinality(Earliest(At(m)))
    BY <2>1, <2>2, FS_Subset
  <2> QED BY <1>3, <1>5, <2>3
<1> QED BY <1>3, <1>4, <1>5 DEF Answers

\* The audit trail of a run, as findByRunId gives it back, shows no event after
\* one it caused, unless both bear one timestamp.
THEOREM TrailsShowCausesFirst == Spec => []TrailShowsCausesFirst
<1>1. TrailInv => TrailShowsCausesFirst
  <2> SUFFICES ASSUME TrailInv PROVE ShowsCausesFirst(findByRunId)
    BY DEF TrailShowsCausesFirst, ShowsCausesFirst
  <2> QED BY AnswerSorted, SortedShowsCauses
<1> QED BY <1>1, TrailInvariant, PTL
=============================================================================
