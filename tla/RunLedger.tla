----------------------------- MODULE RunLedger -----------------------------
(***************************************************************************)
(* What RunOrchestrator promises, whatever its commands do between their   *)
(* awaits: one entry per run that moves in single legal steps, a slot of   *)
(* the channel that is reserved and occupied within capacity, and a        *)
(* checkpoint that appears with the step that makes the run ready.  There  *)
(* are no commands here, no copies, versions read earlier or config files. *)
(***************************************************************************)
EXTENDS RunLifecycle, Sequences, FiniteSets

CONSTANTS RunIds, ChannelIds, Limits, ReadyCheckpoint

VARIABLES
  entry,       \* the channel and state of each run, and how often it moved
  slot,        \* the limit under which a run holds a slot: {} or one limit
  checkpoints  \* what is stored for each run to resume from

ledger == <<entry, slot, checkpoints>>

NoEntry == [channel |-> "none", state |-> "ABSENT", moves |-> 0]

Init ==
  /\ entry = [r \in RunIds |-> NoEntry]
  /\ slot = [r \in RunIds |-> {}]
  /\ checkpoints = [r \in RunIds |-> <<>>]

\* The runs of r's channel that hold a slot besides r.
OtherHolders(r) ==
  {q \in RunIds \ {r} : entry[q].channel = entry[r].channel /\ slot[q] # {}}

MoveTo(r, state) ==
  entry' = [entry EXCEPT ![r] = [channel |-> @.channel, state |-> state,
                                 moves |-> @.moves + 1]]

Create(r, ch) ==
  /\ entry[r] = NoEntry
  /\ entry' = [entry EXCEPT ![r] =
                 [channel |-> ch, state |-> "SCHEDULED", moves |-> 1]]
  /\ UNCHANGED <<slot, checkpoints>>

\* Any legal move that does not make the run ready gives its slot up.
Move(r, state) ==
  /\ state # "RUNNING_STEP"
  /\ CanTransitionRun(entry[r].state, state)
  /\ MoveTo(r, state)
  /\ slot' = [slot EXCEPT ![r] = {}]
  /\ UNCHANGED checkpoints

Reserve(r, limit) ==
  /\ entry[r].state = "PREFLIGHT"
  /\ slot[r] = {}
  /\ Cardinality(OtherHolders(r)) < limit
  /\ slot' = [slot EXCEPT ![r] = {limit}]
  /\ UNCHANGED <<entry, checkpoints>>

\* The reservation lapses when the command that holds it is lost.
Lapse(r) ==
  /\ entry[r].state = "PREFLIGHT"
  /\ slot' = [slot EXCEPT ![r] = {}]
  /\ UNCHANGED <<entry, checkpoints>>

Start(r) ==
  /\ entry[r].state = "PREFLIGHT"
  /\ slot[r] # {}
  /\ MoveTo(r, "RUNNING_STEP")
  /\ checkpoints' = [checkpoints EXCEPT ![r] = Append(@, ReadyCheckpoint)]
  /\ UNCHANGED slot

Next ==
  \E r \in RunIds :
    \/ \E ch \in ChannelIds : Create(r, ch)
    \/ \E state \in RunStates : Move(r, state)
    \/ \E limit \in Limits : Reserve(r, limit)
    \/ Lapse(r)
    \/ Start(r)

Spec == Init /\ [][Next]_ledger
=============================================================================
