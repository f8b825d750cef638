----------------------------- MODULE Production -----------------------------
(***************************************************************************)
(* The production of one episode by Mini M2, as far as the repository      *)
(* declares it: PRODUCTION_TRANSITIONS, a table no service uses yet.       *)
(* Whoever comes to move episodes asks canTransitionProductionState; any   *)
(* walk it allows is a behaviour here.                                     *)
(***************************************************************************)
EXTENDS FiniteSets, TLAPS

CONSTANT Episodes

VARIABLES
  state,      \* the ProductionState of each episode
  unreviewed, \* history: the work done on it since its last gate
  reviewed    \* history: the work that was done on it and came to a gate

vars == <<state, unreviewed, reviewed>>

Gates == {"WAITING_GATE_1", "WAITING_GATE_2", "WAITING_GATE_3"}
Work == {"TOPIC_RESEARCH", "CREATIVE_BRIEF", "TIMELINE_DRAFT", "RENDER_DRAFT",
         "THUMBNAIL", "PUBLISH_PACKAGE"}
Released == {"AWAITING_MANUAL_PUBLISH", "MEASUREMENT", "COMPLETED"}
ProductionState == Gates \cup Work \cup Released \cup {"PRECHECK", "REVISION_REQUIRED"}

PRODUCTION_TRANSITIONS ==
  ({"PRECHECK"} \X {"TOPIC_RESEARCH"}) \cup
  ({"TOPIC_RESEARCH"} \X {"CREATIVE_BRIEF"}) \cup
  ({"CREATIVE_BRIEF"} \X {"WAITING_GATE_1"}) \cup
  ({"WAITING_GATE_1"} \X {"TIMELINE_DRAFT", "REVISION_REQUIRED"}) \cup
  ({"TIMELINE_DRAFT"} \X {"RENDER_DRAFT"}) \cup
  ({"RENDER_DRAFT"} \X {"THUMBNAIL"}) \cup
  ({"THUMBNAIL"} \X {"WAITING_GATE_2"}) \cup
  ({"WAITING_GATE_2"} \X {"PUBLISH_PACKAGE", "REVISION_REQUIRED", "TIMELINE_DRAFT"}) \cup
  ({"PUBLISH_PACKAGE"} \X {"WAITING_GATE_3"}) \cup
  ({"WAITING_GATE_3"} \X
     {"AWAITING_MANUAL_PUBLISH", "REVISION_REQUIRED", "TIMELINE_DRAFT"}) \cup
  ({"AWAITING_MANUAL_PUBLISH"} \X {"MEASUREMENT"}) \cup
  ({"MEASUREMENT"} \X {"COMPLETED"}) \cup
  ({"REVISION_REQUIRED"} \X
     {"CREATIVE_BRIEF", "TIMELINE_DRAFT", "THUMBNAIL", "PUBLISH_PACKAGE"})

\* Mutant: a package that was reviewed once is published without gate 3.
CanSkipGate(from, to) ==
  \/ <<from, to>> \in PRODUCTION_TRANSITIONS
  \/ from = "PUBLISH_PACKAGE" /\ to = "AWAITING_MANUAL_PUBLISH"

\* Mutant: a thumbnail may send the episode back to its timeline.
CanRedraft(from, to) ==
  \/ <<from, to>> \in PRODUCTION_TRANSITIONS
  \/ from = "THUMBNAIL" /\ to = "TIMELINE_DRAFT"

canTransitionProductionState(from, to) == <<from, to>> \in PRODUCTION_TRANSITIONS

TypeOK ==
  /\ state \in [Episodes -> ProductionState]
  /\ unreviewed \in [Episodes -> SUBSET Work]
  /\ reviewed \in [Episodes -> SUBSET Work]

Init ==
  /\ state = [e \in Episodes |-> "PRECHECK"]
  /\ unreviewed = [e \in Episodes |-> {}]
  /\ reviewed = [e \in Episodes |-> {}]

\* Whoever waits at a gate sees the work done so far.
Move(e, to) ==
  /\ canTransitionProductionState(state[e], to)
  /\ state' = [state EXCEPT ![e] = to]
  /\ unreviewed' = [unreviewed EXCEPT ![e] =
       IF to \in Gates THEN {} ELSE @ \cup ({to} \cap Work)]
  /\ reviewed' = [reviewed EXCEPT ![e] =
       IF to \in Gates THEN @ \cup unreviewed[e] ELSE @]

Step(e) == \E to \in ProductionState : Move(e, to)
Next == \E e \in Episodes : Step(e)

Spec == Init /\ [][Next]_vars

\* Whoever moves the episodes keeps moving each of them.
FairSpec == Spec /\ \A e \in Episodes : WF_vars(Step(e))

-----------------------------------------------------------------------------

\* Nothing is released that was reworked after the last gate it passed, by
\* whatever detours through revisions, and a package was reviewed before.
ReleasedWasReviewed ==
  \A e \in Episodes : state[e] \in Released =>
    unreviewed[e] = {} /\ "PUBLISH_PACKAGE" \in reviewed[e]

\* No work goes round in circles without people: an episode that is never
\* completed comes to a gate again and again.
LoopsPassAGate ==
  \A e \in Episodes : <>(state[e] = "COMPLETED") \/ []<>(state[e] \in Gates)

-----------------------------------------------------------------------------

\* Once a package is being made there is no way around gate 3, and what was
\* released has passed it.
ReleaseInv ==
  /\ TypeOK
  /\ \A e \in Episodes :
       /\ state[e] \in Gates \cup Released => unreviewed[e] = {}
       /\ state[e] = "PUBLISH_PACKAGE" => "PUBLISH_PACKAGE" \in unreviewed[e]
       /\ state[e] \in {"WAITING_GATE_3"} \cup Released =>
            "PUBLISH_PACKAGE" \in reviewed[e]

\* Every walk the table allows, of any length, releases only what was reviewed.
THEOREM ReleaseFollowsReview == Spec => []ReleasedWasReviewed
<1> USE DEF ReleaseInv, TypeOK, ProductionState, Gates, Work, Released
<1>1. Init => ReleaseInv
  BY DEF Init
<1>2. ReleaseInv /\ [Next]_vars => ReleaseInv'
  <2>1. ASSUME ReleaseInv, NEW e \in Episodes, NEW to \in ProductionState, Move(e, to)
        PROVE  ReleaseInv'
    <3>1. TypeOK'
      BY <2>1 DEF Move
    <3>2. \A d \in Episodes \ {e} :
            state'[d] = state[d] /\ unreviewed'[d] = unreviewed[d] /\ reviewed'[d] = reviewed[d]
      BY <2>1 DEF Move
    <3>3. /\ <<state[e], to>> \in PRODUCTION_TRANSITIONS /\ state'[e] = to
          /\ unreviewed'[e] = IF to \in Gates THEN {} ELSE unreviewed[e] \cup ({to} \cap Work)
          /\ reviewed'[e] = IF to \in Gates THEN reviewed[e] \cup unreviewed[e] ELSE reviewed[e]
      BY <2>1 DEF Move, canTransitionProductionState
    <3>4. /\ to \in Released => state[e] \in {"WAITING_GATE_3"} \cup Released
          /\ to = "WAITING_GATE_3" => state[e] = "PUBLISH_PACKAGE"
      BY <3>3 DEF PRODUCTION_TRANSITIONS
    <3> QED BY <2>1, <3>1, <3>2, <3>3, <3>4
  <2>2. ASSUME ReleaseInv, UNCHANGED vars PROVE ReleaseInv'
    BY <2>2 DEF vars
  <2> QED BY <2>1, <2>2 DEF Next, Step
<1>3. ReleaseInv => ReleasedWasReviewed
  BY DEF ReleasedWasReviewed
<1> QED BY <1>1, <1>2, <1>3, PTL DEF Spec

-----------------------------------------------------------------------------

\* What may have been done since the last gate, where an episode is.
DoneBefore(s) ==
  CASE s = "TOPIC_RESEARCH" -> {"TOPIC_RESEARCH"}
    [] s = "CREATIVE_BRIEF" -> {"TOPIC_RESEARCH", "CREATIVE_BRIEF"}
    [] s = "TIMELINE_DRAFT" -> {"TIMELINE_DRAFT"}
    [] s = "RENDER_DRAFT" -> {"TIMELINE_DRAFT", "RENDER_DRAFT"}
    [] s = "THUMBNAIL" -> {"TIMELINE_DRAFT", "RENDER_DRAFT", "THUMBNAIL"}
    [] s = "PUBLISH_PACKAGE" -> {"PUBLISH_PACKAGE"}
    [] s \notin Work -> {}

WorkInv ==
  TypeOK /\ \A e \in Episodes : unreviewed[e] \subseteq DoneBefore(state[e])

\* Between two gates no piece of work is begun twice: why, of work that goes on,
\* some comes to a gate (LoopsPassAGate).
WorkOncePerGate ==
  [][\A e \in Episodes :
       state'[e] # state[e] => {state'[e]} \cap unreviewed[e] = {}]_vars

\* The table has no way round that leaves the gates out.
THEOREM NoWorkTwice == Spec => WorkOncePerGate
<1> USE DEF TypeOK, ProductionState, Gates, Work, Released
<1>1. Init => WorkInv
  BY DEF Init, WorkInv, DoneBefore
<1>2. ASSUME WorkInv, NEW e \in Episodes, NEW to \in ProductionState, Move(e, to)
      PROVE  /\ to \notin unreviewed[e]
             /\ WorkInv'
             /\ state'[e] = to
             /\ \A d \in Episodes \ {e} : state'[d] = state[d]
  <2>1. /\ <<state[e], to>> \in PRODUCTION_TRANSITIONS /\ state'[e] = to
        /\ unreviewed'[e] = IF to \in Gates THEN {} ELSE unreviewed[e] \cup ({to} \cap Work)
        /\ \A d \in Episodes \ {e} : state'[d] = state[d] /\ unreviewed'[d] = unreviewed[d]
    BY <1>2 DEF WorkInv, Move, canTransitionProductionState
  <2>2. unreviewed[e] \subseteq DoneBefore(state[e])
    BY <1>2 DEF WorkInv
  <2>3. /\ to \notin DoneBefore(state[e])
        /\ to \notin Gates => DoneBefore(state[e]) \cup ({to} \cap Work) \subseteq DoneBefore(to)
    BY <2>1 DEF PRODUCTION_TRANSITIONS, DoneBefore
  <2>4. TypeOK'
    BY <1>2 DEF WorkInv, Move
  <2> HIDE DEF TypeOK, Work, ProductionState, Gates, Released
  <2>5. unreviewed'[e] \subseteq DoneBefore(state'[e])
    BY <2>1, <2>2, <2>3
  <2> QED BY <1>2, <2>1, <2>2, <2>3, <2>4, <2>5 DEF WorkInv
<1>3. WorkInv /\ [Next]_vars =>
        /\ WorkInv'
        /\ [\A e \in Episodes :
              state'[e] # state[e] => {state'[e]} \cap unreviewed[e] = {}]_vars
  <2>1. WorkInv /\ UNCHANGED vars => WorkInv'
    BY DEF WorkInv, vars
  <2> QED BY <1>2, <2>1 DEF Next, Step
<1> QED BY <1>1, <1>3, PTL DEF Spec, WorkOncePerGate
=============================================================================
