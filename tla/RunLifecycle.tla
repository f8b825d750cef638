---------------------------- MODULE RunLifecycle ----------------------------
(***************************************************************************)
(* The life of a Harness Run as harness/run/ declares it: the states, the  *)
(* legal transitions and the states that occupy a slot of the channel.     *)
(***************************************************************************)
EXTENDS Naturals

RunStates ==
  {"SCHEDULED", "QUEUED", "PREFLIGHT", "RUNNING_STEP", "WAITING_GATE",
   "NEEDS_REVISION", "AWAITING_MANUAL_PUBLISH", "MEASURING", "COMPLETED",
   "PAUSED", "BLOCKED", "FAILED_RECOVERABLE", "FAILED_FINAL"}

\* "none" is the null current_step of a Run that is not in a step.
RunSteps ==
  {"none", "PRECHECK", "TOPIC_RESEARCH", "CREATIVE_BRIEF", "TIMELINE",
   "DRAFT_REVIEW", "RELEASE_PACKAGE", "MEASUREMENT"}

RunTransitions ==
  UNION {
    {"SCHEDULED", "PAUSED", "BLOCKED", "FAILED_RECOVERABLE"} \X {"QUEUED"},
    {"QUEUED"} \X {"PREFLIGHT"},
    {"PREFLIGHT"} \X {"RUNNING_STEP", "BLOCKED", "PAUSED",
                      "FAILED_RECOVERABLE", "FAILED_FINAL"},
    {"RUNNING_STEP"} \X {"RUNNING_STEP", "WAITING_GATE", "PAUSED", "BLOCKED",
                         "FAILED_RECOVERABLE", "FAILED_FINAL",
                         "AWAITING_MANUAL_PUBLISH"},
    {"WAITING_GATE"} \X {"RUNNING_STEP", "NEEDS_REVISION", "PAUSED"},
    {"NEEDS_REVISION"} \X {"RUNNING_STEP", "PAUSED"},
    {"AWAITING_MANUAL_PUBLISH"} \X {"MEASURING"},
    {"MEASURING"} \X {"COMPLETED"} }

\* Mutant: a run may be queued again while its preflight is under way.
CanRequeueInPreflight(from, to) ==
  <<from, to>> \in RunTransitions \cup {<<"PREFLIGHT", "QUEUED">>}

CanTransitionRun(from, to) == <<from, to>> \in RunTransitions

\* The states that occupy one of the channel's max_active_runs slots.
ActiveRunStates ==
  {"QUEUED", "PREFLIGHT", "RUNNING_STEP", "WAITING_GATE", "NEEDS_REVISION",
   "AWAITING_MANUAL_PUBLISH", "MEASURING"}

\* Mutant: a run in preflight is not counted.
ConsumesOnceRunning(state) == state \in ActiveRunStates \ {"PREFLIGHT"}

ConsumesChannelCapacity(state) == state \in ActiveRunStates
=============================================================================
