------------------------- MODULE MCRunOrchestrator -------------------------
EXTENDS RunOrchestrator

\* The limit changes while the channel is enabled, and the channel is switched
\* off and on at a limit of one.
ConfigEdits ==
  {[enabled |-> TRUE, maxActiveRuns |-> n] : n \in {1, 2}} \cup
  {[enabled |-> e, maxActiveRuns |-> 1] : e \in BOOLEAN}
=============================================================================
