--------------------------- MODULE MCAgentSession ---------------------------
EXTENDS AgentSession, TLC

CONSTANTS Bodies \* of the definitions of one tool

\* The tool is granted or it is not, with documents that differ.
Granting == [tools |-> {"search"}, documents |-> {"editorial"}]
Revoking == [tools |-> {}, documents |-> {"editorial", "approved-memory"}]
TwoContents == {Granting, Revoking}

\* The one edit revokes the tool and adds a document.
GrantedAtFirst == \A ch \in Channels : history[ch] = <<Granting>>
MCInit == Init /\ GrantedAtFirst
MCSpec == MCInit /\ [][Next]_vars

SomeDefinitions == {[name |-> "search", valid |-> TRUE, body |-> b] : b \in Bodies}

Symmetry ==
  Permutations(Sessions) \cup Permutations(Runs) \cup Permutations(Channels)
    \cup Permutations(Bodies)
=============================================================================
