-------------------------- MODULE MCChannelRuntime --------------------------
EXTENDS ChannelRuntime

\* What the parsers make of the bodies: a whole config, one whose editor
\* revoked tool t, one cut short while it is written, one copied from elsewhere.
AllConfigs ==
  [whole   |-> [verdict |-> "ok", tools |-> {"s", "t"}],
   revoked |-> [verdict |-> "ok", tools |-> {"s"}],
   cut     |-> [verdict |-> "invalid", tools |-> {}],
   foreign |-> [verdict |-> "foreign", tools |-> {"s", "t"}]]
DocumentBodies == [plain |-> {"s"}, wide |-> {"t", "u"}]

OneOfEach == [rules |-> <<"style">>, memory |-> <<"approved", "notes">>,
              skills |-> <<"research">>]

\* Anything in the channel that is loaded, whether the others are channels, and
\* strays that come and go.
SomeEdits ==
  {e \in {Loaded} \X Paths \X UNION {EntriesOf(p) : p \in Paths} :
     e[3] \in EntriesOf(e[2])} \cup
  (Channels \ (Strays \cup {Loaded})) \X {"config"} \X {"missing", "whole"} \cup
  Strays \X {"workspace"} \X {"dir", "missing"}
=============================================================================
