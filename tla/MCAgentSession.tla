--------------------------- MODULE MCAgentSession ---------------------------
EXTENDS AgentSession

CONSTANTS s1, c1, small

GenuineForms ==
  {[id |-> id, token |-> id, key |-> id, body |-> b] : id \in Snapshot, b \in Content}

Scripts == {<<"garbage", c1, "request">>, <<"notification", "overlong">>}
=============================================================================
