------------------------- MODULE MCDevelopmentPair --------------------------
(* Values for model checking DevelopmentPair: a first pair; its runtime    *)
(* with other assets; its connector replaced; and both replaced.           *)
EXTENDS DevelopmentPair

MCPairs == {"first", "assets", "connector", "both"}
MCSource == [p \in MCPairs |-> IF p = "both" THEN "s2" ELSE "s1"]
MCBundle == [first |-> "b1", assets |-> "b2", connector |-> "b1", both |-> "b3"]
MCConnector == [p \in MCPairs |-> IF p \in {"connector", "both"} THEN "c2" ELSE "c1"]
=============================================================================
