--------------------------- MODULE MCPolicyEngine ---------------------------
(* Small instances of PolicyEngine: policies that alarm and may also command, *)
(* that always do both, or of every kind.                                     *)
EXTENDS PolicyEngine

AlertOrBoth == {{"alert"}, {"alert", "control"}}
BothEffects == {{"alert", "control"}}
AnyEffects == SUBSET {"alert", "control"}
=============================================================================
