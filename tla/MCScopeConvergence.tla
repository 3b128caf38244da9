------------------------- MODULE MCScopeConvergence -------------------------
EXTENDS ScopeConvergence

MCOrder == <<"dishes", "orders">>

MCMaxStamp == [s \in {"dishes", "orders"} |-> IF s = "dishes" THEN 2 ELSE 1]
=============================================================================
