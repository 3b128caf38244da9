------------------------- MODULE MCHermesPartition -------------------------
(* A small instance of HermesPartition for TLC. *)
EXTENDS HermesPartition, TLC

\* A payload is a set of fields, its size their number, a merge their union.
MCData == {{"x"}, {"x", "y"}}
MCBytes(d) == Cardinality(d)
MCMerge(d, e) == d \cup e

\* "a:1" and "a:2" share the prefix "a"; "plain" carries no colon.
MCSources == {"a:1", "a:2", "plain"}
MCPrefixOf(s) == IF s = "plain" THEN "none" ELSE "a"

KeySymmetry == Permutations(Keys)
=============================================================================
