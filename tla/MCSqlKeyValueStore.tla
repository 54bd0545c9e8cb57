------------------------- MODULE MCSqlKeyValueStore -------------------------
(* SqlKeyValueStore for TLC: callers are alike, and so are values. *)
EXTENDS SqlKeyValueStore, TLC

Symmetry == Permutations(Callers) \cup Permutations(Values)
=============================================================================
