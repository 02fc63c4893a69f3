------------------------- MODULE MCReleaseRollout -------------------------
(* Two operations at a time on an app with three versions, of which v1 and *)
(* v2 share the name of their container, as V1 and v1 would.               *)
EXTENDS ReleaseRollout, TLC

CONSTANTS c1, c2, v1, v2, v3, shared, own

MCNameOf == [v \in Versions |-> IF v = v3 THEN own ELSE shared]

Symmetry == Permutations(Callers) \cup Permutations({v1, v2})
=============================================================================
