----------------------- MODULE MCDefinitionMutation -----------------------
(***************************************************************************)
(* Instances of DefinitionMutation for TLC.                                *)
(***************************************************************************)
EXTENDS DefinitionMutation, TLC

CONSTANTS c1, c2, a, b

TwoCalls == {c1, c2}
OneRepairer == {c1}
TwoItems == {a, b}
OneItem == {a}
MutationKinds == AllKinds \ {"prepare"}

ItemSymmetry == Permutations(TwoItems)
=============================================================================
