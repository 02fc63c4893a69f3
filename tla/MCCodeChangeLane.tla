-------------------------- MODULE MCCodeChangeLane --------------------------
(* Two calls over one draft: page and style are writable, registry is not. *)
EXTENDS CodeChangeLane, TLC

CONSTANTS c1, c2, d1, page, style, registry, old, new

MCBlank == [f \in Paths |-> old]

MCEdits == [d \in Drafts |-> Paths]

MCGuardrails ==
  [pre_proposal |-> <<"protected-paths-unchanged">>,
   pre_apply |-> <<"base-snapshot-unchanged", "command">>,
   post_apply |-> <<"command">>]

Symmetry == Permutations(Calls)
=============================================================================
