------------------------ MODULE MCPermissionPrompts ------------------------
(***************************************************************************)
(* Two calls of any kind and change sets of two changes: a prompt takes    *)
(* the slot of another, a set is closed, superseded or disturbed between   *)
(* its changes while the other one asks or executes.                       *)
(***************************************************************************)
EXTENDS PermissionPrompts

CONSTANTS c1, c2
=============================================================================
