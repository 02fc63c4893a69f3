-------------------------- MODULE MCDevLifecycle --------------------------
(***************************************************************************)
(* Two callers that call again and again, and two processes: one that      *)
(* outlives its cycle, and the one of the next.                            *)
(***************************************************************************)
EXTENDS DevLifecycle

CONSTANTS c1, c2
=============================================================================
