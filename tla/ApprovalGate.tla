--------------------------- MODULE ApprovalGate ---------------------------
(***************************************************************************)
(* What a governed call promises: it is asked for once, its Builder grants *)
(* or refuses it once, only a granted call has effects, and a call that    *)
(* was refused, given up or ended has no more of them.                     *)
(***************************************************************************)
EXTENDS Naturals

CONSTANTS Calls, MaxEffects

VARIABLES
  stage,   \* where each call stands
  effects  \* how many effects it has had

gvars == <<stage, effects>>

GInit ==
  /\ stage = [c \in Calls |-> "none"]
  /\ effects = [c \in Calls |-> 0]

(* The stages each stage leads on to; a call may end at any of them. *)
After == [none    |-> {"asked", "ended"},
          asked   |-> {"granted", "refused", "ended"},
          granted |-> {"ended"},
          refused |-> {"ended"},
          ended   |-> {}]

Advance(c) ==
  /\ \E s \in After[stage[c]] : stage' = [stage EXCEPT ![c] = s]
  /\ UNCHANGED effects

Perform(c) ==
  /\ stage[c] = "granted"
  /\ effects[c] < MaxEffects
  /\ effects' = [effects EXCEPT ![c] = @ + 1]
  /\ UNCHANGED stage

(* When the framework goes, any number of calls end at once. *)
GiveUp ==
  /\ \E lost \in SUBSET Calls :
       stage' = [c \in Calls |-> IF c \in lost THEN "ended" ELSE stage[c]]
  /\ UNCHANGED effects

GNext == GiveUp \/ \E c \in Calls : Advance(c) \/ Perform(c)

Gate == GInit /\ [][GNext]_gvars
=============================================================================
