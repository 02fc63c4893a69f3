--------------------------- MODULE MCAppHistory ---------------------------
(* Instances of AppHistory for TLC. *)
EXTENDS AppHistory, TLC

CONSTANTS table, column, operation, view, rule, setting

MCKind == [d \in Defs |-> CASE d = table -> "table" [] d = column -> "column"
                            [] d = operation -> "operation" [] d = view -> "view"
                            [] d = rule -> "rule" [] d = setting -> "setting"]
MCOn == [d \in Defs |-> CASE d = column -> table [] d = view -> operation [] OTHER -> Base]
Symmetry == Permutations(Rows) \cup Permutations(Callers)
=============================================================================
