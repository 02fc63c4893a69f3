--------------------------- MODULE GovernedSource ---------------------------
(***************************************************************************)
(* What the Code Change Lane promises of the Generated Application's       *)
(* source: a change takes hold of files nobody else is changing, and ends  *)
(* either kept, with a receipt that says so, or undone as if it had never  *)
(* been made.  Files no change is under way on hold what the receipts say. *)
(***************************************************************************)
CONSTANTS
  Paths,      \* the files of the source tree
  Contents    \* what a file may hold, "no such file" included

VARIABLES
  source,     \* the source tree
  recorded,   \* what the completed receipts say the source tree holds
  underway    \* the files a change is being made to

Tree == [Paths -> Contents]

Agree(s, t, F) == \A f \in F : s[f] = t[f]

Init ==
  /\ source \in Tree
  /\ recorded = source
  /\ underway = {}

\* The approved files are copied into the source.
Make(F) ==
  /\ F \cap underway = {}
  /\ source' \in Tree
  /\ Agree(source', source, Paths \ F)
  /\ underway' = underway \cup F
  /\ UNCHANGED recorded

\* The change is validated and its receipt recorded.
Keep(F) ==
  /\ F \subseteq underway
  /\ recorded' \in Tree
  /\ Agree(recorded', source, F)
  /\ Agree(recorded', recorded, Paths \ F)
  /\ underway' = underway \ F
  /\ UNCHANGED source

\* The validation failed: the files are what they were before.
Undo(F) ==
  /\ F \subseteq underway
  /\ source' \in Tree
  /\ Agree(source', recorded, F)
  /\ Agree(source', source, Paths \ F)
  /\ underway' = underway \ F
  /\ UNCHANGED recorded

Next == \E F \in SUBSET Paths : Make(F) \/ Keep(F) \/ Undo(F)

Spec == Init /\ [][Next]_<<source, recorded, underway>>
=============================================================================
