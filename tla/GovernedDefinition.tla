------------------------- MODULE GovernedDefinition -------------------------
(***************************************************************************)
(* What the governed mutation of an app definition promises, without       *)
(* calls, prompts, processes or files: a definition is clean, being        *)
(* mutated, or dirty.  It changes only while it is being mutated; it       *)
(* becomes clean again only when what is stored has been verified or is    *)
(* what was last clean; and a dirty one must be reset before the next      *)
(* mutation starts.                                                        *)
(***************************************************************************)
CONSTANT Items

VARIABLES
  standing,  \* "clean", "mutating" or "dirty"
  stored,    \* the definition in durable storage
  clean      \* the definition last declared clean

vars == <<standing, stored, clean>>

TypeOK ==
  /\ standing \in {"clean", "mutating", "dirty"}
  /\ stored \in SUBSET Items
  /\ clean \in SUBSET Items

Init ==
  /\ standing = "clean"
  /\ stored = {}
  /\ clean = {}

Begin ==
  /\ standing = "clean"
  /\ standing' = "mutating"
  /\ UNCHANGED <<stored, clean>>

Store ==
  /\ standing = "mutating"
  /\ stored' \in SUBSET Items
  /\ UNCHANGED <<standing, clean>>

\* The mutation ends well: the definition stored is declared clean.
Settle ==
  /\ standing = "mutating"
  /\ standing' = "clean"
  /\ clean' = stored
  /\ UNCHANGED stored

\* The mutation fails, or the framework process dies during it.
Doubt ==
  /\ standing = "mutating"
  /\ standing' = "dirty"
  /\ UNCHANGED <<stored, clean>>

Reset ==
  /\ standing = "dirty"
  /\ stored = clean
  /\ standing' = "clean"
  /\ UNCHANGED <<stored, clean>>

Next == Begin \/ Store \/ Settle \/ Doubt \/ Reset

Spec == Init /\ [][Next]_vars
=============================================================================
