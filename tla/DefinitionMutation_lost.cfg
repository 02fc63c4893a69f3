SPECIFICATION Spec
CONSTANTS
  c1 = c1
  c2 = c2
  a = a
  b = b
  Calls <- TwoCalls
  Items <- OneItem
  Kinds <- MutationKinds
  Repairers <- OneRepairer
  DirtyPosts = TRUE
  NoCall = NoCall
  NoSummary = NoSummary
INVARIANT
  CleanMeansTrusted
