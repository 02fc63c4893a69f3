SPECIFICATION Spec
CONSTANTS
  c1 = c1
  c2 = c2
  a = a
  b = b
  Calls <- TwoCalls
  Items <- TwoItems
  Kinds <- AllKinds
  Repairers <- OneRepairer
  DirtyPosts = FALSE
  NoCall = NoCall
  NoSummary = NoSummary
INVARIANTS
  TypeOK
  WriterHeldByOneCall
  GuardCoversMutation
  CleanMeansTrusted
  MutationHasConsent
PROPERTIES
  DirtyBlocks
  ImplementsGoverned
SYMMETRY ItemSymmetry
