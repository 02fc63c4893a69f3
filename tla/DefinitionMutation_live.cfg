SPECIFICATION FairSpec
CONSTANTS
  c1 = c1
  c2 = c2
  a = a
  b = b
  Calls <- TwoCalls
  Items <- TwoItems
  Kinds <- MutationKinds
  Repairers <- OneRepairer
  DirtyPosts = TRUE
  NoCall = NoCall
  NoSummary = NoSummary
INVARIANT
  LivePromptsAnswerable
PROPERTY
  WriterReleased
