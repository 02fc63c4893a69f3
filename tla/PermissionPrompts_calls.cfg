CONSTANTS
  c1 = c1
  c2 = c2
  Calls = {c1, c2}
  Modes = {"wait", "defer", "deploy"}
  Children = 2
  None = None
  Other = Other
SPECIFICATION FairSpec
INVARIANTS TypeOK StatusHonest OwnAnswer
PROPERTIES FinalStatus Consent EveryoneSettles
