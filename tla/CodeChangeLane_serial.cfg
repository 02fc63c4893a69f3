SPECIFICATION Spec
CONSTANTS
  c1 = c1  c2 = c2  d1 = d1
  page = page  style = style  registry = registry
  old = old  new = new
  NotTaken = NotTaken
  NoProposal = NoProposal
  Calls = {c1, c2}
  Drafts = {d1}
  Paths = {page, style}
  Contents = {old, new}
  Blank <- MCBlank
  Writable = {page, style}
  Protected = {}
  Guardrails <- MCGuardrails
  Edits <- MCEdits
  Trouble = {}
SYMMETRY Symmetry
INVARIANTS
  TypeOK
  ReceiptsExplainSource
PROPERTIES
  AppliesWhatWasReviewed
  AppliesOnReviewedBase
  ImplementsGovernedSource
