SPECIFICATION Spec
CONSTANTS
  c1 = c1  c2 = c2  d1 = d1
  page = page  style = style  registry = registry
  old = old  new = new
  NotTaken = NotTaken
  NoProposal = NoProposal
  Calls = {c1, c2}
  Drafts = {d1}
  Paths = {page, registry}
  Contents = {old, new}
  Blank <- MCBlank
  Writable = {page}
  Protected = {}
  Guardrails <- MCGuardrails
  Edits <- MCEdits
  Trouble = {"overlap", "close", "crash", "throw", "io"}
SYMMETRY Symmetry
INVARIANTS
  BoundaryKept
PROPERTIES
  AppliesWhatWasReviewed
