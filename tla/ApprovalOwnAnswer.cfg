CONSTANTS
  h1 = h1
  h2 = h2
  None = None
  Hook = {h1, h2}
  MaxPolls = 1
SPECIFICATION Spec
INVARIANTS
  RunsOnItsOwnAnswer
