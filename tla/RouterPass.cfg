CONSTANTS
  h1 = h1
  c1 = c1
  c2 = c2
  l1 = l1
  l2 = l2
  None = None
  Route = {h1}
  Callback = {c1, c2}
  Reload = {l1, l2}
  Text <- Texts
  Word <- Words
  WordsIn <- TextWords
  Mention <- Mentions
  TagList <- TagLists
  PinAgent = {2}
  Catalog <- Catalogs
  Spelling <- Spellings
  Lower <- LowerCase
  Trim <- Trimmed
  TrimName <- TrimmedNames
SYMMETRY Symmetry
SPECIFICATION Spec
INVARIANTS
  RowsAreCanonical
  CacheRepeatsTriage
  ChosenCovers
  LintedReloadsLand
CHECK_DEADLOCK FALSE
