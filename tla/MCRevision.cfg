SPECIFICATION Spec
CONSTANTS
  None = None
  Identity = {i1, i2}
  Keyword = {k1}
  Competitor = {}
  Provider = {"perplexity"}
  Names = {1}
  Mentions = {}
  Priced = {}
  Plans <- OnePlan
  Repeats = {2}
  Remover = {r1}
  Putter = {}
  MaxEdits = 3
  MaxScans = 0
PROPERTIES RevisionOnlyGrows
CHECK_DEADLOCK FALSE
