SPECIFICATION FairSpec
CONSTANTS
  About <- HighFound
  Prompt <- Questions
  Competitors <- Rivals
  Threshold <- Scaled
  Asked <- Cells
  Answers <- Replies
  Mentions <- Named
  Plans <- Offers
  Served <- ServedAnswers
  Tried <- LiveAnswers
  NameRank <- Alphabet
  None = None
  Worker = {w1, w2}
  MaxCrashes = 1
  Schedule = {s1}
  Interval = {1}
  FirstRun = {}
  MaxTime = 1
  MaxEdits = 2
  User = {u1}
  Preferences <- UserPreferences
  Admin = {a1}
  MaxRetries = 1
  MaxQueue = 1
  Opp = {o1}
  Key = {k1}
  Requester = {r1, r2}
  Evaluator = {e1}
  Verdict = {"RESOLVED", "IMPROVED"}
  MaxOcc = 1
  MaxTransitions = 3
  Analyst = {n1}
  MaxPasses = 2
  Standard = {}
  Identity = {}
  Keyword = {}
  Competitor = {}
  Provider = {"openai", "perplexity"}
  Names = {1}
  Priced = {}
  Repeats = {}
  Remover = {}
  Putter = {}
  MaxScans = 0
  Rates <- NoPrices
  MaxChanges = 0
  MaxToolCalls = 1
  Operator = {}
  Root = {}
  Trials = {}
PROPERTIES DueIsEvaluated PendingIsTaken PendingSettles
CHECK_DEADLOCK FALSE
