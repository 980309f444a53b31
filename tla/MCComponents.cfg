SPECIFICATION Spec
CONSTANTS
  About <- HighFound
  Prompt <- Questions
  Competitors <- Rivals
  Threshold <- Scaled
  Asked <- Cells
  Answers <- Replies
  Mentions <- Named
  Plans <- Offers
  Served <- ServedAnswers
  Tried <- LiveAnswers
  NameRank <- Alphabet
  None = None
  Worker = {w1, w2}
  MaxCrashes = 1
  Schedule = {s1}
  Interval = {1, 2}
  FirstRun = {1}
  MaxTime = 2
  MaxEdits = 2
  User = {u1}
  Preferences <- UserPreferences
  Admin = {a1, a2}
  MaxRetries = 1
  MaxQueue = 2
  Opp = {o1}
  Key = {k1, k2}
  Requester = {r1, r2}
  Evaluator = {e1}
  Verdict = {"RESOLVED"}
  MaxOcc = 1
  MaxTransitions = 2
  Analyst = {n1, n2, n3}
  MaxPasses = 4
  Standard = {1}
  Identity = {i1, i2}
  Keyword = {"k1", "k2"}
  Competitor = {"c1"}
  Provider = {"openai", "perplexity"}
  Names = {1, 2}
  Priced = {"openai"}
  Repeats = {2}
  Remover = {m1}
  Putter = {q1}
  MaxScans = 2
  Rates <- ListPrices
  MaxChanges = 1
  MaxToolCalls = 2
  Operator = {p1, p2}
  Root = {"a", "b"}
  Trials <- Repetitions
SYMMETRY Symmetry
INVARIANTS TypeOK NoOverlap NoAutomaticDuplicate OneMeasurementPerCycle NoWaitCycle ResolvedIsGone SameEvidenceSameGap PlanMatchesInputs MeasuresBaseline BilledAsServed ProvenPass MetricsAgree
PROPERTIES FirstFutureSlot MeasuredOutcomeKept CompletedAnalysisIsFinal
CHECK_DEADLOCK FALSE
