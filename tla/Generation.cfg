\* Bundles of up to three units around the budget, questions of several types,
\* answers that cite well, badly or not at all.
CONSTANTS
  None = None
  u1 = u1
  u2 = u2
  u3 = u3
  Units = {u1, u2, u3}
  ContextWindow = 8192
  MaxTokens = 1400
  Reserved = 512
  Bundles <- SmallBundles
  Questions <- SmallQuestions
  RuleLength <- PromptRules
  VisualTexts = {300, 1660}
  Answers <- SmallAnswers
  Vision = TRUE
SPECIFICATION Spec
INVARIANTS
  TypeOK
  ContextIsMaximal
  
  ConsistencyChecksPass
  LimitationsAreStated
  EvidenceBacksTheStatus
\* A call ends, with a response or an exception.
CHECK_DEADLOCK FALSE
