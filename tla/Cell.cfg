SPECIFICATION Spec
CONSTANTS
  Plans <- MCPlans
  Budgets <- MCBudgets
  Summaries <- MCSummaries
  Sentences <- MCSentences
  PromptTokens = 24
  TaskTokens = 8
  HeaderTokens = 4
  LengthTokens = 1
  GlossaryTokens = 3
  ForbiddenTokens = 2
  MarkerTokens = 2
  ExpansionTokens = 13
INVARIANTS WithinBudget WindowIsHonest NoFragmentLost
CHECK_DEADLOCK FALSE
