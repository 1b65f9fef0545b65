SPECIFICATION FairSpec
CONSTANTS
  Requests = {r1, r2}
  Plain = {r2}
  Watched = {r1}
  Settings <- MCSettings
  MaxEvents = 1
  Nothing = Nothing
INVARIANTS TypeOK NoneLeftRunning AnswersReceiptIsComplete PassagesOnlyWithConsent StagesReport AnswersItsQuestion
PROPERTIES RequestsEnd PageShowsTheEnd
CHECK_DEADLOCK FALSE
