SPECIFICATION Spec
CONSTANTS
  Requests = {r1, r2, r3}
  Seconds <- MCSeconds
  MaxTime <- MCMaxTime
  MaxRefreshes <- MCMaxRefreshes
INVARIANTS
  OneRefreshAtATime
  AnswersNeverGoBack
PROPERTY RequestsAreAnswered
CHECK_DEADLOCK FALSE
