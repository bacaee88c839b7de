SPECIFICATION Spec
CONSTANTS
  Cohorts = {1, 2}
  Sets = {s1, s2}
  MaxAccount = 1
  CallsAttempts = 2
  LegacyAttempts = 2
  CaptchaAttempts = 2
  MaxFetches = 2
  MaxCaptchas = 3
  MaxSwitches = 1
INVARIANT AnswerIsFresh
PROPERTIES CallReturns StopClosesCall
CHECK_DEADLOCK FALSE
