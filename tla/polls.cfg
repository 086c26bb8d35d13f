SPECIFICATION Spec
CONSTANTS
  Polls = {"poll", "match"}
  MatchPolls = {"match"}
  CallbackName <- OwnNames
  Topic <- OwnTopics
  Restarts = FALSE
  MaxRuns = 3
  MaxUpdates = 3
INVARIANTS
  TypeOK
  Heard
  FinishOnce
PROPERTY ReplacedStaysSilent
CHECK_DEADLOCK FALSE
