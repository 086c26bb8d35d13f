SPECIFICATION Spec
CONSTANTS
  Polls = {"poll"}
  MatchPolls = {}
  CallbackName <- OwnNames
  Topic <- OwnTopics
  Restarts = TRUE
  MaxRuns = 2
  MaxUpdates = 2
INVARIANT Heard
CHECK_DEADLOCK FALSE
