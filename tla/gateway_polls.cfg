SPECIFICATION Spec
CONSTANT Responses <- SmallPolls
INVARIANT WinnerNamed
CHECK_DEADLOCK FALSE
