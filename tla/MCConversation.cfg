\* Three turns, with two calls.
CONSTANTS
  Path <- Paths
  Setting <- Settings
  MaxTurns = 3
  MaxCalls = 2
SPECIFICATION Spec
INVARIANTS
  HistoryReaches
  PromptPlaced
\* The conversation ends with the last turn, or is refused.
CHECK_DEADLOCK FALSE
