\* Three calls, at most two at once, of any mode.
SPECIFICATION FairSpec
CONSTANTS
  Size = 3
  MaxParallel = 2
  Hints = {TRUE, FALSE}
  Timeout = 2
  Deadlines <- MCDeadlines
  MaxClock = 2
  Never = Never
INVARIANTS BoundedFanOut NothingLeftBehind ResultsAccount
PROPERTIES BatchAnswered
