\* A call that is sent after the deadline of its caller.
SPECIFICATION Spec
CONSTANTS
  Size = 2
  MaxParallel = 1
  Hints = {TRUE}
  Timeout = 2
  Deadlines <- MCDeadlines
  MaxClock = 2
  Never = Never
PROPERTIES InboundDeadlineRespected
