CONSTANTS
  End = 33
  LC = 2
  Request <- Requests
SPECIFICATION Spec
INVARIANTS TypeOK AnswerIsTheRequests RequestIsThatSent
PROPERTIES CompleteIsAnswered
CHECK_DEADLOCK FALSE
