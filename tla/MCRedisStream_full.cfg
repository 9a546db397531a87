CONSTANTS
  End = 20
  Slack = 5
  MaxPayload = 1
  MaxMessages = 3
  MaxFailures = 0
SPECIFICATION Spec
INVARIANTS GoneAwayMeansGone
CHECK_DEADLOCK FALSE
