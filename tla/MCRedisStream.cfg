CONSTANTS
  End = 20
  Slack = 5
  MaxPayload = 1
  MaxMessages = 3
  MaxFailures = 1
SPECIFICATION Spec
INVARIANTS TypeOK CutsDoNotMatter
PROPERTIES MessagesArrive
CHECK_DEADLOCK FALSE
