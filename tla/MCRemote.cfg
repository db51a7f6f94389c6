SPECIFICATION Spec
CONSTANTS
  MaxCancels = 1
  Consoles = {"a", "b"}
  MaxStreams = 2
  MaxSleeps = 1
  MaxRestarts = 1
  ReconnectTries = 2
  MaxTokens = 1
INVARIANTS
  EachHoleHasItsOwnOffer
  ConnectingSessionIsKept
PROPERTIES
  CancelEndsTheSteps
  StoppedSessionGoes
CHECK_DEADLOCK FALSE
