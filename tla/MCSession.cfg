SPECIFICATION Spec
CONSTANTS
  MaxMessages = 1
INVARIANTS
  PinIsThereWhenForwarded
  NoWorkWaitsUnsignalled
PROPERTIES
  StopEndsTheSession
  ReportedReasonIsFinal
CHECK_DEADLOCK FALSE
