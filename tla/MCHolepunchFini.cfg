SPECIFICATION HolepunchSpec
CONSTANT MaxCancels = 1
PROPERTY FiniReturns
CHECK_DEADLOCK FALSE
