CONSTANTS
  Settings = {osr3, osr4}
  OsrOfAddress = osr0
  UartFifo = 2
  MaxGets = 2
  MaxLogs = 1
  MaxRestarts = 2
SPECIFICATION Spec
INVARIANT RateIsSet
CHECK_DEADLOCK FALSE
