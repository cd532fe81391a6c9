SPECIFICATION Spec
CONSTANTS
  Limit = 1
  MaxConn = 2
  MaxData = 2
  Racing = {1}
  ConnectFails = {}
  WriteFails = {}
  Stalls = FALSE
INVARIANT AcknowledgedShutdown
CHECK_DEADLOCK FALSE
