SPECIFICATION Spec
CONSTANTS
  Limit = 2
  MaxConn = 3
  MaxData = 2
  Racing = {3}
  ConnectFails = {3}
  WriteFails = {3}
  Stalls = TRUE
INVARIANTS OutputOwnsBuffer SelectedForInput NoCrossTalk BackPressure
PROPERTY Reclaimed
CHECK_DEADLOCK FALSE
