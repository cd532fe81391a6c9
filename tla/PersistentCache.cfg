SPECIFICATION Spec
CONSTANTS
    Name = {n1, n2}
    Null = Null
    Entries = 2
    MaxWire = 3
INVARIANTS StoresMatch NoProtocolViolation NeverWithout
PROPERTY AbortsEnd
CHECK_DEADLOCK FALSE
