SPECIFICATION Spec
CONSTANTS
    Kinds = {"value", "action", "opcode", "newid", "newxid", "xid", "freexid"}
    Moduli = {4}
    Limits = {0, 2}
    XidModulus = 4
    ActionModulus = 4
    PositionModulus = 2
    CharModulus = 4
    SlotModulus = 2
    IntSize = 3
    CharSize = 3
    WordBits = 4
    MaxWire = 2
    MaxFields = 4
    Null = Null
INVARIANTS CachesInStep
PROPERTY FieldsLossless
CHECK_DEADLOCK FALSE
