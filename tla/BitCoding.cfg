SPECIFICATION FrameSpec
CONSTANTS
    Widths = {1, 7}
    Blocks = {0, 2}
    MaxIndex = 3
    ByteBits = 3
    MaxFrameFields = 2
INVARIANTS ReadsWhatWasWritten
CHECK_DEADLOCK FALSE
