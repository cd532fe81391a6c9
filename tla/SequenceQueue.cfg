CONSTANTS
    Entry = {e1, e2}
    Junk = junk
    InitialSize = 2
    GrowthIncrement = 2
    MaxSize = 6
SPECIFICATION QueueSpec
PROPERTY IsFifo
