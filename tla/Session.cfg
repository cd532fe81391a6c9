SPECIFICATION FairSpec
CONSTANTS
    Render = TRUE
    Silent = TRUE
    MaxOpens = 4
INVARIANTS RecordsKept UpIsWhole DownIsClean ErrorsAreCurrent
PROPERTY Settles
CHECK_DEADLOCK FALSE
