SPECIFICATION FairSpec
CONSTANTS
    Resource = {r1, r2}
    Key = {k1}
    Null = Null
    Compressible = {k1}
    Modes = {"async", "sync"}
    Load = TRUE
    Checksums = TRUE
    May = {"abort", "old files"}
    Chunks = 1
    MaxImages = 2
    MaxStarts = 2
    MaxWire = 2
INVARIANTS FreeIsIdle DrawnIsWhole
PROPERTY SplitsEnd
CHECK_DEADLOCK FALSE
