SPECIFICATION Spec
CONSTANTS
    Resource = {r1, r2}
    Key = {k1, k2}
    Null = Null
    Compressible = {k1, k2}
    Modes = {"async"}
    Load = TRUE
    Checksums = TRUE
    May = {"abort", "keeper"}
    Chunks = 2
    MaxImages = 3
    MaxStarts = 2
    MaxWire = 2
INVARIANTS TypeOK NobodyGivesUp DrawnIsWhole StoresInStep
SYMMETRY Symmetry
CHECK_DEADLOCK FALSE
