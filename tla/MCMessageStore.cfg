CONSTANTS
    Key = {k1, k2, k3}
    Null = null
    cacheSlots = 2
    Width = 2
    StoreHitsAddBonus = 2
    StoreHitsLoadBonus = 1
    StoreHitsLimit = 2
    StoreHitsTouch = 1
    StoreHitsUntouch = 1
    MaxWire = 2
SPECIFICATION Spec
INVARIANTS Coherent HitsAreWhole ParkedIsStored ChecksumsExact SearchEnds
SYMMETRY KeySymmetry
PROPERTY Lossless
