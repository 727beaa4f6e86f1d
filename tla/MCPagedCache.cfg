CONSTANTS
    NumLayers = 3
    MaxBlocks = 3
    BlockSize = 2
    Values = {k1, k2}
    Zero = Zero
    MaxChunk = 3
    MaxRaises = 1
    k1 = k1
    k2 = k2
SPECIFICATION Spec
INVARIANTS
    BlocksOnce
    CountersAgree
    RaisesOnlyWhenFull
    Lockstep
PROPERTIES
    ExhaustionIsFinal
    ImplementsNaive
