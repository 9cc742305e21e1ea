SPECIFICATION FairSpec
CONSTANTS
    Programs <- MCPrograms
    Configs <- MCConfigs
    ModesUsed = {"rand", "bucketsharp", "sat"}
    IntBits = 3
INVARIANTS
    OtherTypeOK
    EveryPairOnce
    OneSeedBitIsExact
    RandBlocksOnlyCounted
    SharpExhaustiveIsTrue
    SatCountsProjections
PROPERTIES
    OtherTerminates
