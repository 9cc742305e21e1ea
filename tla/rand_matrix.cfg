SPECIFICATION Spec
CONSTANTS
    Programs <- CrossedPrograms
    Configs <- MCConfigs
    ModesUsed = {"rand"}
    IntBits = 3
INVARIANTS
    MatrixHoldsTheFoundPairs
