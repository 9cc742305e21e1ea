SPECIFICATION Spec
CONSTANTS
    Programs <- SatPrograms
    Configs <- MCConfigs
    ModesUsed = {"sat"}
    IntBits = 3
INVARIANTS
    DefaultProjectsAllVariables
