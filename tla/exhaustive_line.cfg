SPECIFICATION Spec
CONSTANTS
    InputLits <- TwoBits
    OutputLits <- TwoOuts
    OtherVars <- FreeVar
    CNFs <- MCCNFs
    Configs <- MCConfigs
    ModesUsed = {"bucket", "bucketa", "unguided", "sync"}
    Builds = {TRUE}
    HandlersUsed = {FALSE}
    MaxOutputs = 4
INVARIANT
    ExhaustiveMeansAllCounted
