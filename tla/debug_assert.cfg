SPECIFICATION Spec
CONSTANTS
    InputLits <- TwoBits
    OutputLits <- TwoOuts
    OtherVars <- FreeVar
    CNFs <- MCCNFs
    Configs <- MCConfigs
    ModesUsed = {"bucket", "bucketa", "unguided", "sync"}
    Builds = {FALSE}
    HandlersUsed = {FALSE}
    MaxOutputs = 4
INVARIANT
    AssertHolds
