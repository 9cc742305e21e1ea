SPECIFICATION FairSpec
CONSTANTS
    InputLits <- ThreeBits
    OutputLits <- NoOuts
    OtherVars <- FreeVar
    CNFs <- MCCNFs
    Configs <- MCConfigs
    ModesUsed = {"bucket", "bucketa", "unguided", "sync"}
    Builds = {TRUE, FALSE}
    HandlersUsed = {TRUE, FALSE}
    MaxOutputs = 1
INVARIANTS
    NoTableNoAnswer
