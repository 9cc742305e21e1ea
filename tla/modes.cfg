SPECIFICATION FairSpec
CONSTANTS
    InputLits <- TwoBits
    OutputLits <- TwoOuts
    OtherVars <- FreeVar
    CNFs <- MCCNFs
    Configs <- MCConfigs
    ModesUsed = {"bucket", "bucketa", "unguided", "sync"}
    Builds = {TRUE, FALSE}
    HandlersUsed = {TRUE, FALSE}
    MaxOutputs = 4
INVARIANTS
    TypeOK
    HistogramIsOfCounted
    BlockedOutputIsCounted
    ExhaustiveIsTrue
    ReportIsExact
    LabelsAreTheOutputs
    ClosedIsComplete
    SyncIsBalanced
    BoundsBracketTheEntropy
    ReportFailsOnlyOnNothing
PROPERTIES
    OneBucketAtATime
    ImplementsPreimageCount
    Terminates
