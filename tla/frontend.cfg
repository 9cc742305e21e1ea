SPECIFICATION Spec
CONSTANTS
    Requests <- MCRequests
    Absent = Absent
    UintBits = 4
    BigTime = 5
    WordBits = 4
INVARIANTS
    FrontTypeOK
    WellFormedRunsAreDefined
    ClausesMeanTheFile
    VerboseValueIsTrue
    BucketIsTheOutput
