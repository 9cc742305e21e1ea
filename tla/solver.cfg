SPECIFICATION FairSpec
CONSTANTS
    Formulas <- MCFormulas
    Extra <- MCExtra
    Questions <- MCQuestions
    ProblemVars = 4
    RestartFirst = 1
    MaxSolves <- MCSolves
    MaxAdds = 1
INVARIANTS
    SolverTypeOK
    NothingLost
    LearntsAreImplied
    PropagationIsComplete
    ReasonsAreLive
    NoVariableForgotten
    DumpIsTheLastQuestion
PROPERTIES
    ImplementsSatOracle
