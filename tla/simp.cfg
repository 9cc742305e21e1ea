SPECIFICATION Spec
CONSTANTS
    NumVars = 5
    Formulas <- MCFormulas
    Extra <- MCExtra
    FrozenSets <- MCFrozen
    Options <- MCOptions
    Lemmas <- MCLemmas
    Calls <- MCCalls
    MaxClauses = 6
    MaxSolves = 2
    MaxLearnt = 2
    MaxInterrupts = 1
INVARIANTS
    SimpTypeOK
    ProjectionIsKept
    AnswersAreRight
    SubsumptionIsComplete
    HeapPicksTheCheapest
