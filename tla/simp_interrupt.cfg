SPECIFICATION Spec
CONSTANTS
    NumVars = 5
    Formulas <- MCLate
    Extra <- MCNoExtra
    FrozenSets <- MCAllFrozen
    Options <- MCPlain
    Lemmas <- MCLemmas
    Calls <- MCSimplify
    MaxClauses = 6
    MaxSolves = 2
    MaxLearnt = 2
    MaxInterrupts = 1
INVARIANTS
    ModelIsAModel
