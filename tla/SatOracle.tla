----------------------------- MODULE SatOracle ------------------------------
(***************************************************************************)
(* What an incremental SAT solver promises: clauses are only ever added,   *)
(* and a question with assumptions is answered "sat" with an assignment    *)
(* that some model of all the clauses and assumptions extends, or "unsat"  *)
(* with a set of assumptions that cannot hold together. The counting       *)
(* modes of sharpPI rely on exactly this.                                  *)
(***************************************************************************)
EXTENDS Literals

CONSTANTS
    Vars,        \* the variables
    Decided,     \* the variables a "sat" answer always assigns
    Clauses,     \* the clauses that may be added
    Questions    \* the sets of literals that may be assumed

VARIABLES
    formula,     \* the clauses added so far
    asked,       \* the assumptions of the last question
    answer,      \* "none", "pending", "sat", "unsat"
    model,       \* the assignment of the last answer, {} if it was "unsat"
    conflict     \* the negated assumptions that cannot hold together

oracleVars == <<formula, asked, answer, model, conflict>>

Init ==
    /\ formula = {}
    /\ asked = {}
    /\ answer = "none"
    /\ model = {}
    /\ conflict = {}

Add ==
    /\ answer # "pending"
    /\ \E C \in Clauses : formula' = formula \cup {C}
    /\ UNCHANGED <<asked, answer, model, conflict>>

Ask ==
    /\ answer # "pending"
    /\ asked' \in Questions
    /\ answer' = "pending"
    /\ model' = {}
    /\ conflict' = {}
    /\ UNCHANGED formula

AnswerSat ==
    /\ answer = "pending"
    /\ answer' = "sat"
    /\ \E m \in ModelsOf(formula \cup Units(asked), Vars) : model' \in SUBSET m
    /\ Decided \subseteq VarsOf(model')
    /\ UNCHANGED <<formula, asked, conflict>>

AnswerUnsat ==
    /\ answer = "pending"
    /\ answer' = "unsat"
    /\ conflict' \in SUBSET NegAll(asked)
    /\ ModelsOf(formula \cup Units(NegAll(conflict')), Vars) = {}
    /\ UNCHANGED <<formula, asked, model>>

Answer == AnswerSat \/ AnswerUnsat

Next == Add \/ Ask \/ Answer

Spec == Init /\ [][Next]_oracleVars /\ WF_oracleVars(Answer)

=============================================================================
