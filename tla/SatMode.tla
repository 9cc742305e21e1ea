------------------------------ MODULE SatMode -------------------------------
(***************************************************************************)
(* The #SAT mode: PICounter::count_sat under count_sat of main.cpp. No     *)
(* argument of --mode selects it; OperationMode::SHARPSAT is its name.     *)
(***************************************************************************)
EXTENDS Enumeration

VARIABLES
    projection,  \* _output_literals
    pi           \* the models counted

satVars == <<projection, pi>>

(* for (int i = 1; i < num_variables(); i++): 0-based, so the first        *)
(* variable of the file is left out and the spare one is in.               *)
DefaultProjection == [i \in 1 .. program.nVars - 1 |-> i]

SatStart ==
    /\ pc = "sat"
    /\ projection' = IF program.outs = <<>> THEN DefaultProjection ELSE program.outs
    /\ pc' = "next"
    /\ UNCHANGED <<config, program, blocked, model, assum, terminate, pi>>

(* solver->solve() && !_user_want_terminate *)
SatSolve ==
    /\ pc = "next"
    /\ Solve(IF terminate THEN "done" ELSE "book", "done")
    /\ UNCHANGED <<config, program, blocked, assum, terminate, satVars>>

(* Mutant of SatBook: one projection more than the limit. *)
SatBookBeyond ==
    /\ pc = "book"
    /\ pi' = pi + 1
    /\ prohibit_project(Range(projection))
    /\ pc' = IF pi' > config.max_models THEN "done" ELSE "next"
    /\ UNCHANGED <<config, program, model, assum, terminate, projection>>

SatBook ==
    /\ pc = "book"
    /\ pi' = pi + 1
    /\ prohibit_project(Range(projection))
    /\ pc' = IF pi' >= config.max_models THEN "done" ELSE "next"
    /\ UNCHANGED <<config, program, model, assum, terminate, projection>>

SatInit ==
    /\ projection = <<>>
    /\ pi = 0

SatNext == SatStart \/ SatSolve \/ SatBook

=============================================================================
