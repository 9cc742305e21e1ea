------------------------------ MODULE RandMode ------------------------------
(***************************************************************************)
(* Mode rand: PICounter::count_rand and the CounterMatrix it counts in     *)
(* (entropy.h), under ndet of main.cpp.                                    *)
(***************************************************************************)
EXTENDS Enumeration, Bags

VARIABLES
    matrix,      \* the counter matrix
    found_pairs,
    counted      \* history: [pair, output] of every pair counted

randVars == <<matrix, found_pairs, counted>>

-----------------------------------------------------------------------------
(* CounterMatrix. An Eigen matrix starts with arbitrary numbers: known are *)
(* the cells that were set to 0, n is the bag of increments still in it.   *)
Cells(rows, cols) == (0 .. rows - 1) \X (0 .. cols - 1)

(* matrix(2, 36) *)
NewMatrix == [rows |-> 2, cols |-> 36, known |-> {}, n |-> EmptyBag]

(* Mutant of ensure_size: only the columns are compared. *)
ensure_cols(m, rows, cols) == IF m.cols < cols THEN [m EXCEPT !.cols = cols] ELSE m

(* conservativeResize keeps the common part of the old and the new matrix  *)
(* and leaves the rest uninitialised; both dimensions take the size asked  *)
(* for, which one of them may already exceed. Then the corner that is new  *)
(* in both dimensions is set to 0.                                         *)
ensure_size(m, rows, cols) ==
    LET corner == (m.rows .. rows - 1) \X (m.cols .. cols - 1)
    IN  IF m.rows < rows \/ m.cols < cols
        THEN [rows |-> rows, cols |-> cols,
              known |-> (m.known \cap Cells(rows, cols)) \cup corner,
              n |-> Restrict(m.n, DOMAIN m.n \cap Cells(rows, cols))]
        ELSE m

count(m, input_value, output_value) ==
    [ensure_size(m, input_value + 1, output_value + 1)
        EXCEPT !.n = @ (+) SetToBag({<<input_value, output_value>>})]

-----------------------------------------------------------------------------
InRandMode == config.mode = "rand"

(* Mutant of PairVars: no seed literal is in the projection. *)
PairOnlyInput == InputVars

(* seed_and_input: the function returns in the first round of the loop     *)
(* over the seed literals, with only the first one pushed.                 *)
PairVars == InputVars \cup {program.seeds[1]}

(* Without seed literals the function ends without a value. *)
RandStart ==
    /\ pc = "rand"
    /\ pc' = IF program.seeds = <<>> THEN "undefined" ELSE "output"
    /\ UNCHANGED <<config, program, blocked, model, assum, terminate, randVars>>

RandOutput ==
    /\ pc = "output"
    /\ Solve("pair", "report")
    /\ assum' = IF Left = {} THEN assum ELSE Cube(model', OutputVars)
    /\ UNCHANGED <<config, program, blocked, terminate, randVars>>

(* Mutant of RandPair: only the input is prohibited. *)
RandPairInput ==
    /\ pc = "pair"
    /\ matrix' = count(matrix, Input(model), Output(model))
    /\ found_pairs' = found_pairs + 1
    /\ counted' = counted \cup
           {[pair |-> Cube(model, PairVars), output |-> Cube(model, OutputVars)]}
    /\ prohibit_project(InputVars)
    /\ pc' = "again"
    /\ UNCHANGED <<config, program, model, assum, terminate>>

RandPair ==
    /\ pc = "pair"
    /\ matrix' = count(matrix, Input(model), Output(model))
    /\ found_pairs' = found_pairs + 1
    /\ counted' = counted \cup
           {[pair |-> Cube(model, PairVars), output |-> Cube(model, OutputVars)]}
    /\ prohibit_project(PairVars)
    /\ pc' = "again"
    /\ UNCHANGED <<config, program, model, assum, terminate>>

(* Mutant of RandAgain: the inner loop runs once. *)
RandOnce ==
    /\ pc = "again"
    /\ Solve("leave", "leave")
    /\ UNCHANGED <<config, program, blocked, assum, terminate, randVars>>

RandAgain ==
    /\ pc = "again"
    /\ Solve("pair", "leave")
    /\ UNCHANGED <<config, program, blocked, assum, terminate, randVars>>

(* The output blocked is the one of the stale model array. *)
RandLeave ==
    /\ pc = "leave"
    /\ prohibit_project(OutputVars)
    /\ assum' = NoCube
    /\ pc' = "output"
    /\ UNCHANGED <<config, program, model, terminate, randVars>>

(* write_final_result(CounterMatrix): floating point, nothing can fail. *)
RandReport ==
    /\ pc = "report"
    /\ pc' = "done"
    /\ UNCHANGED <<config, program, blocked, model, assum, terminate, randVars>>

RandInit ==
    /\ matrix = NewMatrix
    /\ found_pairs = 0
    /\ counted = {}

RandNext ==
    \/ RandStart \/ RandOutput \/ RandPair \/ RandAgain \/ RandLeave \/ RandReport

=============================================================================
