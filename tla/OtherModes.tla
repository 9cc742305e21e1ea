----------------------------- MODULE OtherModes -----------------------------
(***************************************************************************)
(* A run of sharpPI in the modes that SharpPI leaves out: rand, bucketsharp*)
(* and #SAT.                                                               *)
(***************************************************************************)
EXTENDS RandMode, SharpMode, SatMode

ASSUME ConfigsAssumption ==
    Configs \subseteq
        [mode : {"rand", "bucketsharp", "sat"}, handler : BOOLEAN, ndebug : BOOLEAN,
         tolerance : BOOLEAN, tool : {"plain", "prefixed", "silent"},
         longLine : BOOLEAN, max_models : Nat]

vars == <<enumVars, randVars, sharpVars, satVars>>

Init ==
    /\ config \in Configs
    /\ EnumerationInit /\ RandInit /\ SharpInit /\ SatInit
    /\ pc = CASE config.mode = "rand"        -> "rand"
              [] config.mode = "bucketsharp" -> "sharp"
              [] config.mode = "sat"         -> "sat"

Step ==
    \/ RandNext /\ UNCHANGED <<sharpVars, satVars>>
    \/ SharpNext /\ UNCHANGED <<randVars, satVars>>
    \/ SatNext /\ UNCHANGED <<randVars, sharpVars>>

Terminated == pc \in Terminal /\ UNCHANGED vars

Next ==
    \/ Step
    \/ Sigterm /\ UNCHANGED <<randVars, sharpVars, satVars>>
    \/ Terminated

Spec == Init /\ [][Next]_vars

(* The thread is never stopped for ever; the solver and the external tool  *)
(* return.                                                                 *)
FairSpec == Spec /\ WF_vars(Step)

-----------------------------------------------------------------------------
Projections(M, lits) == {Cube(m, lits) : m \in M}
RandRuns == config.mode = "rand" /\ program.seeds # <<>>
Pairs == {c \in blocked : DOMAIN c = PairVars}

(* The variables of PICounter and CounterMatrix keep their types: blocking *)
(* clauses are cubes of the CNF's models, and no increment is made outside *)
(* the matrix.                                                             *)
OtherTypeOK ==
    /\ model = NoCube \/ model \in program.cnf
    /\ \A c \in blocked : c \in Projections(program.cnf, DOMAIN c)
    /\ DOMAIN matrix.n \cup matrix.known \subseteq Cells(matrix.rows, matrix.cols)
    /\ found_pairs \in Nat /\ pi \in Nat
    /\ DOMAIN ret = 0 .. space_size(Len(program.outs)) - 1
    /\ pc \in Terminal \cup {"rand", "output", "pair", "again", "leave", "report",
                             "sharp", "copy", "tool", "sat", "next", "book"}

(* rand counts every pair of an input and a first seed bit under exactly   *)
(* one output: no pair is counted again under another output, and none is  *)
(* left when the report is written, whatever stale outputs were blocked.   *)
EveryPairOnce ==
    RandRuns =>
        /\ found_pairs = Cardinality(counted)
        /\ Pairs = {x.pair : x \in counted}
        /\ Cardinality(Pairs) = Cardinality(counted)
        /\ pc = "done" => Pairs = Projections(program.cnf, PairVars)

(* The output depends on nothing but input and seed. *)
Deterministic ==
    \A m, n \in program.cnf :
        /\ Cube(m, InputVars) = Cube(n, InputVars)
        /\ Cube(m, Range(program.seeds)) = Cube(n, Range(program.seeds))
        => Cube(m, OutputVars) = Cube(n, OutputVars)

(* With a single seed literal the pairs counted are all the pairs of the   *)
(* program, each under its output: the first literal is all of them.       *)
OneSeedBitIsExact ==
    RandRuns /\ Len(program.seeds) = 1 /\ Deterministic /\ pc = "done" =>
        counted = {[pair |-> Cube(m, PairVars), output |-> Cube(m, OutputVars)]
                      : m \in program.cnf}

(* An output that rand blocks has no pair left that was not counted, so    *)
(* blocking it loses nothing.                                              *)
RandBlocksOnlyCounted ==
    RandRuns => \A c \in blocked : DOMAIN c = OutputVars =>
        \A m \in program.cnf : Matches(m, c) => Cube(m, PairVars) \in Pairs

(* bucketsharp says "Search was exhaustive!" only when every output of the *)
(* program was counted, and if the external tool prints its count where it *)
(* is looked for and the count fits an int, it is the number of pre-images.*)
SharpExhaustiveIsTrue ==
    verdict = "exhaustive" =>
        /\ Projections(program.cnf, OutputVars) \subseteq blocked
        /\ config.tool = "plain" => \A m \in program.cnf :
             LET n == Cardinality(Projections({x \in program.cnf : Output(x) = Output(m)},
                                              InputVars))
             IN  n < twoTo[IntBits - 1] => ret[Output(m)] = n

(* #SAT counts each projection of a model to the line cr once, and unless  *)
(* it is stopped, all of them or as many as the limit says, one at least.  *)
SatCountsProjections ==
    config.mode = "sat" /\ program.outs # <<>> /\ pc = "done" =>
        LET n == Cardinality(Projections(program.cnf, OutputVars))
        IN  /\ pi <= n
            /\ ~terminate => pi = Min({n, Max({1, config.max_models})})

(* "No projection found. Project all variables!" (PICounter.cpp:426):      *)
(* without a line cr the count is that of the assignments to the variables *)
(* of the file, the spare one being the program's own.                     *)
DefaultProjectsAllVariables ==
    config.mode = "sat" /\ program.outs = <<>> /\ pc = "done" /\ ~terminate =>
        pi = Min({Cardinality(Projections(program.cnf, 0 .. program.nVars - 2)),
                  Max({1, config.max_models})})

(* Every mode ends, unless the input file of bucketsharp has a line that   *)
(* SharpSAT cannot copy.                                                   *)
OtherTerminates == ~config.longLine => <>(pc \in Terminal)

(* found_pairs, by which joint_probability divides the matrix, is the      *)
(* "Count of found pairs of input - output relations" (entropy.h:145):     *)
(* when ndet reports, the matrix has every pair that was found, however it *)
(* has grown, and none of its numbers is what the memory happened to hold. *)
MatrixHoldsTheFoundPairs ==
    config.mode = "rand" /\ pc = "done" =>
        /\ BagCardinality(matrix.n) = found_pairs
        /\ Cells(matrix.rows, matrix.cols) \subseteq matrix.known

=============================================================================
