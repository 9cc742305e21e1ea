----------------------------- MODULE PICounter -----------------------------
(***************************************************************************)
(* The state and the helpers that the counting modes of sharpPI share:     *)
(* class PICounter of src/src/PICounter.h and PICounter.cpp, on top of the *)
(* SAT solver behind MinisatInterface (src/src/sat.h).                     *)
(*                                                                         *)
(* An assignment gives a Boolean to every variable of the CNF.  The CNF is *)
(* the set of its models.  The clauses added while counting are blocking   *)
(* clauses over the input or over the output literals; a blocking clause   *)
(* is the negation of a cube, and the clause database is kept as the CNF   *)
(* and the two sets of blocked cubes.  The solver returns an arbitrary     *)
(* model of what is left.                                                  *)
(***************************************************************************)
EXTENDS Integers, Sequences, FiniteSets, SequencesExt, Entropy, BitVectors

CONSTANTS
    InputLits,      \* _input_literals: a sequence of variables
    OutputLits,     \* _output_literals
    OtherVars,      \* the CNF's other variables, which no projection mentions
    CNFs,           \* the CNFs to count: sets of assignments
    Configs         \* the command lines and builds, see ConfigsAssumption

InputVars  == Range(InputLits)
OutputVars == Range(OutputLits)
Vars       == InputVars \cup OutputVars \cup OtherVars

Assignments == [Vars -> BOOLEAN]
Inputs      == [InputVars -> BOOLEAN]
Outputs     == [OutputVars -> BOOLEAN]

(* Projections of an assignment: project_model and the cube it returns.    *)
(* Every variable of the CNF is a decision variable, so a model of the     *)
(* solver assigns all of them and no literal is skipped.                   *)
InputOf(m)  == Restrict(m, InputVars)
OutputOf(m) == Restrict(m, OutputVars)

OutputValue(output) == interpret(output, OutputLits)

-----------------------------------------------------------------------------
Modes == {"bucket", "bucketa", "unguided", "sync"}

(* A tolerance t is kept as the rational 2^(t*SI), so that tolerance_met   *)
(* is exact. The default of the command line, -INFINITY, is 0/1.           *)
Rational == [num : Nat, den : Nat \ {0}]
Off      == [num |-> 0, den |-> 1]

ASSUME LitsAssumption ==
    /\ InputLits \in Seq(InputVars)
    /\ OutputLits \in Seq(OutputVars)

(* A configuration is what a run never changes: the mode and the tolerance *)
(* of the command line; whether asserts are compiled out; whether main     *)
(* called install_handler (the main of the repository does not).           *)
ASSUME ConfigsAssumption ==
    Configs \subseteq [mode : Modes, tolerance : Rational,
                       ndebug : BOOLEAN, handler : BOOLEAN]

(* The modes of this module are those for deterministic programs: an input *)
(* has at most one output.  An input may have none: the C program need not *)
(* reach its end on it.                                                    *)
ASSUME CNFsAssumption ==
    \A cnf \in CNFs :
        /\ cnf \subseteq Assignments
        /\ \A m, n \in cnf : InputOf(m) = InputOf(n) => OutputOf(m) = OutputOf(n)

-----------------------------------------------------------------------------
VARIABLES
    config,                \* the configuration of this run
    cnf,                   \* the models of the clauses of the input file
    blockedIn, blockedOut, \* cubes of the blocking clauses added so far
    model,                 \* the solver's model array; empty before the first one
    assum,                 \* the assumption of count_one_bucket, an output cube
    buckets,               \* the histogram
    b,                     \* the flag of the mode's loop in main.cpp
    terminate,             \* _user_want_terminate
    verdict,               \* the line printed before the final result
    pc                     \* the next step

picVars    == <<config, cnf, blockedIn, blockedOut, model, assum, buckets,
                b, terminate, verdict, pc>>

mode == config.mode

(* How a process ends: it returns from main; it divides by zero; an assert *)
(* fails; an exception leaves main; SIGTERM kills it.                      *)
Terminal == {"done", "sigfpe", "aborted", "uncaught", "killed"}

NoModel  == <<>>
NoOutput == <<>>

-----------------------------------------------------------------------------
(* The solver *)

(* What MinisatInterface::solve can return without an assumption. When     *)
(* there is none the model array keeps its old content: MiniSat clears the *)
(* length of the array and modelValue does not check it.                   *)
Models == {m \in cnf : InputOf(m) \notin blockedIn /\ OutputOf(m) \notin blockedOut}

(* With the literals of an output cube as assumption. *)
ModelsWith(output) == {m \in Models : OutputOf(m) = output}

(* prohibit_project(_input_literals) and prohibit_project(_output_literals)*)
(* after the solver returned model m.                                      *)
ProhibitInput(m)  == blockedIn'  = blockedIn \cup {InputOf(m)}
ProhibitOutput(m) == blockedOut' = blockedOut \cup {OutputOf(m)}

-----------------------------------------------------------------------------
(* The histogram *)

EmptyBucket == [size |-> 0, closed |-> FALSE]

(* Buckets ret(space_size(number of output literals), {0, false}) *)
EmptyTable == [k \in 0 .. space_size(Len(OutputLits)) - 1 |-> EmptyBucket]

Increment(h, k) == [h EXCEPT ![k].size = @ + 1]

allpreimages == space_size(Len(InputLits))

(* tolerance_met: l - u <= tolerance, that is 2^(SI*l) / 2^(SI*u) is at    *)
(* most 2^(SI*tolerance).                                                  *)
tolerance_met ==
    LET found == sum_buckets(buckets)
        l == shannon_entropy_lower_bound(buckets, allpreimages, found)
        u == shannon_entropy_upper_bound(buckets, allpreimages, found)
    IN  /\ config.tolerance # Off
        /\ l * config.tolerance.den <= u * config.tolerance.num

(* assert( l - u > 0 ), evaluated when the tolerance is enabled *)
assert_fails ==
    LET found == sum_buckets(buckets)
        l == shannon_entropy_lower_bound(buckets, allpreimages, found)
        u == shannon_entropy_upper_bound(buckets, allpreimages, found)
    IN  config.tolerance # Off /\ ~config.ndebug /\ ~(l > u)

(* A tolerance_met call whose assert fails ends the process. *)
AbortInToleranceMet ==
    /\ pc = "check"
    /\ assert_fails
    /\ pc' = "aborted"
    /\ UNCHANGED <<config, cnf, blockedIn, blockedOut, model, assum, buckets,
                   b, terminate, verdict>>

-----------------------------------------------------------------------------
(* What run() in main.cpp sets up before it calls a mode. For unguided, b  *)
(* is not initialised and may be anything.                                 *)
PICounterInit ==
    /\ config \in Configs
    /\ cnf \in CNFs
    /\ blockedIn = {} /\ blockedOut = {}
    /\ model = NoModel /\ assum = NoOutput
    /\ buckets = IF mode = "sync" THEN <<>> ELSE EmptyTable
    /\ b \in IF mode = "unguided" THEN BOOLEAN ELSE {TRUE}
    /\ terminate = FALSE
    /\ verdict = "none"
    /\ pc = IF mode = "sync" THEN "prepare" ELSE "head"

=============================================================================
