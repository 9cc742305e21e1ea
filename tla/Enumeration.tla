---------------------------- MODULE Enumeration ----------------------------
(***************************************************************************)
(* What the modes rand, bucketsharp and #SAT share: a solver whose models  *)
(* are used up by blocking clauses over projections (src/src/PICounter.cpp *)
(* on top of MinisatInterface).                                            *)
(*                                                                         *)
(* A program is a CNF with its input, seed and output literals, as the     *)
(* parser hands them over. Its variables are 0 .. nVars - 1; the last one  *)
(* is the spare variable that ensure_variables(max_var) creates beyond the *)
(* variables of the file, and no clause mentions it.                       *)
(***************************************************************************)
EXTENDS Integers, Sequences, FiniteSets, SequencesExt, Entropy, BitVectors

CONSTANTS
    Programs,   \* records [ins, seeds, outs : sequences, nVars, cnf]
    Configs     \* records of the command line and the environment

Assignments(p) == [0 .. p.nVars - 1 -> BOOLEAN]

ASSUME ProgramsAssumption ==
    \A p \in Programs :
        LET spare == p.nVars - 1
        IN  /\ p.nVars \in Nat \ {0} /\ p.cnf \subseteq Assignments(p)
            /\ {p.ins, p.seeds, p.outs} \subseteq Seq(0 .. spare - 1)
            /\ \A m \in p.cnf : [m EXCEPT ![spare] = ~m[spare]] \in p.cnf

VARIABLES
    config, program,    \* never change
    blocked,            \* cubes of the blocking clauses added so far
    model,              \* the solver's model array
    assum,              \* the assumption: an output cube, or the empty cube
    terminate,          \* _user_want_terminate
    pc

enumVars == <<config, program, blocked, model, assum, terminate, pc>>

NoCube == <<>>

(* project_model *)
Cube(m, lits) == Restrict(m, lits)
Matches(m, cube) == \A v \in DOMAIN cube : m[v] = cube[v]

(* The models solve(assum) may return now. *)
Left == {m \in program.cnf :
            Matches(m, assum) /\ \A c \in blocked : ~Matches(m, c)}

(* The solver's model array keeps its content when there is no model. *)
Solve(found, none) ==
    IF Left = {} THEN pc' = none /\ UNCHANGED model
    ELSE pc' = found /\ model' \in Left

(* prohibit_project: the negated cube of the model array becomes a clause. *)
prohibit_project(lits) == blocked' = blocked \cup {Cube(model, lits)}

InputVars  == Range(program.ins)
OutputVars == Range(program.outs)
Input(m)   == interpret(m, program.ins)
Output(m)  == interpret(m, program.outs)

(* How a process ends: it returns from main; an exception leaves main; an  *)
(* assert fails; the behaviour is undefined; SIGTERM kills it.             *)
Terminal == {"done", "uncaught", "aborted", "undefined", "killed"}

EnumerationInit ==
    /\ program \in Programs
    /\ blocked = {}
    /\ model = NoCube /\ assum = NoCube
    /\ terminate = FALSE

Sigterm ==
    /\ pc \notin Terminal /\ ~terminate
    /\ IF config.handler
       THEN terminate' = TRUE /\ UNCHANGED pc
       ELSE pc' = "killed" /\ UNCHANGED terminate
    /\ UNCHANGED <<config, program, blocked, model, assum>>

=============================================================================
