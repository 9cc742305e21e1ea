-------------------------- MODULE OtherModesProofs --------------------------
(***************************************************************************)
(* Theorems about the modes rand, bucketsharp and #SAT, for every program  *)
(* and configuration:                                                      *)
(*   BaseInv     types, and which mode may be at which pc                  *)
(*   RandInv     the pairs that rand counts and the outputs it blocks      *)
(*   SharpInv    the one bucket that bucketsharp fills                     *)
(*   SatInv      the projections that #SAT counts                          *)
(***************************************************************************)
EXTENDS OtherModes, CountingLemmas

(* What a run never changes, and the steps of each mode's own loops.       *)
ModeInv ==
    /\ config \in Configs /\ program \in Programs
    /\ config.mode = "rand" =>
          pc \in Terminal \cup {"rand", "output", "pair", "again", "leave", "report"}
    /\ config.mode = "bucketsharp" => pc \in Terminal \cup {"sharp", "copy", "tool"}
    /\ config.mode = "sat" => pc \in Terminal \cup {"sat", "next", "book"}

(* The model array holds a model wherever it is read.                      *)
SolverInv ==
    /\ model = NoCube \/ model \in program.cnf
    /\ pc \in {"pair", "again", "leave", "copy", "tool", "book"} => model \in program.cnf
    /\ \A c \in blocked : c \in Projections(program.cnf, DOMAIN c)

MatrixInv ==
    /\ DOMAIN matrix = {"rows", "cols", "known", "n"}
    /\ matrix.rows \in Nat /\ matrix.cols \in Nat
    /\ DOMAIN matrix.n \cup matrix.known \subseteq Cells(matrix.rows, matrix.cols)

CountersInv ==
    /\ found_pairs \in Nat /\ pi \in Nat
    /\ DOMAIN ret = 0 .. space_size(Len(program.outs)) - 1

BaseInv == ModeInv /\ SolverInv /\ MatrixInv /\ CountersInv

-----------------------------------------------------------------------------
(* Programs *)

(* A model assigns the program's variables, its literals are among them,   *)
(* and the spare one is free.                                              *)
LEMMA ProgramTypes ==
    ASSUME NEW p \in Programs
    PROVE  /\ p.nVars \in Nat \ {0} /\ p.cnf \subseteq [0 .. p.nVars - 1 -> BOOLEAN]
           /\ {p.ins, p.seeds, p.outs} \subseteq Seq(0 .. p.nVars - 2)
           /\ \A m \in p.cnf : [m EXCEPT ![p.nVars - 1] = ~m[p.nVars - 1]] \in p.cnf
<1>1. p.nVars \in Nat \ {0} /\ p.nVars - 1 - 1 = p.nVars - 2
  BY ProgramsAssumption
<1>2. QED
  BY <1>1, ProgramsAssumption DEF Assignments

(* The variables of a sequence of literals.                                *)
LEMMA LiteralsOf ==
    ASSUME NEW V, NEW lits \in Seq(V)
    PROVE  /\ Range(lits) \subseteq V
           /\ \A k \in 1 .. Len(lits) : lits[k] \in Range(lits)
           /\ \A v \in Range(lits) : \E k \in 1 .. Len(lits) : lits[k] = v
  BY DEF Range

(* A sequence over a set is one over any larger set.                       *)
LEMMA SeqWiden ==
    ASSUME NEW A, NEW B, A \subseteq B, NEW s \in Seq(A)
    PROVE  s \in Seq(B)
<1>1. s \in [1 .. Len(s) -> B] /\ Len(s) \in Nat
  OBVIOUS
<1>2. QED
  BY <1>1

(* Input and output of a model have a value.                               *)
LEMMA ValueType ==
    ASSUME NEW p \in Programs, NEW m \in p.cnf, NEW lits \in {p.ins, p.outs}
    PROVE  interpret(m, lits) \in Nat
<1>1. lits \in Seq(0 .. p.nVars - 1)
  <2>1. lits \in Seq(0 .. p.nVars - 2) /\ p.nVars \in Nat
    BY ProgramTypes
  <2>2. 0 .. p.nVars - 2 \subseteq 0 .. p.nVars - 1
    BY <2>1
  <2>3. QED
    BY <2>1, <2>2, SeqWiden
<1>2. m \in [0 .. p.nVars - 1 -> BOOLEAN]
  BY ProgramTypes
<1>3. QED
  BY <1>1, <1>2, InterpretRange

-----------------------------------------------------------------------------
(* The types *)

(* Nothing is chosen, blocked or counted at the start.                     *)
LEMMA BaseInit == Init => BaseInv
<1> SUFFICES ASSUME Init PROVE BaseInv
  OBVIOUS
<1>0. pc \in {"rand", "sharp", "sat"}
  BY ConfigsAssumption DEF Init
<1>1. ModeInv
  BY ConfigsAssumption DEF Init, EnumerationInit, ModeInv
<1>2. SolverInv
  BY <1>0 DEF Init, EnumerationInit, SolverInv, NoCube
<1>3. MatrixInv
  BY DEF Init, RandInit, NewMatrix, EmptyBag, SetToBag, MatrixInv, Cells
<1>4. CountersInv
  BY DEF Init, RandInit, SharpInit, SatInit, CountersInv
<1>5. QED
  BY <1>1, <1>2, <1>3, <1>4 DEF BaseInv

(* Configuration and program never change, and each mode stays within its  *)
(* loops.                                                                  *)
LEMMA ModeStep ==
    ASSUME BaseInv, [Next]_vars
    PROVE  /\ UNCHANGED <<config, program>>
           /\ ModeInv'
           /\ config.mode = "rand" => ~SharpNext /\ ~SatNext
           /\ config.mode = "bucketsharp" => ~RandNext /\ ~SatNext
           /\ config.mode = "sat" => ~RandNext /\ ~SharpNext
<1> USE DEF BaseInv, ModeInv
<1>1. RandNext => UNCHANGED <<config, program>> /\ pc \in {"rand", "output", "pair", "again", "leave", "report"}
                  /\ pc' \in {"undefined", "output", "pair", "report", "again", "leave", "done"}
  BY DEF RandNext, RandStart, RandOutput, RandPair, RandAgain, RandLeave, RandReport, Solve
<1>2. SharpNext => UNCHANGED <<config, program>> /\ pc \in {"sharp", "copy", "tool"}
                   /\ pc' \in {"sharp", "copy", "tool", "done", "uncaught", "aborted", "undefined"}
  BY DEF SharpNext, SharpFindOutput, SharpNoOutput, SharpCopy, SharpToolSilent, SharpNoBucket,
         SharpBucket, ToleranceOutcome
<1>3. SatNext => UNCHANGED <<config, program>> /\ pc \in {"sat", "next", "book"}
                 /\ pc' \in {"next", "book", "done"}
  BY DEF SatNext, SatStart, SatSolve, SatBook, Solve
<1>4. Sigterm \/ Terminated \/ UNCHANGED vars
         => UNCHANGED <<config, program>> /\ pc' \in {pc, "killed"}
  BY DEF Sigterm, Terminated, vars, enumVars
<1>5. config.mode \in {"rand", "bucketsharp", "sat"}
  BY ConfigsAssumption
<1>6. QED
  BY <1>1, <1>2, <1>3, <1>4, <1>5 DEF Next, Step, Terminal

(* Models come from the program, clauses are cubes of models.              *)
LEMMA SolverStep == ASSUME BaseInv, [Next]_vars PROVE SolverInv'
<1>1. UNCHANGED <<config, program>>
  BY ModeStep
<1>2. SolverInv /\ \A m \in Left : m \in program.cnf
  BY DEF BaseInv, Left
<1>3. ASSUME NEW lits, prohibit_project(lits), model \in program.cnf
      PROVE  \A c \in blocked' : c \in Projections(program.cnf, DOMAIN c)
  <2>1. Cube(model, lits) \in Projections(program.cnf, DOMAIN Cube(model, lits))
    BY <1>3 DEF Projections, Cube, Restrict
  <2>2. QED
    BY <1>2, <1>3, <2>1 DEF prohibit_project, SolverInv
<1>4. ASSUME UNCHANGED blocked PROVE \A c \in blocked' : c \in Projections(program.cnf, DOMAIN c)
  BY <1>2, <1>4 DEF SolverInv
<1>5. CASE RandNext
  <2>1. CASE RandStart \/ RandReport
    BY <1>1, <1>2, <2>1 DEF RandStart, RandReport, SolverInv, Projections
  <2>2. CASE RandOutput \/ RandAgain
    <3>1. UNCHANGED blocked
      BY <2>2 DEF RandOutput, RandAgain
    <3>2. /\ model' = NoCube \/ model' \in program.cnf
          /\ pc' \in {"pair", "again", "leave", "copy", "tool", "book"} => model' \in program.cnf
      BY <1>2, <2>2 DEF RandOutput, RandAgain, Solve, SolverInv
    <3>3. QED
      BY <1>1, <1>4, <3>1, <3>2 DEF SolverInv, Projections
  <2>3. CASE RandPair \/ RandLeave
    <3>1. model \in program.cnf /\ model' = model
      BY <1>2, <2>3 DEF RandPair, RandLeave, SolverInv
    <3>2. \A c \in blocked' : c \in Projections(program.cnf, DOMAIN c)
      BY <1>3, <2>3, <3>1 DEF RandPair, RandLeave
    <3>3. QED
      BY <1>1, <3>1, <3>2 DEF SolverInv, Projections
  <2>4. QED
    BY <1>5, <2>1, <2>2, <2>3 DEF RandNext
<1>6. CASE SharpNext
  <2>1. CASE SharpFindOutput
    BY <1>1, <1>2, <2>1 DEF SharpFindOutput, SolverInv, Projections
  <2>2. CASE SharpNoOutput \/ SharpCopy \/ SharpToolSilent \/ SharpNoBucket
    BY <1>1, <1>2, <2>2 DEF SharpNoOutput, SharpCopy, SharpToolSilent, SharpNoBucket,
                            SolverInv, Projections
  <2>3. CASE SharpBucket
    <3>1. model \in program.cnf /\ model' = model
      BY <1>2, <2>3 DEF SharpBucket, SolverInv
    <3>2. \A c \in blocked' : c \in Projections(program.cnf, DOMAIN c)
      BY <1>3, <2>3, <3>1 DEF SharpBucket
    <3>3. QED
      BY <1>1, <3>1, <3>2 DEF SolverInv, Projections
  <2>4. QED
    BY <1>6, <2>1, <2>2, <2>3 DEF SharpNext
<1>7. CASE SatNext
  <2>1. CASE SatStart
    BY <1>1, <1>2, <2>1 DEF SatStart, SolverInv, Projections
  <2>2. CASE SatSolve
    <3>1. /\ model' = NoCube \/ model' \in program.cnf
          /\ pc' \in {"pair", "again", "leave", "copy", "tool", "book"} => model' \in program.cnf
      BY <1>2, <2>2 DEF SatSolve, Solve, SolverInv
    <3>2. QED
      BY <1>1, <1>4, <2>2, <3>1 DEF SatSolve, SolverInv, Projections
  <2>3. CASE SatBook
    <3>1. model \in program.cnf /\ model' = model
      BY <1>2, <2>3 DEF SatBook, SolverInv
    <3>2. \A c \in blocked' : c \in Projections(program.cnf, DOMAIN c)
      BY <1>3, <2>3, <3>1 DEF SatBook
    <3>3. QED
      BY <1>1, <3>1, <3>2 DEF SolverInv, Projections
  <2>4. QED
    BY <1>7, <2>1, <2>2, <2>3 DEF SatNext
<1>8. CASE Sigterm \/ Terminated \/ UNCHANGED vars
  BY <1>1, <1>2, <1>8 DEF Sigterm, Terminated, vars, enumVars, SolverInv, Projections
<1>9. QED
  BY <1>5, <1>6, <1>7, <1>8 DEF Next, Step

(* What ensure_size makes of a matrix that is too small: no zero and no    *)
(* increment is left outside of it.                                        *)
LEMMA EnsureSize ==
    ASSUME NEW m, NEW r \in Nat, NEW c \in Nat, m.rows \in Nat, m.cols \in Nat,
           m.rows < r \/ m.cols < c
    PROVE  /\ DOMAIN ensure_size(m, r, c) = {"rows", "cols", "known", "n"}
           /\ ensure_size(m, r, c).rows = r /\ ensure_size(m, r, c).cols = c
           /\ ensure_size(m, r, c).known \subseteq Cells(r, c)
           /\ DOMAIN ensure_size(m, r, c).n \subseteq Cells(r, c)
<1> DEFINE corner == (m.rows .. r - 1) \X (m.cols .. c - 1)
<1>1. corner \subseteq Cells(r, c)
  BY DEF Cells
<1>2. ensure_size(m, r, c).known = (m.known \cap Cells(r, c)) \cup corner
  BY DEF ensure_size
<1>3. ensure_size(m, r, c).n = Restrict(m.n, DOMAIN m.n \cap Cells(r, c))
  BY DEF ensure_size
<1>4. DOMAIN Restrict(m.n, DOMAIN m.n \cap Cells(r, c)) \subseteq Cells(r, c)
  BY DEF Restrict
<1>5. /\ DOMAIN ensure_size(m, r, c) = {"rows", "cols", "known", "n"}
      /\ ensure_size(m, r, c).rows = r /\ ensure_size(m, r, c).cols = c
  BY DEF ensure_size
<1> HIDE DEF corner
<1>6. QED
  BY <1>1, <1>2, <1>3, <1>4, <1>5

(* Whatever size ensure_size gives the matrix, the cell asked for is in it *)
(* and no increment or zero is left outside.                               *)
LEMMA CountInCells ==
    ASSUME MatrixInv, NEW x \in Nat, NEW y \in Nat, matrix' = count(matrix, x, y)
    PROVE  MatrixInv'
<1> DEFINE e == ensure_size(matrix, x + 1, y + 1)
<1>1. /\ DOMAIN e = {"rows", "cols", "known", "n"}
      /\ e.rows \in Nat /\ e.cols \in Nat /\ x < e.rows /\ y < e.cols
      /\ DOMAIN e.n \subseteq Cells(e.rows, e.cols) /\ e.known \subseteq Cells(e.rows, e.cols)
  <2>1. CASE matrix.rows < x + 1 \/ matrix.cols < y + 1
    <3>1. PICK r \in Nat, c \in Nat : r = x + 1 /\ c = y + 1
      OBVIOUS
    <3>2. matrix.rows \in Nat /\ matrix.cols \in Nat /\ (matrix.rows < r \/ matrix.cols < c)
      BY <2>1, <3>1 DEF MatrixInv
    <3>3. e = ensure_size(matrix, r, c)
      BY <3>1
    <3> HIDE DEF e
    <3>4. /\ DOMAIN e = {"rows", "cols", "known", "n"} /\ e.rows = r /\ e.cols = c
          /\ e.known \subseteq Cells(r, c) /\ DOMAIN e.n \subseteq Cells(r, c)
      BY <3>2, <3>3, EnsureSize
    <3>5. QED
      BY <3>1, <3>4
  <2>2. CASE ~(matrix.rows < x + 1 \/ matrix.cols < y + 1)
    <3>1. e = matrix
      BY <2>2 DEF ensure_size
    <3>2. QED
      BY <2>2, <3>1 DEF MatrixInv
  <2>3. QED
    BY <2>1, <2>2
<1> HIDE DEF e
<1>2. matrix' = [e EXCEPT !.n = @ (+) SetToBag({<<x, y>>})]
  BY DEF count, e
<1>3. /\ DOMAIN matrix' = DOMAIN e /\ matrix'.rows = e.rows /\ matrix'.cols = e.cols
      /\ matrix'.known = e.known /\ matrix'.n = e.n (+) SetToBag({<<x, y>>})
  BY <1>1, <1>2
<1>4. DOMAIN (e.n (+) SetToBag({<<x, y>>})) = DOMAIN e.n \cup {<<x, y>>}
  BY DEF (+), SetToBag
<1>5. <<x, y>> \in Cells(e.rows, e.cols)
  BY <1>1 DEF Cells
<1>6. QED
  BY <1>1, <1>3, <1>4, <1>5 DEF MatrixInv

(* rand alone counts in the matrix.                                        *)
LEMMA MatrixStep == ASSUME BaseInv, [Next]_vars PROVE MatrixInv'
<1>1. CASE RandPair
  <2>1. model \in program.cnf /\ program \in Programs
    BY <1>1 DEF RandPair, BaseInv, SolverInv, ModeInv
  <2>2. Input(model) \in Nat /\ Output(model) \in Nat
    BY <2>1, ValueType DEF Input, Output
  <2>3. QED
    BY <1>1, <2>2, CountInCells DEF RandPair, BaseInv
<1>2. CASE ~RandPair
  <2>1. matrix' = matrix
    BY <1>2 DEF Next, Step, RandNext, RandStart, RandOutput, RandAgain, RandLeave, RandReport,
       Terminated, vars, randVars
  <2>2. QED
    BY <2>1 DEF MatrixInv, BaseInv
<1>3. QED
  BY <1>1, <1>2

(* The counters are numbers, the table of bucketsharp keeps its indices.   *)
LEMMA CountersStep == ASSUME BaseInv, [Next]_vars PROVE CountersInv'
<1>1. UNCHANGED program /\ CountersInv
  BY ModeStep DEF BaseInv
<1>2. found_pairs' \in Nat
  BY <1>1 DEF CountersInv, Next, Step, RandNext, RandStart, RandOutput, RandPair, RandAgain,
     RandLeave, RandReport, Terminated, vars, randVars
<1>3. pi' \in Nat
  BY <1>1 DEF CountersInv, Next, Step, SatNext, SatStart, SatSolve, SatBook, Terminated, vars, satVars
<1>4. DOMAIN ret' = DOMAIN ret
  BY DEF Next, Step, SharpNext, SharpFindOutput, SharpNoOutput, SharpCopy, SharpToolSilent,
     SharpNoBucket, SharpBucket, Terminated, vars, sharpVars
<1>5. QED
  BY <1>1, <1>2, <1>3, <1>4 DEF CountersInv

(* Types and control are inductive.                                        *)
LEMMA BaseStep == BaseInv /\ [Next]_vars => BaseInv'
  BY ModeStep, SolverStep, MatrixStep, CountersStep DEF BaseInv

(* In every run of these modes, the blocking clauses are cubes of models,  *)
(* and CounterMatrix makes no increment outside the matrix, whatever size  *)
(* its resizing left it with.                                              *)
THEOREM OtherTypeCorrect == Spec => []OtherTypeOK
<1>1. BaseInv => OtherTypeOK
  BY ConfigsAssumption DEF BaseInv, ModeInv, SolverInv, MatrixInv, CountersInv, OtherTypeOK, Terminal
<1>2. QED
  BY BaseInit, BaseStep, <1>1, PTL DEF Spec

-----------------------------------------------------------------------------
(* rand *)

(* What the solver and its assumption hold at the steps of the loops: the  *)
(* stale model array still belongs to the assumed output when rand leaves  *)
(* the inner loop.                                                         *)
RandModelInv ==
    /\ pc \in {"rand", "output", "report"} => assum = NoCube
    /\ pc \in {"pair", "again", "leave"} =>
          model \in program.cnf /\ assum = Cube(model, OutputVars)
    /\ pc = "pair" => \A c \in blocked : ~Matches(model, c)
    /\ pc \in {"again", "leave"} => Cube(model, PairVars) \in Pairs
    /\ pc = "leave" =>
          \A m \in program.cnf : Matches(m, assum) => Cube(m, PairVars) \in Pairs

(* A blocking clause is a cube over a pair or over an output.              *)
RandBlockedInv ==
    \A c \in blocked : \E m \in program.cnf :
        c = Cube(m, PairVars) \/ c = Cube(m, OutputVars)

(* The blocked outputs have no pair left.                                  *)
OutputsInv ==
    \A c \in blocked : DOMAIN c = OutputVars =>
        \A m \in program.cnf : Matches(m, c) => Cube(m, PairVars) \in Pairs

(* The blocked pairs are the counted ones, and all of them at the end.     *)
PairsInv ==
    /\ IsFiniteSet(counted) /\ IsFiniteSet(Pairs)
    /\ found_pairs = Cardinality(counted) /\ found_pairs = Cardinality(Pairs)
    /\ Pairs = {x.pair : x \in counted}
    /\ pc \in {"report", "done"} => Pairs = Projections(program.cnf, PairVars)

(* What is counted is a model's pair under the model's output.             *)
PairOf(m) == [pair |-> Cube(m, PairVars), output |-> Cube(m, OutputVars)]
CountedInv == counted \subseteq {PairOf(m) : m \in program.cnf}

RandInv == RandRuns =>
    RandModelInv /\ RandBlockedInv /\ OutputsInv /\ PairsInv /\ CountedInv

-----------------------------------------------------------------------------
(* Cubes *)

(* A model matches a cube of its own variables when it projects to it.     *)
LEMMA CubeMatch ==
    ASSUME NEW m, NEW n, NEW S
    PROVE  /\ DOMAIN Cube(m, S) = S
           /\ Matches(m, Cube(m, S))
           /\ Matches(m, Cube(n, S)) => Cube(m, S) = Cube(n, S)
  BY DEF Cube, Matches, Restrict

(* A cube is given by its values.                                          *)
LEMMA CubeAt == ASSUME NEW m, NEW S, NEW v \in S PROVE Cube(m, S)[v] = m[v]
  BY DEF Cube, Restrict

(* Models that agree on the variables have the same cube.                  *)
LEMMA CubeSame ==
    ASSUME NEW m, NEW n, NEW S, \A v \in S : m[v] = n[v]
    PROVE  Cube(m, S) = Cube(n, S)
  BY DEF Cube, Restrict

(* Cubes that agree on a set of variables agree on a smaller one.          *)
LEMMA SubCube ==
    ASSUME NEW m, NEW n, NEW S, NEW T \in SUBSET S, Cube(m, S) = Cube(n, S)
    PROVE  Cube(m, T) = Cube(n, T)
<1>1. \A v \in S : m[v] = n[v]
  BY CubeAt
<1>2. \A v \in T : m[v] = n[v]
  BY <1>1
<1>3. QED
  BY <1>2, CubeSame

(* Every model matches the empty cube: without assumption all are asked.   *)
LEMMA NoCubeMatch == ASSUME NEW m PROVE Matches(m, NoCube)
  BY DEF Matches, NoCube

(* A model that a clause blocks has its pair counted.                      *)
LEMMA BlockedIsCounted ==
    ASSUME RandBlockedInv, OutputsInv, NEW m \in program.cnf,
           NEW c \in blocked, Matches(m, c)
    PROVE  Cube(m, PairVars) \in Pairs
<1>1. PICK n \in program.cnf : c = Cube(n, PairVars) \/ c = Cube(n, OutputVars)
  BY DEF RandBlockedInv
<1>2. CASE c = Cube(n, PairVars)
  BY <1>2, CubeMatch DEF Pairs
<1>3. CASE c = Cube(n, OutputVars)
  <2>1. DOMAIN c = OutputVars
    BY <1>3, CubeMatch
  <2>2. QED
    BY <2>1 DEF OutputsInv
<1>4. QED
  BY <1>1, <1>2, <1>3

(* What a solver that has no model left says about the pairs.              *)
LEMMA NothingLeft ==
    ASSUME RandBlockedInv, OutputsInv, Left = {}, NEW m \in program.cnf, Matches(m, assum)
    PROVE  Cube(m, PairVars) \in Pairs
<1>1. PICK c \in blocked : Matches(m, c)
  BY DEF Left
<1>2. QED
  BY <1>1, BlockedIsCounted

(* Pairs are projections of models.                                        *)
LEMMA PairsAreProjections ==
    ASSUME RandBlockedInv
    PROVE  Pairs \subseteq Projections(program.cnf, PairVars)
<1> SUFFICES ASSUME NEW c \in Pairs PROVE c \in Projections(program.cnf, PairVars)
  OBVIOUS
<1>1. c \in blocked /\ DOMAIN c = PairVars
  BY DEF Pairs
<1>2. PICK n \in program.cnf : c = Cube(n, PairVars) \/ c = Cube(n, OutputVars)
  BY <1>1 DEF RandBlockedInv
<1>3. c = Cube(n, PairVars)
  BY <1>1, <1>2, CubeMatch
<1>4. QED
  BY <1>3 DEF Projections

-----------------------------------------------------------------------------
(* The steps *)

(* A step that keeps the clauses and the counts keeps what is said of them.*)
LEMMA CountsStay ==
    ASSUME UNCHANGED <<config, program, blocked, found_pairs, counted>>
    PROVE  /\ PairVars' = PairVars /\ OutputVars' = OutputVars /\ Pairs' = Pairs
           /\ RandRuns' = RandRuns
           /\ RandBlockedInv => RandBlockedInv'
           /\ OutputsInv => OutputsInv'
           /\ CountedInv => CountedInv'
           /\ PairsInv /\ (pc' \in {"report", "done"} =>
                             Pairs = Projections(program.cnf, PairVars)) => PairsInv'
<1>1. PairVars' = PairVars /\ OutputVars' = OutputVars
  BY DEF PairVars, InputVars, OutputVars
<1>2. Pairs' = Pairs
  BY <1>1 DEF Pairs
<1>3. RandRuns' = RandRuns
  BY DEF RandRuns
<1>4. RandBlockedInv => RandBlockedInv'
  BY <1>1 DEF RandBlockedInv
<1>5. OutputsInv => OutputsInv'
  BY <1>1, <1>2 DEF OutputsInv
<1>6. PairsInv /\ (pc' \in {"report", "done"} =>
                     Pairs = Projections(program.cnf, PairVars)) => PairsInv'
  BY <1>1, <1>2 DEF PairsInv, Projections
<1>7. CountedInv => CountedInv'
  BY <1>1 DEF CountedInv, PairOf
<1>8. QED
  BY <1>1, <1>2, <1>3, <1>4, <1>5, <1>6, <1>7

(* The outer solve: a model that no clause blocks, or all pairs counted.   *)
LEMMA OutputStep == ASSUME RandInv, RandRuns, RandOutput PROVE RandInv'
<1>1. /\ pc = "output" /\ assum = NoCube
      /\ RandBlockedInv /\ OutputsInv /\ PairsInv /\ CountedInv
  BY DEF RandInv, RandModelInv, RandOutput
<1>2. UNCHANGED <<config, program, blocked, found_pairs, counted>>
  BY DEF RandOutput, randVars
<1>3. RandRuns' /\ PairVars' = PairVars /\ OutputVars' = OutputVars /\ Pairs' = Pairs
  BY <1>2, CountsStay
<1>4. CASE Left = {}
  <2>1. pc' = "report" /\ assum' = NoCube
    BY <1>1, <1>4 DEF RandOutput, Solve
  <2>2. Pairs = Projections(program.cnf, PairVars)
    <3>1. \A m \in program.cnf : Cube(m, PairVars) \in Pairs
      BY <1>1, <1>4, NothingLeft, NoCubeMatch
    <3>2. QED
      BY <1>1, <3>1, PairsAreProjections DEF Projections
  <2>3. RandModelInv'
    BY <2>1 DEF RandModelInv, Terminal, NoCube
  <2>4. QED
    BY <1>1, <1>2, <1>3, <2>1, <2>2, <2>3, CountsStay DEF RandInv
<1>5. CASE Left # {}
  <2>1. pc' = "pair" /\ model' \in Left /\ assum' = Cube(model', OutputVars)
    BY <1>5 DEF RandOutput, Solve
  <2>2. model' \in program.cnf /\ \A c \in blocked : ~Matches(model', c)
    BY <2>1 DEF Left
  <2>3. RandModelInv'
    BY <1>2, <1>3, <2>1, <2>2 DEF RandModelInv, Matches
  <2>4. QED
    BY <1>1, <1>2, <1>3, <2>1, <2>3, CountsStay DEF RandInv
<1>6. QED
  BY <1>4, <1>5

(* The inner solve: a model of the same output, or no pair of it left.     *)
LEMMA AgainStep == ASSUME RandInv, RandRuns, RandAgain PROVE RandInv'
<1>1. /\ pc = "again" /\ model \in program.cnf /\ assum = Cube(model, OutputVars)
      /\ Cube(model, PairVars) \in Pairs
      /\ RandBlockedInv /\ OutputsInv /\ PairsInv /\ CountedInv
  BY DEF RandInv, RandModelInv, RandAgain
<1>2. UNCHANGED <<config, program, blocked, assum, found_pairs, counted>>
  BY DEF RandAgain, randVars
<1>3. RandRuns' /\ PairVars' = PairVars /\ OutputVars' = OutputVars /\ Pairs' = Pairs
  BY <1>2, CountsStay
<1>4. CASE Left = {}
  <2>1. pc' = "leave" /\ model' = model
    BY <1>4 DEF RandAgain, Solve
  <2>2. \A m \in program.cnf : Matches(m, assum) => Cube(m, PairVars) \in Pairs
    BY <1>1, <1>4, NothingLeft
  <2>3. RandModelInv'
    BY <1>1, <1>2, <1>3, <2>1, <2>2 DEF RandModelInv, Matches
  <2>4. QED
    BY <1>1, <1>2, <1>3, <2>1, <2>3, CountsStay DEF RandInv
<1>5. CASE Left # {}
  <2>1. pc' = "pair" /\ model' \in Left
    BY <1>5 DEF RandAgain, Solve
  <2>2. /\ model' \in program.cnf /\ Matches(model', assum)
        /\ \A c \in blocked : ~Matches(model', c)
    BY <2>1 DEF Left
  <2>3. assum = Cube(model', OutputVars)
    BY <1>1, <2>2, CubeMatch
  <2>4. RandModelInv'
    BY <1>2, <1>3, <2>1, <2>2, <2>3 DEF RandModelInv, Matches
  <2>5. QED
    BY <1>1, <1>2, <1>3, <2>1, <2>4, CountsStay DEF RandInv
<1>6. QED
  BY <1>4, <1>5

(* A pair is booked: it is new, and blocked from now on.                   *)
LEMMA PairStep == ASSUME RandInv, RandRuns, RandPair PROVE RandInv'
<1> DEFINE p == Cube(model, PairVars)
           x == [pair |-> p, output |-> Cube(model, OutputVars)]
<1>1. /\ pc = "pair" /\ model \in program.cnf /\ assum = Cube(model, OutputVars)
      /\ \A c \in blocked : ~Matches(model, c)
      /\ RandBlockedInv /\ OutputsInv /\ PairsInv /\ CountedInv
  BY DEF RandInv, RandModelInv, RandPair
<1>2. /\ UNCHANGED <<config, program, model, assum>> /\ pc' = "again"
      /\ blocked' = blocked \cup {p} /\ counted' = counted \cup {x}
      /\ found_pairs' = found_pairs + 1
  BY DEF RandPair, prohibit_project
<1>3. PairVars' = PairVars /\ OutputVars' = OutputVars /\ RandRuns'
  BY <1>2 DEF PairVars, InputVars, OutputVars, RandRuns
<1>4. DOMAIN p = PairVars /\ p \notin blocked
  BY <1>1, CubeMatch
<1>5. Pairs' = Pairs \cup {p} /\ p \notin Pairs
  BY <1>2, <1>3, <1>4 DEF Pairs
<1>6. x \notin counted /\ x.pair = p
  BY <1>1, <1>5 DEF PairsInv
<1>7. RandModelInv'
  BY <1>1, <1>2, <1>3, <1>5 DEF RandModelInv
<1>8. RandBlockedInv'
  BY <1>1, <1>2, <1>3 DEF RandBlockedInv
<1>9. OutputsInv'
  <2> SUFFICES ASSUME NEW c \in blocked', DOMAIN c = OutputVars, NEW m \in program.cnf, Matches(m, c)
               PROVE  Cube(m, PairVars) \in Pairs'
    BY <1>2, <1>3 DEF OutputsInv, Matches
  <2>1. CASE c \in blocked
    BY <1>1, <1>5, <2>1 DEF OutputsInv
  <2>2. CASE c = p
    BY <1>5, <2>2, CubeMatch
  <2>3. QED
    BY <1>2, <2>1, <2>2
<1>10. PairsInv'
  <2>1. IsFiniteSet(counted') /\ Cardinality(counted') = found_pairs'
    <3>1. IsFiniteSet(counted) /\ Cardinality(counted) = found_pairs
      BY <1>1 DEF PairsInv
    <3>2. IsFiniteSet(counted \cup {x}) /\ Cardinality(counted \cup {x}) = found_pairs + 1
      BY <1>6, <3>1, FS_AddElement
    <3>3. QED
      BY <1>2, <3>2
  <2>2. IsFiniteSet(Pairs') /\ Cardinality(Pairs') = found_pairs'
    BY <1>1, <1>2, <1>5, FS_AddElement DEF PairsInv
  <2>3. Pairs' = {y.pair : y \in counted'}
    BY <1>1, <1>2, <1>5, <1>6 DEF PairsInv
  <2>4. QED
    BY <1>2, <2>1, <2>2, <2>3 DEF PairsInv
<1>11. CountedInv'
  BY <1>1, <1>2, <1>3 DEF CountedInv, PairOf
<1>12. QED
  BY <1>3, <1>7, <1>8, <1>9, <1>10, <1>11 DEF RandInv

(* The output of the stale model array is blocked: its pairs are counted.  *)
LEMMA LeaveStep == ASSUME RandInv, RandRuns, RandLeave PROVE RandInv'
<1> DEFINE o == Cube(model, OutputVars)
<1>1. /\ pc = "leave" /\ model \in program.cnf /\ assum = o
      /\ Cube(model, PairVars) \in Pairs
      /\ \A m \in program.cnf : Matches(m, o) => Cube(m, PairVars) \in Pairs
      /\ RandBlockedInv /\ OutputsInv /\ PairsInv /\ CountedInv
  BY DEF RandInv, RandModelInv, RandLeave
<1>2. /\ UNCHANGED <<config, program, model, found_pairs, counted>>
      /\ pc' = "output" /\ assum' = NoCube /\ blocked' = blocked \cup {o}
  BY DEF RandLeave, randVars, prohibit_project
<1>3. PairVars' = PairVars /\ OutputVars' = OutputVars /\ RandRuns'
  BY <1>2 DEF PairVars, InputVars, OutputVars, RandRuns
<1>4. Pairs' = Pairs
  <2>1. DOMAIN o = OutputVars
    BY CubeMatch
  <2>2. ASSUME DOMAIN o = PairVars PROVE o \in blocked
    BY <1>1, <2>1, <2>2 DEF Pairs
  <2>3. QED
    BY <1>2, <1>3, <2>2 DEF Pairs
<1>5. RandModelInv'
  BY <1>2 DEF RandModelInv
<1>6. RandBlockedInv'
  BY <1>1, <1>2, <1>3 DEF RandBlockedInv
<1>7. OutputsInv'
  <2> SUFFICES ASSUME NEW c \in blocked', DOMAIN c = OutputVars, NEW m \in program.cnf, Matches(m, c)
               PROVE  Cube(m, PairVars) \in Pairs
    BY <1>2, <1>3, <1>4 DEF OutputsInv, Matches
  <2>1. CASE c \in blocked
    BY <1>1, <2>1 DEF OutputsInv
  <2>2. CASE c = o
    BY <1>1, <2>2
  <2>3. QED
    BY <1>2, <2>1, <2>2
<1>8. PairsInv'
  BY <1>1, <1>2, <1>4 DEF PairsInv
<1>9. CountedInv'
  BY <1>1, <1>2, <1>3 DEF CountedInv, PairOf
<1>10. QED
  BY <1>3, <1>5, <1>6, <1>7, <1>8, <1>9 DEF RandInv

(* The start, the report, a request to stop, and the end.                  *)
LEMMA QuietStep ==
    ASSUME RandInv, RandRuns,
           RandStart \/ RandReport \/ (Sigterm /\ UNCHANGED randVars) \/ UNCHANGED vars
    PROVE  RandInv'
<1>1. UNCHANGED <<config, program, blocked, model, assum, found_pairs, counted>>
  BY DEF RandStart, RandReport, Sigterm, randVars, vars, enumVars
<1>2. \/ pc' = pc \/ pc' \in {"undefined", "killed"}
      \/ pc = "rand" /\ pc' = "output"
      \/ pc = "report" /\ pc' = "done"
  BY DEF RandStart, RandReport, Sigterm, vars, enumVars
<1>3. RandModelInv /\ RandBlockedInv /\ OutputsInv /\ PairsInv /\ CountedInv
  BY DEF RandInv
<1>4. PairVars' = PairVars /\ OutputVars' = OutputVars /\ Pairs' = Pairs /\ RandRuns'
  BY <1>1, CountsStay
<1>5. RandModelInv'
  BY <1>1, <1>2, <1>3, <1>4 DEF RandModelInv, Terminal, Matches
<1>6. RandBlockedInv' /\ OutputsInv' /\ CountedInv'
  BY <1>1, <1>3, CountsStay
<1>7. PairsInv'
  <2>1. pc' \in {"report", "done"} => pc \in {"report", "done"}
    BY <1>2
  <2>2. pc' \in {"report", "done"} => Pairs = Projections(program.cnf, PairVars)
    BY <1>3, <2>1 DEF PairsInv
  <2>3. QED
    BY <1>1, <1>3, <2>2, CountsStay
<1>8. QED
  BY <1>5, <1>6, <1>7 DEF RandInv

(* Nothing is blocked or counted at the beginning.                         *)
LEMMA RandInitial == Init => RandInv
<1> SUFFICES ASSUME Init PROVE RandInv
  OBVIOUS
<1>1. /\ blocked = {} /\ counted = {} /\ found_pairs = 0 /\ assum = NoCube
      /\ config.mode = "rand" => pc = "rand"
  BY DEF Init, EnumerationInit, RandInit
<1>2. Pairs = {}
  BY <1>1 DEF Pairs
<1>3. RandRuns => RandModelInv /\ RandBlockedInv /\ OutputsInv /\ CountedInv
  BY <1>1 DEF RandRuns, RandModelInv, RandBlockedInv, OutputsInv, CountedInv
<1>4. RandRuns => PairsInv
  BY <1>1, <1>2, FS_EmptySet DEF RandRuns, PairsInv
<1>5. QED
  BY <1>3, <1>4 DEF RandInv

(* Every step of every mode keeps the invariant of rand.                   *)
LEMMA RandStep == BaseInv /\ RandInv /\ [Next]_vars => RandInv'
<1> SUFFICES ASSUME BaseInv, RandInv, [Next]_vars PROVE RandInv'
  OBVIOUS
<1>1. UNCHANGED <<config, program>> /\ (config.mode = "rand" => ~SharpNext /\ ~SatNext)
  BY ModeStep
<1>2. RandRuns' = RandRuns
  BY <1>1 DEF RandRuns
<1>3. CASE RandRuns
  <2>1. ~SharpNext /\ ~SatNext
    BY <1>1, <1>3 DEF RandRuns
  <2>2. \/ RandOutput \/ RandAgain \/ RandPair \/ RandLeave
        \/ RandStart \/ RandReport \/ (Sigterm /\ UNCHANGED randVars) \/ UNCHANGED vars
    BY <2>1 DEF Next, Step, RandNext, Terminated
  <2>3. QED
    BY <1>3, <2>2, OutputStep, AgainStep, PairStep, LeaveStep, QuietStep
<1>4. QED
  BY <1>2, <1>3 DEF RandInv

-----------------------------------------------------------------------------
(* rand blocks an output after its inner loop, by the model array that the *)
(* failed solve left behind: never one with a pair that was not counted.   *)
THEOREM RandBlockedCorrect == Spec => []RandBlocksOnlyCounted
<1>1. RandInv => RandBlocksOnlyCounted
  BY DEF RandInv, RandBlocksOnlyCounted, OutputsInv
<1>2. QED
  BY BaseInit, BaseStep, RandInitial, RandStep, <1>1, PTL DEF Spec

(* rand counts each pair of an input and a first seed bit under one output *)
(* and once, and has counted all of them when it reports.                  *)
THEOREM RandCorrect == Spec => []EveryPairOnce
<1>1. RandInv => EveryPairOnce
  BY DEF RandInv, EveryPairOnce, PairsInv
<1>2. QED
  BY BaseInit, BaseStep, RandInitial, RandStep, <1>1, PTL DEF Spec

(* With one seed literal the pairs hold input and seed, of which the output*)
(* is a function: the pairs counted are those of the whole program, each   *)
(* under the one output it has.                                            *)
THEOREM OneSeedBitCorrect == Spec => []OneSeedBitIsExact
<1>1. BaseInv /\ RandInv => OneSeedBitIsExact
  <2> SUFFICES ASSUME BaseInv, RandInv, RandRuns, Len(program.seeds) = 1, Deterministic, pc = "done"
               PROVE  counted = {PairOf(m) : m \in program.cnf}
    BY DEF OneSeedBitIsExact, PairOf
  <2>1. counted \subseteq {PairOf(m) : m \in program.cnf}
    BY DEF RandInv, CountedInv
  <2>2. ASSUME NEW m \in program.cnf, NEW n \in program.cnf, Cube(m, PairVars) = Cube(n, PairVars)
        PROVE  PairOf(m) = PairOf(n)
    <3>1. PairVars = InputVars \cup Range(program.seeds)
      <4>1. program.seeds \in Seq(0 .. program.nVars - 2)
        BY ProgramTypes DEF BaseInv, ModeInv
      <4>2. Range(program.seeds) = {program.seeds[1]}
        BY <4>1 DEF Range
      <4>3. QED
        BY <4>2 DEF PairVars
    <3>2. /\ Cube(m, InputVars) = Cube(n, InputVars)
          /\ Cube(m, Range(program.seeds)) = Cube(n, Range(program.seeds))
      BY <2>2, <3>1, SubCube
    <3>3. QED
      BY <2>2, <3>2 DEF Deterministic, PairOf
  <2>3. ASSUME NEW m \in program.cnf PROVE PairOf(m) \in counted
    <3>1. Cube(m, PairVars) \in {x.pair : x \in counted}
      BY DEF RandInv, PairsInv, Projections
    <3>2. PICK x \in counted : x.pair = Cube(m, PairVars)
      BY <3>1
    <3>3. PICK n \in program.cnf : x = PairOf(n)
      BY <2>1, <3>2
    <3>4. Cube(m, PairVars) = Cube(n, PairVars)
      BY <3>2, <3>3 DEF PairOf
    <3>5. QED
      BY <2>2, <3>2, <3>3, <3>4
  <2>4. QED
    BY <2>1, <2>3
<1>2. QED
  BY BaseInit, BaseStep, RandInitial, RandStep, <1>1, PTL DEF Spec

-----------------------------------------------------------------------------
(* bucketsharp *)

(* The models with the output of m, and the number of their inputs.        *)
SameOutput(m)  == {x \in program.cnf : Output(x) = Output(m)}
PreImages(m)   == Projections(SameOutput(m), InputVars)

(* An output is blocked when its bucket has its pre-images.                *)
BucketInv ==
    config.tool = "plain" =>
        \A m \in program.cnf : Cube(m, OutputVars) \in blocked =>
            ret[Output(m)] = atoi(Cardinality(PreImages(m)))

SharpInv ==
    /\ verdict = "exhaustive" => config.mode = "bucketsharp" /\ pc = "done"
    /\ config.mode = "bucketsharp" =>
          /\ pc = "sharp" => assum = NoCube
          /\ pc \in {"copy", "tool"} => model \in program.cnf /\ assum = Cube(model, OutputVars)
          /\ \A c \in blocked : \E n \in program.cnf : c = Cube(n, OutputVars)
          /\ BucketInv
          /\ verdict = "exhaustive" => Projections(program.cnf, OutputVars) \subseteq blocked

(* A model's literals, as the lemmas about values need them.               *)
LEMMA Vectors ==
    ASSUME NEW p \in Programs, NEW m \in p.cnf
    PROVE  /\ m \in [0 .. p.nVars - 1 -> BOOLEAN]
           /\ p.ins \in Seq(0 .. p.nVars - 1) /\ p.outs \in Seq(0 .. p.nVars - 1)
<1>1. p.nVars \in Nat /\ p.ins \in Seq(0 .. p.nVars - 2) /\ p.outs \in Seq(0 .. p.nVars - 2)
  BY ProgramTypes
<1>2. 0 .. p.nVars - 2 \subseteq 0 .. p.nVars - 1
  BY <1>1
<1>3. QED
  BY <1>1, <1>2, SeqWiden, ProgramTypes

(* The bits of an output are its value: assuming the bits asks for the     *)
(* models with this value.                                                 *)
LEMMA MatchIsSameOutput ==
    ASSUME program \in Programs, NEW m \in program.cnf, NEW n \in program.cnf
    PROVE  /\ Matches(n, Cube(m, OutputVars)) <=> Output(n) = Output(m)
           /\ Cube(n, OutputVars) = Cube(m, OutputVars) <=> Output(n) = Output(m)
<1> DEFINE o == program.outs
           V == 0 .. program.nVars - 1
<1>1. m \in [V -> BOOLEAN] /\ n \in [V -> BOOLEAN] /\ o \in Seq(V)
  BY Vectors
<1>2. OutputVars = Range(o) /\ Output(n) = interpret(n, o) /\ Output(m) = interpret(m, o)
  BY DEF OutputVars, Output
<1>3. /\ \A k \in 1 .. Len(o) : o[k] \in Range(o)
      /\ \A v \in Range(o) : \E k \in 1 .. Len(o) : o[k] = v
  BY <1>1, LiteralsOf
<1>4. Matches(n, Cube(m, OutputVars)) <=> \A v \in OutputVars : n[v] = m[v]
  BY DEF Matches, Cube, Restrict
<1>5. (\A v \in OutputVars : n[v] = m[v]) <=> \A k \in 1 .. Len(o) : n[o[k]] = m[o[k]]
  BY <1>2, <1>3
<1> HIDE DEF o, V
<1>6. (\A k \in 1 .. Len(o) : n[o[k]] = m[o[k]]) <=> interpret(n, o) = interpret(m, o)
  <2>1. ASSUME \A k \in 1 .. Len(o) : n[o[k]] = m[o[k]] PROVE interpret(n, o) = interpret(m, o)
    BY <1>1, <2>1, InterpretSame
  <2>2. ASSUME interpret(n, o) = interpret(m, o) PROVE \A k \in 1 .. Len(o) : n[o[k]] = m[o[k]]
    BY <1>1, <2>2, InterpretInjective
  <2>3. QED
    BY <2>1, <2>2
<1>7. Cube(n, OutputVars) = Cube(m, OutputVars) <=> Matches(n, Cube(m, OutputVars))
  BY CubeMatch
<1>8. QED
  BY <1>2, <1>4, <1>5, <1>6, <1>7

(* What the external program counts are the pre-images.                    *)
LEMMA SharpCountIsPreImages ==
    ASSUME program \in Programs, model \in program.cnf, assum = Cube(model, OutputVars)
    PROVE  SharpCount = Cardinality(PreImages(model))
<1>1. {x \in program.cnf : Matches(x, assum)} = SameOutput(model)
  BY MatchIsSameOutput DEF SameOutput
<1>2. QED
  BY <1>1 DEF SharpCount, PreImages, Projections

(* A step that keeps clauses and table keeps what is said of them.         *)
LEMMA BucketStays ==
    ASSUME UNCHANGED <<config, program, blocked, ret>>, BucketInv
    PROVE  BucketInv'
<1>1. OutputVars' = OutputVars /\ InputVars' = InputVars /\ \A m : Output(m)' = Output(m)
  BY DEF OutputVars, InputVars, Output
<1>2. \A m : SameOutput(m)' = SameOutput(m)
  BY <1>1 DEF SameOutput
<1>3. \A m : PreImages(m)' = PreImages(m)
  BY <1>1, <1>2 DEF PreImages, Projections
<1>4. QED
  BY <1>1, <1>3 DEF BucketInv

(* If the table has a bucket it has one for every output.                  *)
LEMMA EveryBucketOrNone ==
    ASSUME BaseInv, DOMAIN ret # {}, NEW m \in program.cnf
    PROVE  Output(m) \in DOMAIN ret
<1>1. program \in Programs /\ DOMAIN ret = 0 .. space_size(Len(program.outs)) - 1
  BY DEF BaseInv, ModeInv, CountersInv
<1>2. Len(program.outs) \in Nat /\ Output(m) \in Nat /\ Output(m) < twoTo[Len(program.outs)]
  <2>1. /\ m \in [0 .. program.nVars - 1 -> BOOLEAN]
        /\ program.outs \in Seq(0 .. program.nVars - 1)
    BY <1>1, Vectors
  <2>2. /\ interpret(m, program.outs) \in Nat
        /\ interpret(m, program.outs) < twoTo[Len(program.outs)]
    BY <2>1, InterpretRange
  <2>3. QED
    BY <2>1, <2>2 DEF Output
<1>3. twoTo[Len(program.outs)] \in Nat
  BY <1>2, TwoTo
<1>4. space_size(Len(program.outs)) = twoTo[Len(program.outs)]
  BY <1>1 DEF space_size
<1>5. QED
  BY <1>1, <1>2, <1>3, <1>4

(* Nothing is blocked at the start.                                        *)
LEMMA SharpInitial == Init => SharpInv
  BY DEF Init, EnumerationInit, SharpInit, SharpInv, BucketInv, NoCube

(* The bucket takes the pre-images of the output that is blocked with it.  *)
LEMMA SharpBucketStep ==
    ASSUME BaseInv, SharpInv, config.mode = "bucketsharp", SharpBucket
    PROVE  BucketInv'
<1>1. /\ program \in Programs /\ model \in program.cnf /\ assum = Cube(model, OutputVars)
      /\ BucketInv
  BY DEF BaseInv, ModeInv, SharpInv, SharpBucket
<1>2. /\ UNCHANGED <<config, program, model>>
      /\ ret' = [ret EXCEPT ![Output(model)] = find_models_in_output]
      /\ blocked' = blocked \cup {Cube(model, OutputVars)}
      /\ Output(model) \in DOMAIN Table
  BY DEF SharpBucket, prohibit_project
<1>3. Output(model) \in DOMAIN ret
  BY <1>2 DEF Table
<1>4. OutputVars' = OutputVars /\ InputVars' = InputVars /\ \A m : Output(m)' = Output(m)
  BY <1>2 DEF OutputVars, InputVars, Output
<1>5. \A m : SameOutput(m)' = SameOutput(m)
  BY <1>2, <1>4 DEF SameOutput
<1>6. \A m : PreImages(m)' = PreImages(m)
  BY <1>4, <1>5 DEF PreImages, Projections
<1>7. ASSUME config.tool = "plain", NEW m \in program.cnf, Cube(m, OutputVars) \in blocked'
      PROVE  ret'[Output(m)] = atoi(Cardinality(PreImages(m)))
  <2>1. CASE Output(m) = Output(model)
    <3>1. PreImages(m) = PreImages(model)
      BY <2>1 DEF PreImages, SameOutput
    <3>2. find_models_in_output = atoi(Cardinality(PreImages(model)))
      BY <1>1, <1>7, SharpCountIsPreImages DEF find_models_in_output
    <3>3. QED
      BY <1>2, <1>3, <2>1, <3>1, <3>2
  <2>2. CASE Output(m) # Output(model)
    <3>1. Cube(m, OutputVars) # Cube(model, OutputVars)
      BY <1>1, <2>2, MatchIsSameOutput
    <3>2. ret[Output(m)] = atoi(Cardinality(PreImages(m)))
      BY <1>1, <1>2, <1>7, <3>1 DEF BucketInv
    <3>3. Output(m) \in DOMAIN ret
      BY <1>3, EveryBucketOrNone
    <3>4. QED
      BY <1>2, <2>2, <3>2, <3>3
  <2>3. QED
    BY <2>1, <2>2
<1>8. QED
  BY <1>2, <1>4, <1>6, <1>7 DEF BucketInv, atoi

(* No step of bucketsharp loses an output or claims too much.              *)
LEMMA SharpStep == BaseInv /\ SharpInv /\ [Next]_vars => SharpInv'
<1> SUFFICES ASSUME BaseInv, SharpInv, [Next]_vars PROVE SharpInv'
  OBVIOUS
<1>1. /\ UNCHANGED <<config, program>> /\ program \in Programs
      /\ (config.mode = "bucketsharp" => ~RandNext /\ ~SatNext)
      /\ (config.mode # "bucketsharp" => ~SharpNext)
  BY ModeStep, ConfigsAssumption DEF BaseInv, ModeInv
<1>2. OutputVars' = OutputVars
  BY <1>1 DEF OutputVars
<1>3. CASE config.mode # "bucketsharp"
  <2>1. verdict' = verdict
    BY <1>1, <1>3 DEF Next, Step, Terminated, vars, sharpVars
  <2>2. QED
    BY <1>1, <1>3, <2>1 DEF SharpInv
<1>4. CASE config.mode = "bucketsharp" /\ SharpNext
  <2>0. /\ pc \in {"sharp", "copy", "tool"} /\ verdict # "exhaustive" /\ BucketInv
        /\ pc = "sharp" => assum = NoCube
        /\ pc \in {"copy", "tool"} => model \in program.cnf /\ assum = Cube(model, OutputVars)
        /\ \A c \in blocked : \E n \in program.cnf : c = Cube(n, OutputVars)
    BY <1>4 DEF SharpInv, SharpNext, SharpFindOutput, SharpNoOutput, SharpCopy, SharpToolSilent,
         SharpNoBucket, SharpBucket
  <2>1. CASE SharpFindOutput
    <3>1. /\ UNCHANGED <<blocked, ret, verdict>> /\ pc' = "copy" /\ model' \in program.cnf
          /\ assum' = Cube(model', OutputVars)
      BY <2>1 DEF SharpFindOutput, sharpVars, Left
    <3>2. BucketInv'
      BY <1>1, <2>0, <3>1, BucketStays
    <3>3. QED
      BY <1>1, <1>2, <1>4, <2>0, <3>1, <3>2 DEF SharpInv
  <2>2. CASE SharpNoOutput
    <3>1. /\ UNCHANGED <<blocked, ret, assum>> /\ pc = "sharp" /\ Left = {}
          /\ \/ pc' = "done"
             \/ pc' = pc /\ verdict' = verdict
      BY <2>2 DEF SharpNoOutput
    <3>2. BucketInv'
      BY <1>1, <2>0, <3>1, BucketStays
    <3>3. ASSUME NEW m \in program.cnf PROVE Cube(m, OutputVars) \in blocked
      <4>1. PICK c \in blocked : Matches(m, c)
        BY <2>0, <3>1, NoCubeMatch DEF Left
      <4>2. QED
        BY <2>0, <4>1, CubeMatch
    <3>4. Projections(program.cnf, OutputVars) \subseteq blocked
      BY <3>3 DEF Projections
    <3>5. QED
      BY <1>1, <1>2, <1>4, <2>0, <3>1, <3>2, <3>4 DEF SharpInv, Projections
  <2>3. CASE SharpCopy \/ SharpToolSilent \/ SharpNoBucket
    <3>1. /\ UNCHANGED <<blocked, ret, verdict, model, assum>>
          /\ pc \in {"copy", "tool"} /\ pc' \in {"copy", "tool", "uncaught"}
      BY <2>3 DEF SharpCopy, SharpToolSilent, SharpNoBucket, sharpVars
    <3>2. BucketInv'
      BY <1>1, <2>0, <3>1, BucketStays
    <3>3. QED
      BY <1>1, <1>2, <1>4, <2>0, <3>1, <3>2 DEF SharpInv
  <2>4. CASE SharpBucket
    <3>1. /\ UNCHANGED verdict /\ blocked' = blocked \cup {Cube(model, OutputVars)}
          /\ pc = "tool" /\ pc' \in {"sharp", "undefined", "aborted"} /\ assum' = NoCube
      BY <2>4 DEF SharpBucket, prohibit_project, ToleranceOutcome
    <3>2. BucketInv'
      BY <1>4, <2>4, SharpBucketStep
    <3>3. \A c \in blocked' : \E n \in program.cnf : c = Cube(n, OutputVars)
      BY <2>0, <3>1
    <3>4. QED
      BY <1>1, <1>2, <1>4, <2>0, <3>1, <3>2, <3>3 DEF SharpInv
  <2>5. QED
    BY <1>4, <2>1, <2>2, <2>3, <2>4 DEF SharpNext
<1>5. CASE config.mode = "bucketsharp" /\ ~SharpNext
  <2>1. /\ UNCHANGED <<blocked, ret, verdict, model, assum>>
        /\ pc' = pc \/ (pc \notin Terminal /\ pc' = "killed")
    BY <1>1, <1>5 DEF Next, Step, Sigterm, Terminated, vars, enumVars, sharpVars
  <2>2. BucketInv'
    BY <1>1, <1>5, <2>1, BucketStays DEF SharpInv
  <2>3. QED
    BY <1>1, <1>2, <1>5, <2>1, <2>2 DEF SharpInv, Terminal, Projections
<1>6. QED
  BY <1>3, <1>4, <1>5

(* A count that fits an int comes back unchanged.                          *)
LEMMA AtoiFits ==
    ASSUME NEW n \in Nat, n < twoTo[IntBits - 1]
    PROVE  atoi(n) = n
<1>1. IntBits - 1 \in Nat /\ IntBits \in Nat /\ IntBits - 1 + 1 = IntBits
  BY IntBitsAssumption
<1>2. twoTo[IntBits - 1] \in Nat /\ twoTo[IntBits] = 2 * twoTo[IntBits - 1]
  BY <1>1, TwoTo
<1>3. twoTo[IntBits] \in Nat /\ n < twoTo[IntBits]
  BY <1>2
<1>4. n % twoTo[IntBits] = n
  BY <1>3
<1>5. QED
  BY <1>4 DEF atoi

(* The inputs of a set of models are finitely many.                        *)
LEMMA FinitelyManyCubes ==
    ASSUME NEW p \in Programs, NEW M \in SUBSET p.cnf, NEW S \in SUBSET (0 .. p.nVars - 1)
    PROVE  IsFiniteSet(Projections(M, S)) /\ Cardinality(Projections(M, S)) \in Nat
<1>1. IsFiniteSet([S -> BOOLEAN])
  <2>1. p.nVars - 1 \in Int
    BY ProgramTypes
  <2>2. IsFiniteSet(0 .. p.nVars - 1)
    BY <2>1, FS_Interval
  <2>3. IsFiniteSet(S)
    BY <2>2, FS_Subset
  <2>4. QED
    BY <2>3, FiniteVectors
<1>2. Projections(M, S) \subseteq [S -> BOOLEAN]
  <2>1. ASSUME NEW m \in M PROVE Cube(m, S) \in [S -> BOOLEAN]
    <3>1. m \in [0 .. p.nVars - 1 -> BOOLEAN]
      BY ProgramTypes
    <3>2. \A v \in S : m[v] \in BOOLEAN
      BY <3>1
    <3>3. QED
      BY <3>2 DEF Cube, Restrict
  <2>2. QED
    BY <2>1 DEF Projections
<1>3. QED
  BY <1>1, <1>2, FS_Subset, FS_CardinalityType

(* When bucketsharp says that its search was exhaustive, every output has  *)
(* been counted, and what the external tool printed for it where it is     *)
(* looked for is the number of its pre-images, if that fits an int.        *)
THEOREM SharpExhaustiveCorrect == Spec => []SharpExhaustiveIsTrue
<1>1. BaseInv /\ SharpInv => SharpExhaustiveIsTrue
  <2> SUFFICES ASSUME BaseInv, SharpInv, verdict = "exhaustive" PROVE SharpExhaustiveIsTrue
    BY DEF SharpExhaustiveIsTrue
  <2>1. Projections(program.cnf, OutputVars) \subseteq blocked /\ BucketInv
    BY DEF SharpInv
  <2>2. ASSUME config.tool = "plain", NEW m \in program.cnf,
               Cardinality(PreImages(m)) < twoTo[IntBits - 1]
        PROVE  ret[Output(m)] = Cardinality(PreImages(m))
    <3>1. ret[Output(m)] = atoi(Cardinality(PreImages(m)))
      BY <2>1, <2>2 DEF BucketInv, Projections
    <3>2. Cardinality(PreImages(m)) \in Nat
      <4>1. InputVars \subseteq 0 .. program.nVars - 1 /\ program \in Programs
        <5>1. program \in Programs /\ program.ins \in Seq(0 .. program.nVars - 1)
          BY <2>2, Vectors DEF BaseInv, ModeInv
        <5>2. QED
          BY <5>1, LiteralsOf DEF InputVars
      <4>2. SameOutput(m) \subseteq program.cnf
        BY DEF SameOutput
      <4>3. QED
        BY <4>1, <4>2, FinitelyManyCubes DEF PreImages
    <3>3. QED
      BY <2>2, <3>1, <3>2, AtoiFits
  <2>3. QED
    BY <2>1, <2>2 DEF SharpExhaustiveIsTrue, PreImages, SameOutput
<1>2. QED
  BY BaseInit, BaseStep, SharpInitial, SharpStep, <1>1, PTL DEF Spec

-----------------------------------------------------------------------------
(* #SAT *)

(* The variables counted over, and the limit as the loop reads it: tested  *)
(* after a model, never before the first.                                  *)
CountedVars == IF program.outs = <<>> THEN 1 .. program.nVars - 1 ELSE OutputVars
Counted     == Projections(program.cnf, CountedVars)

SatLoopInv ==
    /\ assum = NoCube
    /\ pc = "sat" => blocked = {} /\ pi = 0
    /\ pc \in {"next", "book", "done"} =>
          /\ Range(projection) = CountedVars
          /\ blocked \subseteq Counted /\ pi = Cardinality(blocked)
          /\ pi <= 1 \/ pi <= config.max_models
    /\ pc \in {"next", "book"} => pi = 0 \/ pi < config.max_models
    /\ pc = "book" => \A c \in blocked : ~Matches(model, c)

SatEndInv ==
    pc = "done" /\ ~terminate =>
        \/ blocked = Counted
        \/ pi >= 1 /\ pi >= config.max_models

SatInv == config.mode = "sat" => SatLoopInv /\ SatEndInv

(* The variables counted over are the program's, so that there are finitely*)
(* many projections.                                                       *)
LEMMA CountedFinite ==
    ASSUME program \in Programs
    PROVE  IsFiniteSet(Counted) /\ Cardinality(Counted) \in Nat
<1>1. CountedVars \subseteq 0 .. program.nVars - 1
  <2>1. program.outs \in Seq(0 .. program.nVars - 2) /\ program.nVars \in Nat
    BY ProgramTypes
  <2>2. OutputVars \subseteq 0 .. program.nVars - 2
    BY <2>1, LiteralsOf DEF OutputVars
  <2>3. 0 .. program.nVars - 2 \subseteq 0 .. program.nVars - 1 /\ 1 .. program.nVars - 1 \subseteq 0 .. program.nVars - 1
    BY <2>1
  <2>4. QED
    BY <2>2, <2>3, Zenon DEF CountedVars
<1>2. QED
  BY <1>1, FinitelyManyCubes DEF Counted

(* Nothing is counted at the start.                                        *)
LEMMA SatInitial == Init => SatInv
  BY DEF Init, EnumerationInit, SatInit, SatInv, SatLoopInv, SatEndInv

(* The projection is the line cr, or all variables but the first.          *)
LEMMA SatStartStep ==
    ASSUME BaseInv, SatLoopInv, SatStart
    PROVE  SatLoopInv' /\ SatEndInv'
<1>1. /\ UNCHANGED <<config, program, blocked, assum, pi>> /\ pc' = "next"
      /\ blocked = {} /\ pi = 0 /\ assum = NoCube
      /\ projection' = IF program.outs = <<>> THEN DefaultProjection ELSE program.outs
  BY DEF SatStart, SatLoopInv
<1>2. Range(projection') = CountedVars /\ CountedVars' = CountedVars
  <2>1. Range(DefaultProjection) = 1 .. program.nVars - 1
    BY DEF Range, DefaultProjection
  <2>2. QED
    BY <1>1, <2>1 DEF CountedVars, OutputVars
<1>3. Cardinality(blocked) = 0
  BY <1>1, FS_EmptySet
<1>4. QED
  BY <1>1, <1>2, <1>3 DEF SatLoopInv, SatEndInv

(* No model is left when every projection is blocked.                      *)
LEMMA SatSolveStep ==
    ASSUME BaseInv, SatLoopInv, SatSolve
    PROVE  SatLoopInv' /\ SatEndInv'
<1>1. /\ UNCHANGED <<config, program, blocked, assum, terminate, projection, pi>>
      /\ pc = "next" /\ assum = NoCube /\ blocked \subseteq Counted
      /\ IF Left = {} THEN pc' = "done"
         ELSE pc' = (IF terminate THEN "done" ELSE "book") /\ model' \in Left
  BY DEF SatSolve, Solve, SatLoopInv, satVars
<1>2. CountedVars' = CountedVars /\ Counted' = Counted
  BY <1>1 DEF CountedVars, OutputVars, Counted, Projections
<1>3. CASE Left = {}
  <2>1. ASSUME NEW m \in program.cnf PROVE Cube(m, CountedVars) \in blocked
    <3>1. PICK c \in blocked : Matches(m, c)
      BY <1>1, <1>3, NoCubeMatch DEF Left
    <3>2. PICK n \in program.cnf : c = Cube(n, CountedVars)
      BY <1>1 DEF Counted, Projections
    <3>3. QED
      BY <3>1, <3>2, CubeMatch
  <2>2. blocked = Counted
    BY <1>1, <2>1 DEF Counted, Projections
  <2>3. QED
    BY <1>1, <1>2, <1>3, <2>2 DEF SatLoopInv, SatEndInv
<1>4. CASE Left # {}
  <2>1. \A c \in blocked : ~Matches(model', c)
    BY <1>1, <1>4 DEF Left
  <2>2. \A c \in blocked' : ~Matches(model, c)'
    BY <1>1, <2>1 DEF Matches
  <2>3. SatLoopInv'
    BY <1>1, <1>2, <1>4, <2>2 DEF SatLoopInv
  <2>4. SatEndInv'
    BY <1>1, <1>4 DEF SatEndInv
  <2>5. QED
    BY <2>3, <2>4
<1>5. QED
  BY <1>3, <1>4

(* A projection is counted when it is blocked, and it is new.              *)
LEMMA SatBookStep ==
    ASSUME BaseInv, SatLoopInv, SatBook
    PROVE  SatLoopInv' /\ SatEndInv'
<1> DEFINE c == Cube(model, CountedVars)
<1>1. /\ UNCHANGED <<config, program, model, assum, terminate, projection>>
      /\ pc = "book" /\ assum = NoCube /\ pi' = pi + 1 /\ Range(projection) = CountedVars
      /\ blocked' = blocked \cup {c} /\ blocked \subseteq Counted /\ pi = Cardinality(blocked)
      /\ pc' = IF pi' >= config.max_models THEN "done" ELSE "next"
      /\ pi = 0 \/ pi < config.max_models
  BY DEF SatBook, SatLoopInv, prohibit_project
<1>2. CountedVars' = CountedVars /\ Counted' = Counted
  BY <1>1 DEF CountedVars, OutputVars, Counted, Projections
<1>3. /\ model \in program.cnf /\ program \in Programs
      /\ pi \in Nat /\ config.max_models \in Nat
  BY <1>1, ConfigsAssumption DEF BaseInv, SolverInv, ModeInv, CountersInv
<1>4. c \notin blocked /\ c \in Counted
  BY <1>1, <1>3, CubeMatch DEF SatLoopInv, Counted, Projections
<1>5. Cardinality(blocked') = Cardinality(blocked) + 1
  <2>1. IsFiniteSet(blocked)
    BY <1>1, <1>3, CountedFinite, FS_Subset
  <2>2. QED
    BY <1>1, <1>4, <2>1, FS_AddElement
<1>6. blocked' \subseteq Counted
  BY <1>1, <1>4
<1> HIDE DEF c
<1>7. QED
  BY <1>1, <1>2, <1>3, <1>5, <1>6 DEF SatLoopInv, SatEndInv

(* Every step keeps the invariant of #SAT.                                 *)
LEMMA SatStep == BaseInv /\ SatInv /\ [Next]_vars => SatInv'
<1> SUFFICES ASSUME BaseInv, SatInv, [Next]_vars, config.mode = "sat" PROVE SatInv'
  BY ModeStep DEF SatInv
<1>1. UNCHANGED <<config, program>> /\ ~RandNext /\ ~SharpNext
  BY ModeStep
<1>2. CASE SatNext
  BY <1>1, <1>2, SatStartStep, SatSolveStep, SatBookStep DEF SatNext, SatInv
<1>3. CASE ~SatNext
  <2>1. /\ UNCHANGED <<blocked, model, assum, satVars>>
        /\ \/ pc' = pc /\ (pc = "done" => terminate' = terminate)
           \/ pc' = "killed"
    BY <1>1, <1>3 DEF Next, Step, Sigterm, Terminated, Terminal, vars, enumVars
  <2>2. CountedVars' = CountedVars /\ Counted' = Counted
    BY <1>1 DEF CountedVars, OutputVars, Counted, Projections
  <2>3. SatLoopInv'
    BY <1>1, <2>1, <2>2 DEF SatInv, SatLoopInv, satVars, Matches
  <2>4. SatEndInv'
    BY <1>1, <2>1, <2>2 DEF SatInv, SatEndInv, satVars
  <2>5. QED
    BY <2>3, <2>4 DEF SatInv
<1>4. QED
  BY <1>2, <1>3

(* The smaller and the larger of two numbers.                              *)
LEMMA MinMaxOfTwo ==
    ASSUME NEW a \in Nat, NEW b \in Nat
    PROVE  Min({a, b}) = (IF a <= b THEN a ELSE b) /\ Max({a, b}) = (IF a <= b THEN b ELSE a)
<1>1. CASE a <= b
  <2>1. Min({a, b}) = a
    BY <1>1 DEF Min
  <2>2. Max({a, b}) = b
    BY <1>1 DEF Max
  <2>3. QED
    BY <1>1, <2>1, <2>2
<1>2. CASE ~(a <= b)
  <2>1. Min({a, b}) = b
    BY <1>2 DEF Min
  <2>2. Max({a, b}) = a
    BY <1>2 DEF Max
  <2>3. QED
    BY <1>2, <2>1, <2>2
<1>3. QED
  BY <1>1, <1>2

(* #SAT has counted each projection to the line cr at most once when it    *)
(* ends, and if no one asked it to stop, all of them or as many as the     *)
(* limit says.                                                             *)
THEOREM SatCountsCorrect == Spec => []SatCountsProjections
<1>1. BaseInv /\ SatInv => SatCountsProjections
  <2> SUFFICES ASSUME BaseInv, SatInv, config.mode = "sat", program.outs # <<>>, pc = "done"
               PROVE  SatCountsProjections
    BY DEF SatCountsProjections
  <2> DEFINE N == Cardinality(Counted)
             limit == Max({1, config.max_models})
  <2>1. /\ program \in Programs /\ config.max_models \in Nat /\ pi \in Nat
    BY ConfigsAssumption DEF BaseInv, ModeInv, CountersInv
  <2>2. N = Cardinality(Projections(program.cnf, OutputVars))
    BY DEF Counted, CountedVars
  <2>3. N \in Nat /\ IsFiniteSet(Counted)
    BY <2>1, CountedFinite
  <2>4. /\ blocked \subseteq Counted /\ pi = Cardinality(blocked)
        /\ pi <= 1 \/ pi <= config.max_models
        /\ ~terminate => blocked = Counted \/ (pi >= 1 /\ pi >= config.max_models)
    BY DEF SatInv, SatLoopInv, SatEndInv
  <2>5. pi <= N
    BY <2>3, <2>4, FS_Subset
  <2>6. limit = IF 1 <= config.max_models THEN config.max_models ELSE 1
    BY <2>1, MinMaxOfTwo
  <2>7. limit \in Nat
    BY <2>1, <2>6
  <2>8. ~terminate => pi = N \/ (pi >= 1 /\ pi >= config.max_models)
    BY <2>4
  <2> HIDE DEF N, limit
  <2>9. Min({N, limit}) = IF N <= limit THEN N ELSE limit
    BY <2>3, <2>7, MinMaxOfTwo
  <2>10. ~terminate => pi = Min({N, limit})
    BY <2>1, <2>3, <2>4, <2>5, <2>6, <2>8, <2>9
  <2>11. QED
    BY <2>2, <2>5, <2>10 DEF SatCountsProjections, limit
<1>2. QED
  BY BaseInit, BaseStep, SatInitial, SatStep, <1>1, PTL DEF Spec

=============================================================================
