# A formal model of sharpPI

sharpPI counts, with a SAT solver, how many inputs (secrets) of a C program lead
to each of its outputs, and computes entropies from that histogram.  This
directory holds TLA+ modules of its counting modes, of what surrounds them
(command line, parser, output files) and of the SAT solver beneath them, the TLC
configurations that check them on small instances, and TLAPS proofs of most of
the properties for every CNF, every formula and every number of variables.

```
tlc -config modes.cfg MCSharpPI          # and the other .cfg files
tlapm SharpPIProofs.tla                  # and the other *Proofs modules
```

## 1. The system

| component | source | state | operations | interacts with |
|---|---|---|---|---|
| mode loops | `main.cpp` | `b`, histogram `ret`, loop counter | `det_bucket`, `count_deterministic` (bucketa), `det_unguided`, `det_sync`, `ndet` (rand), `det_bucket_sharp`, `count_sat` | call the counter until it returns false, then print a verdict and `write_final_result` |
| counter | `PICounter.cpp/.h` | the literal lists, the tolerance, and what it put into the solver | `count_one_bucket`, `count_bucket_all`, `count_unguided`/`count_unstructured_one`, `prepare_sync_counting`, `count_sync`, `count_rand`, `count_one_bucket_sharp`, `count_sat` | solver calls, flag reads, tolerance checks |
| solver interface | `sat.h`, `sat.cpp` | none of its own | `solve` with and without assumptions, `add_clause`, `new_variable`, `model_value` | adding blocking clauses while enumerating models |
| MiniSat's search | vendored `minisat/core` | clauses, learnts, watches, trail, heap, model array | `addClause_`, `solve_`, `propagate`, `analyze`, `simplify`, `reduceDB`, garbage collection, `toDimacs` | called through `sat.h` |
| MiniSat's simplification | vendored `minisat/simp`, `minisat/mtl` | subsumption queue, elimination heap, stored clauses | `addClause_`, `eliminate`, subsumption, asymmetric branching, `extendModel`, `interrupt` | built with MiniSat; `sat.h` uses the core solver alone |
| entropy | `entropy.cpp/.h` | none; `CounterMatrix` for rand | Shannon and min entropy, upper and lower bound | `tolerance_met`, final report, statistic |
| termination request | `main.cpp:18-34` | `_user_want_terminate` | signal handler | read by every loop at a place of its own |
| external counters | `sharpsat.*` | temporary file, child process | run a #SAT program on the CNF plus an output cube | bucketsharp mode |
| statistics, pair list | `stat.h`, `PICounter.cpp:16-37, 94-101` | last values, output buffers | `stat_point` after each counted input | reads histogram and solver |
| parsers, command line | `cbmcparser.*`, `dimacsparser.*`, `CommandLineArguments.*` | variable tables, options | read the CNF, select variables by name | produce the counter's literal lists |

What is hard here is not concurrency between threads (there is one) but long
protocols with a stateful solver: three kinds of blocking clauses, an
assumption that must be right at each call, a model array that is read after a
call that failed, return values with three meanings, a signal that may come
between any two steps, and entropies at the edges (no output bit, no input,
nothing counted).  `PROJECT.json` lists these hazards with their lines and the
properties that cover them.

Correctness of each component, informally:

* *every mode*: each input is counted once and for its own output; if nobody
  allows an early end, the report is exact and the run ends;
* *bucket, bucketa*: one output at a time; no pre-image is lost when the output
  is blocked;
* *sync*: each output has one label; a closed bucket is complete; open buckets
  advance evenly;
* *entropy*: the bounds enclose the entropy of the program's histogram, and are
  computed only when they are defined;
* *report*: the verdict line is true, and the integer division in it fails only
  when there is nothing to report;
* *rand*: each pair of an input and a seed bit is counted once; an output is only
  blocked when none of its pairs is left; the matrix holds what was counted;
* *bucketsharp, #SAT*: the number an external counter gives is that of the
  program's pre-images; the verdict is true;
* *parser, command line*: the solver gets the clauses of the file, and a selected
  variable stands for all its bits; no run on a regular file is undefined;
* *pair list, statistics*: each line shows the model or total it belongs to (it
  does not, see run `output_files`);
* *MiniSat*: every answer is right for all the clauses added before it, whatever
  was learnt, deleted, moved, eliminated or interrupted in between.

## 2. The modules

| module | models | notes |
|---|---|---|
| `BitVectors` | `interpret`: the value of a list of literals in a model | one fold, used by all modes |
| `Entropy` | `entropy.cpp`, sums of `entropy.h` | pure operators; an entropy `H` over `SI` inputs is kept as `2^(SI*H)`, the product of the `v^v`, so that comparisons are exact |
| `PICounter` | state and helpers shared by the modes: projections, `interpret`, solver, histogram, `tolerance_met`, the setup in `run` | solver state = CNF as a set of models + the blocked input and output cubes + the model array |
| `BucketMode` | `count_one_bucket` under `det_bucket` and `count_bucket_all` | one action per stretch of code between two solver calls or flag reads |
| `UnguidedMode` | `count_unstructured_one` under `det_unguided` | |
| `SyncMode` | `prepare_sync_counting`, `count_sync` under `det_sync` | adds labels, cursor and `one_open` |
| `SharpPI` | `main.cpp`: the mode's steps, SIGTERM at any moment, the final report | composes the three modes; `Spec`, `FairSpec` |
| `PreimageCount` | nothing of the code: what any counting strategy promises | abstract specification, refined by `SharpPI` |
| `SharpPIProps` | the properties of a run | |
| `Enumeration` | what the three other modes share: a CNF used up by blocking clauses over projections | |
| `RandMode` | `count_rand` under `ndet`, `CounterMatrix` with its uninitialised cells | the bag of increments still in the matrix, and the cells that were ever set to 0 |
| `SharpMode` | `count_one_bucket_sharp` under both loops of `det_bucket_sharp`, class `SharpSAT` | the external program is a count; `atoi` wraps |
| `SatMode` | `PICounter::count_sat` under `count_sat` | reachable from no argument of `--mode` |
| `OtherModes` | a run in one of these modes, SIGTERM at any moment; its properties | |
| `CommandLine` | `store`, help, `notify`, the choice of the external tool | |
| `Parser` | `CBMCParser`, `DimacsParser`: one action per kind of line; the selection of variables by name | a line is a record of its kind and numbers |
| `Frontend` | `run`, `ensure_variables`, the literal lists, `stat_point`, the pair list, `Statistic::update`, what a mode reads of a model, the division in the report; its properties | the counting itself is reduced to "models with new projections", without tolerance or request to stop |
| `Order` | what `std::sort`, a `std::set` and a loop that keeps some elements leave | shared by parser and solver |
| `Literals` | `mkLit`, `sign`, `var`; models of clauses | shared by the solver's modules |
| `SatOracle` | nothing of the code: what the counting modes take a solver for | abstract specification, refined by `Solver` |
| `Solver` | the core solver: one action per step between two choices of `search` and `propagate` | |
| `DimacsWriter` | `toDimacs` with its assert | pure operators on the solver's state |
| `SolverProps` | the properties of the solver | |
| `Queue`, `Heap` | `mtl/Queue.h`, `mtl/Heap.h` | pure operators on the arrays |
| `Clauses` | `Clause::subsumes`, `SimpSolver::merge` | pure operators |
| `Simplification` | the operations of the simplifier as functions of its state | |
| `SimpSolver` | `solve_` and `eliminate` of the simplifying solver, step by step, interrupts between any two | |
| `SimpProps` | the properties of the simplifier | |
| `MCSharpPI`, `MCOtherModes`, `MCFrontend`, `MCSolver`, `MCSimp` | the instances for TLC | |
| `CountingLemmas`, `PreimageCountProofs`, `SharpPIProofs` | theorems about counting, the abstract counter, the deterministic modes | `CountingLemmas` also holds what is used everywhere: `interpret` is injective and a sum of powers of two, sums and sizes of histograms, how their entropy grows, what sorting, filtering and flattening leave of a sequence |
| `OtherModesProofs` | theorems about rand, bucketsharp, #SAT | |
| `ClauseProofs`, `SolverProofs`, `SolverMeaningProofs` | theorems about the ring buffer and clauses, the clause database, the search, its answers | each extends the one before |
| `FrontendProofs` | theorems about the parser, the selection and how a run ends | |

Some operators are headed "Mutant of ...".  They are wrong variants of the
definition below them and are not part of any specification: each shows that a
property notices a plausible slip in that piece of code.

### How the model corresponds to the code

* `pc` is the place in the mode's loop: `head` (loop head in `main.cpp`),
  `solve` (a solve without assumption), `book` (a model is in the array, to be
  counted), `next` (`solve(assum)`), `check` (`tolerance_met`), `prepare`,
  `visit`, `round` (sync), `report`.  It ends in `done`, `sigfpe` (division by
  zero), `aborted` (assert), `uncaught` (exception leaves `main`) or `killed`.
* The solver is an oracle: `solve` returns any model of what is left
  (`\E m \in Models`), or fails when there is none.  A clause added by
  `prohibit_project` is the negation of a cube, so the clause database is `cnf`
  plus `blockedIn` and `blockedOut`; the clauses of sync are `labels`, active
  while their label is assumed true.  That MiniSat's search is such
  an oracle is the theorem `OracleCorrect` (and run `solver`, which also
  shows that it answers).
* `model` is MiniSat's model array.  `solve_` sets its length to 0 and, when it
  fails, leaves the old words in place; `modelValue` does not look at the
  length.  So a failing solve leaves `model` as it was, and `LeaveBucket` blocks
  the output of that stale model, as `count_one_bucket` does.
* `terminate` is `_user_want_terminate`.  `config.handler` says whether `main`
  installed the handler.  The repository's `main` does not (`install_handler`
  has no caller); both values are checked, because the loops were written for
  the installed one and because the first one is what is shipped.
* `config.ndebug` says whether asserts are compiled out (`README.md` builds
  Release, a plain `cmake` does not define `NDEBUG`).
* `b` of `det_unguided` is uninitialised: `PICounterInit` lets it be anything.
* In `RandMode`, `SharpMode` and `SatMode` the solver is again an oracle: `Left`
  are the models that no blocking cube excludes, `model` is the stale array.
* In `Solver`, `assigns` and `levels` are derived from `trail` and `trail_lim`.
  Which variable is decided, with which polarity, and which half of the learnt
  clauses is deleted are free choices: activities and saved phases only pick
  among what the model allows.  `wi` is the position in the watch list that
  `propagate` is looking at, so a step is one watcher.
* In `SimpSolver`, the search of `Solver.cc` is seen from outside (its steps are
  those of `Solver`): it learns clauses and units (`Learn`), forgets clauses
  (`Forget`), and answers with a model of the clauses whose watches it can still
  visit (`Visited`, `Found`).  Learnt clauses stay in the clause database, where
  the propagations of later simplifications see them, as in the code.  The rest of
  `solve_` is a `pc` through `eliminate`'s loops; `s` is the simplifier's state, and
  the operators of `Simplification` are its methods as functions of `s`.
* In `Frontend`, an end in `undefined` is a read outside an array, a shift by the
  width of the word or more, or a function that falls off its end without a
  value; a number that was never assigned (the statistic's first total) is the
  value `Unknown`, not an end.
* A tolerance `t` is kept as the rational `2^(t*SI)`; `Off`, 0/1, is the
  command line's default `-INFINITY`.

## 3. What the runs check

| run | question | instance | states |
|---|---|---|---|
| `modes` | are the counts, the verdict, the bounds and termination right in all four modes? | 2 input bits, 2 output bits, 1 other variable, all shapes of a program, tolerances off / met at once / met late, with and without asserts and handler | 102,306 |
| `no_output` | what happens when no output variable is given? | 3 input bits, no output bit, otherwise as above | 167,422 |
| `other_modes` | what do rand, bucketsharp and #SAT count, what not, and do they end? | programs with 0 to 2 input, seed and output bits, three behaviours of the external tool | 48,816 |
| `frontend` | what does a command line and a file make of the clauses and the literals, and how does the run end? | 13 files, regular and irregular, 1,597 command lines, five modes, with and without list, statistic, verbose output, seeds | 98,106 |
| `solver` | do the solver's data structures stay consistent, whatever it decides, deletes, restarts or moves, and is every answer right, and given? | 5 formulas, 4 variables and a label, 4 assumption lists, two questions (one for the largest formula), a clause before, between or after them | 283,595 |
| `simp` | does simplification keep the question, and is each extended model a model? | 7 formulas, 5 variables, 2 option sets, 2 questions, a clause in between, two learnt clauses or units, an interrupt at any step | 1,188,898 |
| `debug_assert` | does `assert( l - u > 0 )` hold? | as `modes`, asserts on | violated |
| `exhaustive_line` | is "Search was exhaustive" true with a tolerance? | as `modes`, Release, no handler | violated |
| `rand_matrix` | does the matrix hold the found pairs? | one program with two outputs | violated |
| `sat_projection` | does #SAT project all variables when no projection is given? | the #SAT programs of `other_modes` | violated |
| `output_files` | do the pair list and the statistic show the count? | one file, bucket mode with `--list` and `--statistic` | violated |
| `simp_interrupt` | is a model a model after an interrupt? | one formula, all variables frozen | violated |

Properties of `modes` (all stated in `SharpPIProps`):

* `TypeOK`;
* `HistogramIsOfCounted`: a bucket holds the number of blocked inputs of its
  output, at every moment;
* `BlockedOutputIsCounted`: an output blocked from the stale model array is
  fully counted, unless a stop was requested;
* `ExhaustiveIsTrue`, `ReportIsExact`: without tolerance and request to stop
  the verdict is true and the histogram is the program's;
* `LabelsAreTheOutputs`, `ClosedIsComplete`, `SyncIsBalanced`: the protocol of
  sync;
* `BoundsBracketTheEntropy`: whenever a mode asks for the bounds some bucket is
  not empty (the code's `max_id` would be -1), and the entropy of the program's
  histogram lies between them;
* `ReportFailsOnlyOnNothing`: the division by zero happens only for a program
  without inputs or a run stopped before its first input;
* `OneBucketAtATime`: the documented order of bucket mode, as an action property;
* `ImplementsPreimageCount`: refinement of the abstract counter;
* `Terminates`: every run ends.

`no_output` checks `NoTableNoAnswer`: `space_size(0)` is 0, the dense modes have
no bucket and die before counting; sync has one bucket for the empty cube.

Properties of `other_modes` (stated in `OtherModes`):

* `OtherTypeOK`;
* `EveryPairOnce`, `RandBlocksOnlyCounted`: rand counts every pair of an input and
  a *first* seed bit under exactly one output, though it blocks outputs from a
  stale model array;
* `OneSeedBitIsExact`: with one seed literal these are all pairs.  With two they
  are not: `count_rand` returns inside its loop over the seed literals.  (Without
  any, it ends without a value: see `WellFormedRunsAreDefined`);
* `SharpExhaustiveIsTrue`: bucketsharp's verdict is true, and a count that fits
  an `int` and is printed where it is looked for arrives in its bucket;
* `SatCountsProjections`: with a projection given, `count_sat` counts each one
  once, and all of them or as many as the limit says;
* `OtherTerminates`: every run ends, unless the CNF has a line that `SharpSAT`
  cannot copy.

Properties of `frontend` (stated in `Frontend`):

* `FrontTypeOK`;
* `WellFormedRunsAreDefined`: a run on a file whose variables have positive
  literals of the clauses ends in undefined behaviour, an exception or a division
  by zero only for one of the reasons in `Cause`, and each of them is enough: no
  run with a cause, on any file, gets past its report.  The causes are an empty
  name; more literals than the word of the mode has bits; rand without seed
  literals (`count_rand` falls off its end); unguided without output literals, or
  with a list or a statistic, which it writes before its first model; a bucket
  mode without output literals that finds a model; and a report on no models.
  Of builds with optimisation nothing is said, since
  `CbmcDimacsParser::handle_comment` ends without a value there;
* `ClausesMeanTheFile`, `BucketIsTheOutput`, `VerboseValueIsTrue`: the solver's
  clauses, the histogram's index and the verbose value are those of the file.

Properties of `solver` (stated in `SolverProps`):

* `SolverTypeOK`, with each clause in exactly its two watch lists between calls;
* `NothingLost`: root assignments and remaining clauses have the models of all
  the clauses ever added;
* `LearntsAreImplied`, `PropagationIsComplete`, `ReasonsAreLive`,
  `NoVariableForgotten`: the facts on which a right answer rests;
* `DumpIsTheLastQuestion`: the DIMACS file means the last question with the
  clauses added since, whatever assumptions `toDimacs` is given;
* `ImplementsSatOracle`: refinement of the oracle, with its liveness: every
  question is answered.

Properties of `simp` (stated in `SimpProps`):

* `SimpTypeOK`, with the ring buffer's positions in range;
* `ProjectionIsKept`: after every step the remaining clauses allow exactly the
  assignments of the remaining variables that extend to all clauses added;
* `AnswersAreRight`: extended models are models of everything added;
* `SubsumptionIsComplete`: when a simplification is over, no clause that subsumes
  or shortens another was missed, nor a unit that a search left behind;
* `HeapPicksTheCheapest`: counters and heap agree with the live clauses.

### The violated claims

* `debug_assert`: `PICounter.h:238` asserts `l - u > 0` with `l` the lower and
  `u` the upper bound.  It fails the first time a tolerance is asked for.  The
  comparison in line 246 has the operands in the same order, so every tolerance
  of 0 or more ends the search at its first check.
* `exhaustive_line`: `main.cpp:119, 160, 198` take the false that a tolerance
  stop returns for exhaustion.
* `rand_matrix`: `found_pairs` (`entropy.h:145`) counts pairs that the matrix does
  not hold: `ensure_size` asks for the size of the current pair in both
  dimensions, and so shrinks one of them.  With the pairs of input 0 and output 1,
  and of input 2 and output 0, whichever come first are dropped.  The 2 x 36 cells
  of a new matrix are never set to 0, and after a resize only the corner that is
  new in both dimensions is; the report sums up what the memory held.
* `sat_projection`: `PICounter.cpp:426` prints "Project all variables!", but the
  loop of line 422 leaves out the first variable of the file and takes in the
  spare one of `ensure_variables`: a file with 2 models is counted 4.  No argument
  of `--mode` selects this function.
* `output_files`: `--list` should "list all input/seed/output pairs"
  (`CommandLineArguments.cpp:107`); the writer takes literals, which count from 1,
  for variables, which count from 0.  Each column shows the next variable, the
  last one the spare variable.  And `number_of_inputs` is the "Number of inputs
  found so far" (`stat.h:43`), but the entropies of a line of the statistic are
  computed from its buckets before that number is brought up to date
  (`stat.h:133-141`), for the first line before it was ever set.
* `simp_interrupt`: an interrupt in `backwardSubsumptionCheck` skips root units
  whose clauses were attached with false watches; the next question may be
  answered with a model that violates such a clause.  sharpPI itself is not
  affected: `sat.h` uses the core solver.

Two more things the code does are in the modules without a claim of the
repository that a run could refute.  `main` never calls `install_handler`, so that
as shipped a SIGTERM kills the process and `_user_want_terminate` stays false
(`SharpPI!Sigterm`, `config.handler`).  And `toDimacs(FILE*, const vec<Lit>& assumps)`
never reads `assumps`: what it adds as units, under the comment "Assumptions are
added as unit clauses" (`Solver.cc:862`), is the member `assumptions` that the last
`solve` left behind, also in the versions of `Solver.h:72-75` for none, one, two or
three literals.  `DumpIsTheLastQuestion` says what the file therefore means.

### Bounds, and why they are enough

* *Programs.*  A CNF is any functional set of models.  Nothing in the code
  depends on which inputs share an output, only on how many: permuting inputs or
  outputs permutes the behaviours.  So one CNF per descending list of pre-image
  sizes stands for all of them (`MCSharpPI!Shapes`).  The lists include the empty
  program, inputs without an output, and up to four outputs.
* *Bits.*  With 4 inputs and 4 outputs a bucket can be first, middle or last,
  can close in different passes, and can be left half counted.  The free
  variable makes two models agree on input and output, so that blocking the
  input must block both.  `no_output` has buckets of up to 8 inputs.
* *Tolerances.*  Off; 2/1, which is met by any bounds; 1/4, which is met while
  the bounds are still far apart and not when they are close.
* *Signals.*  At most one per run: the flag is never reset.
* *Other modes.*  A seed of two bits is the smallest that shows the early return;
  two input bits let the matrix grow in one dimension after the other.  `IntBits`
  is 3, so four pre-images already wrap.
* *Files.*  One file for each form of a line and each irregularity the parser does
  not look at; `UintBits` and `WordBits` are 4, so a negated literal is a huge
  variable as in 32 bits.  `BigTime` is 5, the 10000000 of `collectAllUpdates`; one
  file has updates at that time and later.
* *Solver.*  `Ternary` learns a clause of three literals, `Square` is contradictory
  without a unit, `Chain` has a tautology and propagates at the root, `Clash` fails
  by propagation alone.  `RestartFirst` is 1, so that a restart comes after each
  conflict of the first run of the Luby sequence.  `MaxSolves` and `MaxAdds` bound
  the questions and the clauses added; two questions show what one leaves behind.
  For `Ternary` there is one question: two of them have ten times the states of
  all other formulas together, and `Small` learns between two questions as well.
* *Simplification.*  Each formula is there for one case: a chain of eliminations,
  an exclusive or (resolvents that are tautologies), a contradiction, a clause
  shortened after its literals became false, asymmetric branching, a unit that
  appears in a clause not yet compared, a variable that is eliminated and then
  gets its value from a learnt clause.  `Lemmas` has, for four of the formulas, a
  clause that the search may learn; units are not restricted.  `MaxLearnt` is 2
  (clauses and units per run), `MaxClauses` 6 (no clause is added later when there
  are more), `MaxSolves` 2, `MaxInterrupts` 1.

### Fairness

`FairSpec` asks for weak fairness of `Step`, the one thread of the process: the
operating system does not suspend it for ever, and each solver call returns.
Nothing is assumed about SIGTERM.  `OtherModes!FairSpec` says the same and that
the external program returns.  `Solver!FairSpec` asks for it of `Work`, the steps
of `solve` once it is called; the client need not call.  It needs no fairness
among the free choices: no choice of variables, deletions and restarts keeps the
search from ending.  The frontend and the simplifier are checked for safety only;
their loops run over a file, or over a queue that `ProjectionIsKept` and
`SubsumptionIsComplete` describe when it is empty.

## 4. What is proved

The theorems hold for every value of the constants that satisfies the
assumptions the modules name; TLC evaluates the assumptions in every run.

| theorem | states | module |
|---|---|---|
| `TypeCorrect` | `Spec => []TypeOK` | `SharpPIProofs` |
| `HistogramCorrect` | `Spec => []HistogramIsOfCounted` | `SharpPIProofs` |
| `BlockedOutputCorrect` | `Spec => []BlockedOutputIsCounted` | `SharpPIProofs` |
| `ClosedCorrect` | `Spec => []ClosedIsComplete` | `SharpPIProofs` |
| `ExhaustiveCorrect` | `Spec => []ExhaustiveIsTrue` | `SharpPIProofs` |
| `ReportCorrect` | `Spec => []ReportIsExact` | `SharpPIProofs` |
| `OneBucketCorrect` | `Spec => OneBucketAtATime` | `SharpPIProofs` |
| `BalanceCorrect` | `Spec => []SyncIsBalanced` | `SharpPIProofs` |
| `LabelsCorrect` | `Spec => []LabelsAreTheOutputs` | `SharpPIProofs` |
| `NoTableCorrect` | `Spec => []NoTableNoAnswer` | `SharpPIProofs` |
| `ReportFailureCorrect` | `Spec => []ReportFailsOnlyOnNothing` | `SharpPIProofs` |
| `BoundsCorrect` | `Spec => []BoundsBracketTheEntropy` | `SharpPIProofs` |
| `RefinementCorrect` | `Spec => ImplementsPreimageCount` | `SharpPIProofs` |
| `AnswerCorrect` | the abstract counter's answer is exact | `PreimageCountProofs` |
| `OtherTypeCorrect` | `Spec => []OtherTypeOK` | `OtherModesProofs` |
| `RandCorrect` | `Spec => []EveryPairOnce` | `OtherModesProofs` |
| `RandBlockedCorrect` | `Spec => []RandBlocksOnlyCounted` | `OtherModesProofs` |
| `OneSeedBitCorrect` | `Spec => []OneSeedBitIsExact` | `OtherModesProofs` |
| `SharpExhaustiveCorrect` | `Spec => []SharpExhaustiveIsTrue` | `OtherModesProofs` |
| `SatCountsCorrect` | `Spec => []SatCountsProjections` | `OtherModesProofs` |
| `SolverTypes` | `Spec => []SolverTypeOK` | `SolverProofs` |
| `ReasonsAreLiveHolds` | `Spec => []ReasonsAreLive` | `SolverProofs` |
| `NoVariableForgottenHolds` | `Spec => []NoVariableForgotten` | `SolverProofs` |
| `NothingLostHolds` | `Spec => []NothingLost` | `SolverMeaningProofs` |
| `LearntsAreImpliedHolds` | `Spec => []LearntsAreImplied` | `SolverMeaningProofs` |
| `PropagationIsCompleteHolds` | `Spec => []PropagationIsComplete` | `SolverMeaningProofs` |
| `OracleCorrect` | every step of `Solver` is one of `SatOracle` or a stutter: `ImplementsSatOracle` without its fairness | `SolverMeaningProofs` |
| `DumpCorrect` | `Spec => []DumpIsTheLastQuestion` | `SolverMeaningProofs` |
| `ReplayIsAModel` | the value `extendModel` picks makes a model, whichever literal's clauses are stored | `ClauseProofs` |
| `EliminationKeepsTheProjection` | the resolvents have the models of the clauses, without the variable | `ClauseProofs` |
| `SubsumedClauseMayGo`, `StrengtheningKeepsTheModels` | what `subsumes` answers may be done | `ClauseProofs` |
| `InsertAppends`, `PopTakesTheHead` | the ring buffer is a queue, also when it wraps around or grows | `ClauseProofs` |
| `FrontendTypes` | `Spec => []FrontTypeOK` | `FrontendProofs` |
| `RunsOnWellFormedFiles` | `Spec => []WellFormedRunsAreDefined` | `FrontendProofs` |
| `SolverGetsTheFile` | `Spec => []ClausesMeanTheFile` | `FrontendProofs` |
| `BucketsAreOutputs` | `Spec => []BucketIsTheOutput` | `FrontendProofs` |
| `VerboseValues` | `Spec => []VerboseValueIsTrue` | `FrontendProofs` |

### The assumptions

* `PICounter`: the literals are variables; a configuration has a known mode and
  a tolerance; a CNF is a set of assignments in which an input has at most one
  output (the modes of `SharpPI` are those for deterministic programs).
* `Enumeration`: the literals of a program are variables of its CNF, and the last
  variable, which the parser's count adds (`ensure_variables` makes one more
  than the largest index), is free.
* `IntBits` and `UintBits` are positive, `WordBits` and `BigTime` are natural
  numbers: no relation between them is assumed.
* `RequestsAssumption`: a command line names its roles, a file is a finite
  sequence of lines, and a line holds what `>>` and `stoi` can leave: an `int`.
  A number of a clause is not the smallest `int`, whose absolute value is none
  (`abs` of it is undefined in C), and a time has no sign.  The number of requests is not bounded.
* `Solver`: clauses are finite sets of literals, questions are sequences.
* `OracleAssumption` (used by `OracleCorrect` alone): the client mentions finitely
  many variables, and a clause has at most one literal whose variable is not a
  decision variable.  The only variables `sat.h` creates that are not decision
  variables are those that come with a clause or an assumption, and in sharpPI
  these are the labels of sync's blocking clauses: `PICounter.cpp:225-230` puts
  one of them in a clause.  Without it `solve` could answer "sat" with a clause
  whose two free literals nobody decides; the answer would still be right, but
  the clause would not be true in the model array.

### The deterministic modes

None of the properties is inductive.  The invariant is built in layers, each
proved with the ones before it known in both states of a step:

1. `TypeInv`: types; which mode can be at which `pc` (`PcInv`; also that sync
   asks for the tolerance only inside its loop, so the cursor stays in range);
   and that the model array of the bucket modes belongs to the assumed output
   through the whole bucket, also after the solve that failed (`ModelInv`).
   This is the fact the stale read rests on.
2. `HistInv`: the histogram counts the blocked inputs.  It needs that a model
   about to be booked is not blocked yet (`FreshInv`), that the labels of sync
   differ and cover the outputs (`LabelInv`), and that only the bucket modes
   block outputs.  The counting step itself is the lemma `OneMore`.
3. `BucketInv`: outputs left behind are complete, unless a stop was requested;
   and even then bucket mode never solves again with an incomplete output
   blocked, which is why its verdict stays true.
4. `PassInv`: what sync's pass has left behind is closed or `one_open` is set.
5. `ExhaustInv`: a loop that ends with `b` false and neither tolerance nor
   request to stop has found no model left, or all buckets closed.
6. `BalanceInv`: the open buckets have the same size but for the visits of the
   current pass, the ones before the cursor being one ahead.  It needs that a
   new pass begins only after one that was not cut short.
7. `NamedInv`: each label of sync stands for an output of a model.
8. `TableInv`: a dense mode without buckets counts nothing and has no answer.
9. `EndInv`: which ends are possible, and what they say about what was counted.

`RefinementCorrect` then needs that the histogram *by output value* is the one by
output.  That is that `interpret` is injective, and below `2^n`
(`CountingLemmas`).  It is an induction over the literals; the library's
induction theorem cannot be applied here, so it goes through a least
counterexample (`Least`: a non-empty set of naturals has a least element).
`AnswerInv` collects the parts that tell an answer the abstract counter may give.

`BoundsCorrect` follows from `AnswerInv` when the tolerance is asked for: each
input has exactly one bucket by then, something is counted, and no bucket holds
more than the program puts there.  What remains is arithmetic about histograms
(end of `CountingLemmas`).  The lower bound is the weight, the product of the
`v^v`, of smaller buckets (`EntropyGrows`).  For the upper one, `v^v` is
log-convex, `((n+1)^(n+1))^2 <= n^n * (n+2)^(n+2)` (`WeightIsConvex`, from
Bernoulli's inequality without fractions), so `x` inputs weigh more in the larger
of two buckets (`LargerTakesMore`), and moving what is missing, bucket by bucket,
into the largest one only adds weight (`LargestTakesAll`).  A program without
input variables is a case of its own: `space_size(0)` is 0, the residuum is -1,
and all weights are 1.  `Entropy` defines `Power` itself, since the provers know
nothing of `^` with a variable exponent.

### Rand, bucketsharp, #SAT

`BaseInv` has the types, and where the model array holds a model.  For rand the
rest says what the stale model array is worth: while an output is counted the
array belongs to that output (`RandModelInv`), every blocking clause is a cube
over a pair or over an output (`RandBlockedInv`), and an output that is blocked
has no pair left (`OutputsInv`).  A solve that fails then means that all the
pairs it was asked about are blocked, hence counted (`NothingLeft`).
`OneSeedBitCorrect` adds that each counted pair is that of a model, with its
output (`CountedInv`), and that for a program whose output depends on input and
seed there is one output for each pair.  `SharpInv` says that a blocked output
has `atoi` of its count in its bucket; two outputs do not share a bucket because
`interpret` is injective.  `SatInv` counts the blocking clauses, each the cube of
a projection that was not blocked before.

### The solver

`BaseInv` is the inductive invariant of the data structures, with the parts

* `VarsInv`: variables, heap, assumptions; an unassigned decision variable is in
  the heap;
* `DbInv`: each live clause has two literals or more, all different, and is
  in the two lists of its first two literals once; what a list holds besides is
  a deleted clause, and then it is among the lists to be cleaned (`ClauseProofs`
  proves it for every
  operation on the database, among them `garbageCollect`, which moves clauses);
* `TrailOK`: no variable is assigned twice, levels are ordered; a reason is live,
  has its literal first and the others false before it; an assignment without a
  reason above the root level begins a level;
* `FlowInv`: where the search is, how far propagation has come, and what `ok` says;
* `WalkInv`: while `propagate` is in the middle of a watch list, the fact whose
  list it is was assigned on the last level;
* `ConflInv`: the clause in conflict is live and all its literals are false, one
  of them on the last level;
* `ClientInv`: what the caller has added.

`MeaningInv` (over *all* total assignments of the natural numbers' literals, so that
new variables do not change what is quantified over) says that an assignment
satisfies all that was added exactly if it satisfies the clauses kept and the
root assignments and `ok` is true, and that it then satisfies the learnt clauses.
The step that is hard is `Learn`: for a model `m` of the clauses, at every
position of `analyze`'s walk down the trail one of the variables seen has an
assignment that `m` does not share (`SeenBroken`), because the reason of such an
assignment is true in `m` and its other literals are false on the trail; the
same holds for what minimisation leaves (`MinimisedBroken`), so the learnt clause
is true in `m`.

`PropagatedInv` says of every clause with a false watch that `propagate` has been
past: it is true, and its true literal was assigned at no later level than that
watch.  The second half is what makes it survive backjumps: blockers and lazy
watches leave false watches behind on purpose.  From it,
`PropagationIsComplete` follows when the queue is empty.

`OracleCorrect` adds that the first levels of the trail are the assumptions', and
begin with them unless they are empty (`AssumedInv`), that every clause kept of
the client is part of one added (`OriginInv`), and which answers are pending
(`PendingInv`).

* *sat*: no decision variable is left unassigned; a clause without a true literal
  would have two unassigned ones, which `OracleAssumption` excludes; so the model
  array, completed with the labels as they please, satisfies what was kept, hence
  what was added (`MeaningInv`), and the assumptions (`AssumedInv`).
* *unsat*: `analyzeFinal` sees a set of variables that contains the false
  assumption and is closed under antecedents.  A model that does not share one
  of their assignments does not share one that has no antecedents
  (`DecisionBroken`): those are assumptions, and they are reported.  At the root
  level the conflict, or the false assumption, contradicts what was added.

`DumpCorrect` is about the file `toDimacs` writes between two questions, when all
of the trail is at the root level.  Its assumptions are the member's, which
`BaseInv` has as a sequence of literals of known variables, and of which none is
false if the assert passes.  `mapVar` numbers the variables in the order in
which they are met, so the file has the models of the clauses and assumptions
written, renamed one to one (`PrintedModels`).  What is left out does not matter:
a clause is dropped if the root level makes it true, a literal if it makes it
false, and the clauses, the root assignments and `ok` mean what was added
(`MeaningInv`).  So a model of what was added and of the assumptions gives one of
the file (`AskedGivesFile`).  Back, a model of the file is completed with the root
assignments (`FileGivesAsked`): the two can meet only in the variable of an
assumption, which then is true already.  If `ok` is false, the file says `x` and
not `x`.  `Written` keeps the positions that `Order`'s `Kept` names, as
`cleanAll` does, because the prover has no definition of `SelectSeq`.

### The frontend

`IInv` relates what is kept to the part of the file that was read:

* `Parsed`: the clauses, as sets, are those of the lines read, whichever way a
  line ends, and `max_var` is at least as large as their literals;
* `Picked`: `variables` and what is collected of them come from readable lines,
  and the literal lists are those of the variables collected;
* `Counted`: the solver has its spare variable before anything is counted; what
  is counted are models over these variables; once something was counted all
  literals that the mode reads (`Read`) are inside them, since a mode that read one
  outside would have ended there;
* `Reported`: the pair list of a bucket mode has a row for every input counted, but
  for the one whose `stat_point` is still to come (`Due`), with a value in each
  column;
* `Begun`: a run that counts, or has counted, has none of the causes that end it
  before: no empty name, no shift too wide, a seed literal in rand, an output
  literal in unguided, and no list or statistic there, which would have been
  written before its first model;
* `WellFormedRunsAreDefined`, which is inductive with the others: a step that
  ends badly has a cause (`FailsWithCause`) or reads a selected literal that
  `WellFormed` puts among the clauses', and a step that ends well has ruled out
  the last causes, those that need a model or the lack of one
  (`FinishedWithoutCause`).

Of the theorems `BucketsAreOutputs` is the one with an argument of its own.  The
bucket is computed from the *sorted set* of the literals of all variables, the
value of a variable from its *bits*, with repetitions and constants.  Two models
have the same bucket exactly if they agree on the set (`SameWord`: `interpret` is
injective as long as the vector fits the word), and the same value of a variable
exactly if they agree on its bits that are literals; the set is the union of
these.  That the set is sorted and complete is `RangeOfSorted`, that flattening
keeps it `FlattenIs`.  `VerboseValues` needs that `interpret`, a fold, is the sum
over the true bits (`InterpretIsSum`).

Proving this showed two places where the model had said too much.  `WellFormed`
took the largest literal from all numbers of a clause's line, also from those
after its 0, which the parser does not read; a file with such a line is now not
well-formed, as the code would have it.  And `BucketIsTheOutput` spoke of values
as numbers, where `interpret` returns a word: two outputs of more bits than the
word may differ in a lost bit only and then share a value, not a bucket.  The
property says now that the variables fit.

### Clauses and queue

`ClauseProofs` begins with sets of clauses over any set of variables, with the
operators `subsumes`, `merge` and `Tautology` of the model; an assignment is a
set of literals, one of each variable.  The value for the eliminated variable is
the one `extendModel` picks, and the clauses of the other literal are true since
their resolvents with the ones it was picked for are.  The operators around it
(`Without`, `ResolventsOn`, `Replayed`) are `eliminateVar` and `extendModel` on
sets, without the order in which the code goes through its vectors.

The theorems about the queue hold for all buffers, first and end positions the constructor,
`insert`, `pop` and `clear` can produce (`Rings`), of any size and elements.

## 5. What is only model-checked

* `Terminates`, `OtherTerminates`, and that every question is answered (the
  fairness in `ImplementsSatOracle`): liveness is beyond the prover.
* The simplifier's invariants: every operation of `Simplification` is a chain of
  functions of its state, each of which breaks and restores them.  The facts about
  clauses on which they rest are proved.

## 6. Abstractions

* Floating point: the entropies are exact here.  Two bounds that differ by less
  than the rounding error may compare differently in the code.
* Machine words: counters and indices are unbounded; the code is modelled for
  fewer than 32 output bits and 64 input bits.
* `shannon_entropy_lower_bound` equalises the open buckets in a queue and then
  drops the queue.  Only the value it returns is modelled.
* The three modes need a deterministic program (`CNFsAssumption`).  For another
  one they count each input for the first output the solver happens to return.
* Input and output variables are assumed to occur in the CNF, since the solver
  creates variables from the clauses only.
* In `SharpPI`, `--verbose`, `--statistic` and `--list` are off.  `Frontend` has
  them, with the counting reduced to models in any order.
* Regular expressions and number formats: a line is given by its kind.
* `Solver`: conflict clause minimisation may be any removal that the recursion
  justifies; the watch lists keep their order; memory is unlimited, but clauses
  move and references are updated as `garbageCollect` does.
* `SimpSolver`: watches are in reference order and without blockers; an answer is
  forgotten at the client's next call; garbage collection and the memory released
  by `cleanUpClauses` are left out.

## 7. What is not modelled

* Verbose output, helpers and version: formatting and timing.
* Floating point in the entropies, and the equalising loop of
  `shannon_entropy_lower_bound`, whose queue is dropped.
* `SimpSolver::substitute`: nobody calls it.
* MiniSat's options, memory management, hash map, DIMACS reader and own `main`:
  not used by sharpPI, or without influence on an answer.
* Glucose: an empty submodule.
* Build files, website, examples.

## 8. Plan

What is left, in the order of its worth:

1. The composition of `Frontend` with `SharpPI`, so that the literal lists of the
   parser are the constants of the modes.
2. `--verbose`, whose repeated `write_final_result` moves the division by zero to
   the first round.
3. `ProjectionIsKept` as a theorem: `ClauseProofs` has the lemma for each kind of
   step.
