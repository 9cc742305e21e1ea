---------------------------- MODULE SolverProps -----------------------------
(***************************************************************************)
(* What the counting modes rely on in the solver, and the invariants of    *)
(* its data structures that make it true.                                  *)
(***************************************************************************)
EXTENDS DimacsWriter

AllVars == DOMAIN decision
Lits(V) == UNION {{mkLit(v, FALSE), mkLit(v, TRUE)} : v \in V}
ClauseSet(R) == {ToSet(lits(db, cr)) : cr \in R}
Watcher == [cref : Nat, blocker : Nat]

(* Each clause is watched exactly by its first two literals, in both       *)
(* lists; no list holds anything else once it has been cleaned.            *)
TwoWatches ==
    \A p \in Lits(AllVars) : \A cr \in live(db) :
        Cardinality({i \in DOMAIN db.watches[p] : db.watches[p][i].cref = cr})
          = IF neg(p) \in {lits(db, cr)[1], lits(db, cr)[2]} THEN 1 ELSE 0

(* The variables of the solver: Solver.h's state has its type, every       *)
(* reference held by clauses, learnts and watches is that of a clause, and *)
(* between two calls of propagate() each clause is in its two lists.       *)
SolverTypeOK ==
    /\ ok \in BOOLEAN
    /\ decision \in [AllVars -> BOOLEAN]
    /\ order_heap \subseteq AllVars
    /\ ToSet(trail) \subseteq Lits(AllVars)
    /\ trail_lim \in Seq(0 .. Len(trail))
    /\ qhead \in 0 .. Len(trail)
    /\ db.clauses \cup db.learnts = live(db)
    /\ \A p \in Lits(AllVars) : db.watches[p] \in Seq(Watcher)
    /\ DOMAIN db.reason = AllVars
    /\ pc \in {"idle", "decide"} => TwoWatches
    /\ pc \in {"idle", "add", "propagate", "search", "reduce", "decide", "refuse"}
    /\ answer \in {"none", "pending", "sat", "unsat"}

(* Nothing that was added is ever lost: whatever addClause_ drops, a       *)
(* deleted satisfied clause, a collected region, the remaining clauses and *)
(* the root assignments have exactly the models of all the clauses added.  *)
NothingLost ==
    LET kept == ClauseSet(db.clauses) \cup Units(ToSet(RootTrail))
    IN  ModelsOf(added, AllVars) = IF ok THEN ModelsOf(kept, AllVars) ELSE {}

(* analyze() only learns consequences of the clauses, never of the         *)
(* assumptions: a learnt clause outlives the question it was learnt for.   *)
LearntsAreImplied ==
    \A m \in ModelsOf(added, AllVars) : Satisfies(m, ClauseSet(db.learnts))

(* propagate() misses nothing: when search() decides, a clause without a   *)
(* true literal has two unassigned ones.                                   *)
PropagationIsComplete ==
    pc = "decide" =>
        \A cr \in live(db) :
            \/ satisfied(db, cr)
            \/ Cardinality({p \in ToSet(lits(db, cr)) : IsUndef(p)}) >= 2

(* The reason of an assignment is a clause still in the database, whose    *)
(* first literal is the assigned one and whose others were false before:   *)
(* deletion, simplification and collection never take a locked clause away.*)
ReasonsAreLive ==
    \A i \in DOMAIN trail :
        LET r == db.reason[var(trail[i])]
        IN  r # CRef_Undef =>
              /\ r \in live(db)
              /\ lits(db, r)[1] = trail[i]
              /\ \A q \in ToSet(Tail(lits(db, r))) :
                    \E j \in 1 .. (i - 1) : trail[j] = neg(q)

(* A decision variable is assigned or waits in the heap: an answer "sat"   *)
(* never leaves one out.                                                   *)
NoVariableForgotten ==
    \A v \in AllVars : decision[v] => v \in assigned \/ v \in order_heap

(* The file is the question of all the clauses added and the assumptions   *)
(* as: renamed back, its models are the restrictions of the question's     *)
(* models. The header counts the lines, and the variables but for those    *)
(* that only the assumptions mention.                                      *)
Asks(file, as) ==
    LET known == ToSet(file.met)
        asked == ModelsOf(added \cup Units(ToSet(as)), AllVars \cup VarsOf(ToSet(as)))
        printed(m) == {mapVar(file.met, p) : p \in {q \in m : var(q) \in known}}
    IN  /\ ModelsOf(ToSet(file.lines), 0 .. Len(file.met) - 1) = {printed(m) : m \in asked}
        /\ file.count = Len(file.lines)
        /\ ok => file.vars = Cardinality(known \ (VarsOf(ToSet(as)) \ VarsOf(ToSet(ClauseLits))))

(* The DIMACS file written between two questions, if the assert lets it    *)
(* pass, is the last question with the clauses added since, though learnt  *)
(* clauses and root assignments are not written, and whatever is passed    *)
(* to toDimacs.                                                            *)
DumpIsTheLastQuestion ==
    pc = "idle" /\ toAdd = <<>> /\ ~AssertFails =>
        \A as \in Questions : Asks(toDimacs(as), assumptions)

-----------------------------------------------------------------------------
EveryClause == Extra \cup UNION {ToSet(f) : f \in Formulas}
EveryQuestion == {ToSet(as) : as \in Questions}
ProblemVariables == 0 .. ProblemVars - 1

(* The variables there can be, up to the largest one that is mentioned.    *)
OracleVars ==
    0 .. Max({0} \cup ProblemVariables \cup UNION {VarsOf(C) : C \in EveryClause \cup EveryQuestion})

(* The client mentions finitely many variables. It puts at most one        *)
(* literal in a clause whose variable is no decision variable: the label   *)
(* of a blocking clause.                                                   *)
ASSUME OracleAssumption ==
    /\ IsFiniteSet(UNION {VarsOf(C) : C \in EveryClause \cup EveryQuestion})
    /\ \A C \in EveryClause : \A p, q \in C :
          var(p) \notin ProblemVariables /\ var(q) \notin ProblemVariables => p = q

Oracle == INSTANCE SatOracle WITH
    Vars <- OracleVars,
    Decided <- ProblemVariables,
    Clauses <- EveryClause,
    Questions <- EveryQuestion,
    formula <- added,
    asked <- ToSet(assumptions)

(* The solver is the oracle the counting modes take it for: every answer   *)
(* is right for all the clauses added before, whatever was learnt, deleted *)
(* or left over from the questions before; and it is given.                *)
ImplementsSatOracle == Oracle!Spec

=============================================================================
