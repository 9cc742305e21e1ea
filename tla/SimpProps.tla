----------------------------- MODULE SimpProps ------------------------------
(***************************************************************************)
(* What the simplifying solver must keep, clause by clause and question by *)
(* question.                                                               *)
(***************************************************************************)
EXTENDS SimpSolver

ClauseSets == {ToSet(s.ca[cr]) : cr \in live(s)}
Kept == ClauseSets \cup Units({p \in ToSet(s.trail) : var(p) \notin s.eliminated})

(* The simplifier's data: the ring buffer and the trail positions are in   *)
(* range, clauses have two literals or more and no two of one variable,    *)
(* frozen and eliminated variables are told apart while eliminating.       *)
SimpTypeOK ==
    /\ s.ok \in BOOLEAN /\ s.use_simplification \in BOOLEAN
    /\ s.queue.first \in 0 .. Queue!cap(s.queue) - 1
    /\ s.queue.end \in 0 .. Queue!cap(s.queue) - 1
    /\ ToSet(Queue!Contents(s.queue)) \subseteq 1 .. s.next - 1
    /\ s.qhead = Len(s.trail) \/ ~s.ok
    /\ s.bwd \in 0 .. Len(s.trail)
    /\ \A cr \in DOMAIN s.ca :
          /\ Len(s.ca[cr]) >= 2
          /\ Cardinality(VarsOf(ToSet(s.ca[cr]))) = Len(s.ca[cr])
    /\ s.n_occ \in [Lits -> Nat]
    /\ s.frozen \cap s.eliminated = {}
    /\ answer \in {"none", "sat", "unsat", "undef"}
    /\ model \subseteq Lits

(* Simplification keeps the question: after every step, interrupted or     *)
(* not, the remaining clauses allow exactly those assignments of the       *)
(* variables not eliminated that can be extended to all the clauses ever   *)
(* added, also to those that came after an elimination.                    *)
ProjectionIsKept ==
    LET left == Vars \ s.eliminated
        known == {m \cap {mkLit(v, b) : v \in left, b \in BOOLEAN} :
                     m \in ModelsOf(added, Vars)}
    IN  known = IF s.ok THEN ModelsOf(Kept, left) ELSE {}

(* A model answered is a model of everything the client said, eliminated   *)
(* variables and assumptions included, and there is none if the answer is  *)
(* "unsat" (Solver.h, line 110: "If problem is satisfiable, this vector    *)
(* contains the model").                                                   *)
ModelIsAModel ==
    /\ answer = "sat" => Satisfies(model, added \cup Units(ToSet(call.assumptions)))
    /\ answer = "unsat" => ModelsOf(added \cup Units(ToSet(call.assumptions)), Vars) = {}

(* The same as long as no interrupt has thrown away a clause of the        *)
(* subsumption queue or a unit nobody has looked at.                       *)
AnswersAreRight == ~cleared => ModelIsAModel

(* When a simplification that no interrupt cut short is over, no clause    *)
(* subsumes or could shorten another, and none mentions an assigned        *)
(* variable: each of them was compared again with every clause that        *)
(* appeared or shrank after it, and with every unit, also those that a     *)
(* search or a learnt clause has left behind.                              *)
SubsumptionIsComplete ==
    pc = "cleanup" /\ s.ok /\ ~cleared =>
        /\ \A x, y \in live(s) : x # y => ~subsumes(ToSet(s.ca[x]), ToSet(s.ca[y]))
        /\ \A x \in live(s) : \A p \in ToSet(s.ca[x]) : IsUndef(s, var(p))

(* The variable taken next is a cheapest one: the counters are those of    *)
(* the live clauses and the heap is in order, though costs change in       *)
(* removeClause, strengthenClause and addClause_, one literal at a time.   *)
HeapPicksTheCheapest ==
    s.use_simplification =>
        /\ \A l \in Lits : s.n_occ[l] = Len(occ(s, l))
        /\ Heap!HeapOrdered(s.heap, cost(s))

=============================================================================
