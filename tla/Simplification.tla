--------------------------- MODULE Simplification ---------------------------
(***************************************************************************)
(* What MiniSat's simplifying solver does to its clauses: root level       *)
(* propagation, backward subsumption and strengthening, asymmetric         *)
(* branching, variable elimination, and the extension of a model. The      *)
(* simplifier is a record d; each operation is an operator from d to d.    *)
(*                                                                         *)
(* A clause is a sequence of literals, the first two are watched. A clause *)
(* keeps its reference (garbage collection renames them all) and a removed *)
(* clause is gone from d.ca. Learnt clauses are watched and propagated like*)
(* the others, but the simplifier itself never looks at them. Occurrence   *)
(* lists are in order of references, and so, by abstraction, are watch     *)
(* lists; blockers are left out.                                           *)
(***************************************************************************)
EXTENDS Clauses, Sequences, FiniteSets, FiniteSetsExt, SequencesExt

CONSTANT NumVars       \* number of variables

Heap == INSTANCE Heap
Queue == INSTANCE Queue WITH Fresh <- 0

Vars == 0 .. NumVars - 1
Lits == 0 .. 2 * NumVars - 1
tmpunit == 0                      \* bwdsub_tmpunit

Asc(S) == SetToSortSeq(S, <)

(* A clause arrives as a set of literals, and sort() puts them in order. *)
sort(C) == Asc(C)
remove(c, l) == SelectSeq(c, LAMBDA k : k # l)

-----------------------------------------------------------------------------
(* Values and root level propagation. ok is also the absence of a conflict. *)
IsTrue(d, p)  == p \in ToSet(d.trail)
IsFalse(d, p) == IsTrue(d, neg(p))
IsUndef(d, v) == ~IsTrue(d, mkLit(v, FALSE)) /\ ~IsTrue(d, mkLit(v, TRUE))
live(d) == DOMAIN d.ca \ d.learnts
occurs(d, v) == Asc({cr \in live(d) : v \in VarsOf(ToSet(d.ca[cr]))})

(* The clause cr, whose watched literal neg(p) has become false. *)
visit(d, p, cr) ==
    LET c == d.ca[cr]
        first == IF c[1] = neg(p) THEN c[2] ELSE c[1]
        free == {k \in 3 .. Len(c) : ~IsFalse(d, c[k])}
    IN  IF ~d.ok \/ IsTrue(d, first) THEN d
        ELSE IF free # {}
             THEN [d EXCEPT !.ca[cr] = [c EXCEPT ![1] = first, ![2] = c[Min(free)],
                                                 ![Min(free)] = neg(p)]]
        ELSE IF IsFalse(d, first) THEN [d EXCEPT !.ok = FALSE]
        ELSE [d EXCEPT !.trail = Append(@, first)]

watching(d, p) == Asc({cr \in DOMAIN d.ca : neg(p) \in {d.ca[cr][1], d.ca[cr][2]}})

propagate(d) ==
    LET next(e) ==
            LET p == e.trail[e.qhead + 1]
            IN  FoldLeft(LAMBDA f, cr : visit(f, p, cr),
                         [e EXCEPT !.qhead = @ + 1], watching(e, p))
        run[n \in 0 .. NumVars] ==
            IF n = 0 THEN d
            ELSE LET e == run[n - 1]
                 IN  IF e.ok /\ e.qhead < Len(e.trail) THEN next(e) ELSE e
    IN  run[NumVars]

(* newDecisionLevel, the literals ps, propagate, cancelUntil(0): whether there *)
(* was a conflict, and the state, in which only watches have moved.            *)
probe(d, ps) ==
    LET e == propagate([d EXCEPT !.trail = @ \o ps])
    IN  [conflict |-> ~e.ok,
         after |-> [e EXCEPT !.ok = d.ok, !.trail = d.trail, !.qhead = Len(d.trail)]]

(* enqueue(p) && propagate() == CRef_Undef *)
enqueue(d, p) ==
    IF IsFalse(d, p) THEN [d EXCEPT !.ok = FALSE]
    ELSE propagate([d EXCEPT !.trail = IF IsTrue(d, p) THEN @ ELSE Append(@, p)])

-----------------------------------------------------------------------------
(* The elimination heap and the clauses. *)
cost(d) == [v \in Vars |-> d.n_occ[mkLit(v, FALSE)] * d.n_occ[mkLit(v, TRUE)]]

(* Mutant of updateElimHeap: the heap is not told that a cost has changed. *)
updateIfMissing(d, v) ==
    IF Heap!inHeap(d.heap, v) \/ v \in d.frozen \cup d.eliminated \/ ~IsUndef(d, v)
    THEN d ELSE [d EXCEPT !.heap = Heap!update(@, v, cost(d))]

updateElimHeap(d, v) ==
    IF Heap!inHeap(d.heap, v) \/ (v \notin d.frozen \cup d.eliminated /\ IsUndef(d, v))
    THEN [d EXCEPT !.heap = Heap!update(@, v, cost(d))] ELSE d

setFrozen(d, v, b) ==
    IF b THEN [d EXCEPT !.frozen = @ \cup {v}]
    ELSE LET e == [d EXCEPT !.frozen = @ \ {v}]
         IN  IF d.use_simplification THEN updateElimHeap(e, v) ELSE e

push(d, cr) == [d EXCEPT !.queue = Queue!insert(@, cr)]

(* detachClause and ca.free *)
drop(d, cr) ==
    [d EXCEPT !.ca = [x \in DOMAIN d.ca \ {cr} |-> @[x]], !.learnts = @ \ {cr}]

(* ca.alloc and attachClause *)
alloc(d, c) ==
    [d EXCEPT !.ca = [x \in DOMAIN d.ca \cup {d.next} |-> IF x = d.next THEN c ELSE @[x]],
              !.next = @ + 1]

removeClause(d, cr) ==
    LET e == FoldLeft(LAMBDA f, l : updateElimHeap([f EXCEPT !.n_occ[l] = @ - 1], var(l)),
                      d, d.ca[cr])
    IN  drop(e, cr)

(* Mutant of strengthenClause: the strengthened clause is not queued again. *)
strengthenQuietly(d, cr, l) ==
    LET c == remove(d.ca[cr], l)
    IN  IF Len(c) = 1 THEN enqueue(removeClause(d, cr), c[1])
        ELSE updateElimHeap([d EXCEPT !.ca[cr] = c, !.n_occ[l] = @ - 1], var(l))

strengthenClause(d, cr, l) ==
    LET c == remove(d.ca[cr], l)
        e == push(d, cr)
    IN  IF Len(c) = 1 THEN enqueue(removeClause(e, cr), c[1])
        ELSE updateElimHeap([e EXCEPT !.ca[cr] = c, !.n_occ[l] = @ - 1], var(l))

(* A clause that is attached, counted and queued. *)
attach(d, C) ==
    LET c == sort(C)
        count(f, l) ==
            LET g == [f EXCEPT !.n_occ[l] = @ + 1, !.touched = @ \cup {var(l)}]
            IN  IF Heap!inHeap(g.heap, var(l))
                THEN [g EXCEPT !.heap = Heap!increase(@, var(l), cost(g))] ELSE g
        e == alloc(d, c)
    IN  IF d.use_simplification THEN FoldLeft(count, push(e, d.next), c) ELSE e

(* Solver::addClause_ and what SimpSolver adds to it. *)
addChecked(d, C) ==
    LET D == {p \in C : ~IsFalse(d, p)}
    IN  CASE ~d.ok                                        -> d
          [] d.ok /\ \E p \in D : IsTrue(d, p) \/ neg(p) \in C -> d
          [] OTHER ->
                CASE D = {}              -> [d EXCEPT !.ok = FALSE]
                  [] Cardinality(D) = 1  -> enqueue(d, CHOOSE p \in D : TRUE)
                  [] OTHER               -> attach(d, D)

(* implied(C): assuming the opposite of C runs into a conflict. A true literal *)
(* of C ends it early.                                                         *)
implied(d, C) ==
    LET ps == Asc(NegAll({p \in C : ~IsFalse(d, p)}))
    IN  IF \E p \in C : IsTrue(d, p) \/ {p, neg(p)} \subseteq C
        THEN [conflict |-> FALSE, after |-> d]
        ELSE probe(d, ps)

addClause_(d, C) ==
    LET i == implied(d, C)
    IN  IF ~d.opt.rcheck THEN addChecked(d, C)
        ELSE IF i.conflict THEN i.after
        ELSE addChecked(i.after, C)

-----------------------------------------------------------------------------
(* Backward subsumption. *)
gatherTouchedClauses(d) ==
    LET inQueue == ToSet(Queue!Contents(d.queue))
        hit == {cr \in live(d) \ inQueue : VarsOf(ToSet(d.ca[cr])) \cap d.touched # {}}
        at(cr) == Min(VarsOf(ToSet(d.ca[cr])) \cap d.touched)
        order == SetToSortSeq(hit, LAMBDA x, y : at(x) < at(y) \/ (at(x) = at(y) /\ x < y))
    IN  [FoldLeft(push, d, order) EXCEPT !.touched = {}]

Candidate(d, c, cr) ==
    IF ~d.ok \/ cr \notin live(d) THEN d
    ELSE LET D == ToSet(d.ca[cr])
         IN  IF \/ ~subsumes(c, D)
                \/ d.opt.subsumption_lim # -1 /\ Cardinality(D) >= d.opt.subsumption_lim THEN d
             ELSE IF c \subseteq D THEN removeClause(d, cr)
             ELSE strengthenClause(d, cr, CHOOSE l \in NegAll(Flipped(c, D)) : TRUE)

Pending(d) == Queue!size(d.queue) > 0 \/ d.bwd < Len(d.trail)

(* One round of the loop: the next queued clause, or the next unit when the  *)
(* queue is empty, against all the others.                                   *)
SubsumeNext(d) ==
    LET e  == IF Queue!size(d.queue) = 0 THEN push([d EXCEPT !.bwd = @ + 1], tmpunit) ELSE d
        cr == Queue!peek(e.queue)
        f  == [e EXCEPT !.queue = Queue!pop(@)]
        c  == IF cr = tmpunit THEN {f.trail[f.bwd]} ELSE ToSet(f.ca[cr])
    IN  IF cr \notin live(f) \cup {tmpunit} THEN f
        ELSE FoldLeft(LAMBDA g, other : Candidate(g, c, other), f, Asc(live(f) \ {cr}))

-----------------------------------------------------------------------------
(* Variable elimination. *)
occ(d, l) == Asc({cr \in live(d) : l \in ToSet(d.ca[cr])})

(* The resolvents on v in the order of the two loops. *)
Resolvents(d, v) ==
    LET pos == occ(d, mkLit(v, FALSE))
        ng == occ(d, mkLit(v, TRUE))
        of(x, y) == LET P == ToSet(d.ca[x])  Q == ToSet(d.ca[y])
                    IN  IF Tautology(P, Q, v) THEN <<>> ELSE <<merge(P, Q, v)>>
    IN  FlattenSeq([i \in DOMAIN pos |->
            FlattenSeq([j \in DOMAIN ng |-> of(pos[i], ng[j])])])

TooCostly(d, v) ==
    LET R == Resolvents(d, v)
    IN  \/ Len(R) > Len(occurs(d, v)) + d.opt.grow
        \/ d.opt.clause_lim # -1 /\ \E i \in DOMAIN R : Cardinality(R[i]) > d.opt.clause_lim

(* The clause with the literal of v in front. *)
mkElimClause(d, v, cr) ==
    LET l == CHOOSE k \in ToSet(d.ca[cr]) : var(k) = v
    IN  <<l>> \o remove(d.ca[cr], l)

(* Mutant of StoredClauses: the default value of v is missing. *)
storedWithoutDefault(d, v) ==
    LET few == IF Len(occ(d, mkLit(v, FALSE))) > Len(occ(d, mkLit(v, TRUE)))
               THEN mkLit(v, TRUE) ELSE mkLit(v, FALSE)
    IN  [i \in DOMAIN occ(d, few) |-> mkElimClause(d, v, occ(d, few)[i])]

(* The clauses of the rarer literal of v and its opposite as a default. *)
StoredClauses(d, v) ==
    LET few == IF Len(occ(d, mkLit(v, FALSE))) > Len(occ(d, mkLit(v, TRUE)))
               THEN mkLit(v, TRUE) ELSE mkLit(v, FALSE)
    IN  Append([i \in DOMAIN occ(d, few) |-> mkElimClause(d, v, occ(d, few)[i])],
               <<neg(few)>>)

(* eliminateVar up to its call of backwardSubsumptionCheck. *)
eliminateVar(d, v) ==
    LET e == [d EXCEPT !.eliminated = @ \cup {v},
                       !.elimclauses = @ \o StoredClauses(d, v)]
        f == FoldLeft(removeClause, e, occurs(d, v))
    IN  FoldLeft(LAMBDA g, C : IF g.ok THEN addClause_(g, C) ELSE g, f, Resolvents(d, v))

(* From the last stored clause to the first: its first literal is made true  *)
(* if all the others are false.                                              *)
extendModel(d, m) ==
    FoldLeft(LAMBDA a, c :
                 IF \A i \in 2 .. Len(c) : neg(c[i]) \in a
                 THEN (a \ {neg(c[1])}) \cup {c[1]} ELSE a,
             m, Reverse(d.elimclauses))

=============================================================================
