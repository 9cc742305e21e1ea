------------------------------- MODULE Solver -------------------------------
(***************************************************************************)
(* MiniSat's incremental CDCL solver behind sat.h: two watched literals    *)
(* with blockers, first-UIP learning with minimisation, assumptions,       *)
(* restarts, clause deletion, simplification and garbage collection.       *)
(*                                                                         *)
(* assigns and levels are derived from trail and trail_lim. The order of   *)
(* activities (heap, learnts) and the saved polarities are free choices.   *)
(* simpDB_props, which only delays simplify(), is a free choice too.       *)
(***************************************************************************)
EXTENDS Literals, Order, Sequences, FiniteSets, FiniteSetsExt, SequencesExt, Folds

CONSTANTS
    Formulas,      \* clause sequences a run starts from
    Extra,         \* clauses that may be added between two questions
    Questions,     \* sequences of assumptions
    ProblemVars,   \* number of variables created as decision variables
    RestartFirst,  \* restart_first
    MaxSolves(_),  \* bound: questions per run, by the clauses added
    MaxAdds        \* bound: clauses added after the formula

VARIABLES
    ok, decision, order_heap,
    db,             \* clauses, learnts, ca, watches, dirties, reason
    trail, trail_lim, qhead,
    wi,             \* position in watches[trail[qhead]], 0 between two lists
    confl,          \* the conflicting clause, or CRef_Undef
    pc, ret,        \* where solve() is, and who called propagate()
    assumptions, conflictC, curr_restarts, max_learnts, simpDB_assigns,
    model, conflict, answer,
    added,          \* history: every clause handed to the solver
    toAdd, solves, adds

searchVars == <<assumptions, conflictC, curr_restarts, max_learnts>>
resultVars == <<model, conflict, answer>>
clientVars == <<added, toAdd, solves, adds>>
trailVars  == <<trail, trail_lim, qhead>>
vars == <<ok, decision, order_heap, db, trailVars, wi, confl, pc, ret,
          searchVars, simpDB_assigns, resultVars, clientVars>>

IsClause(C) == C \subseteq Nat /\ IsFiniteSet(C)

ASSUME SolverAssumption ==
    /\ ProblemVars \in Nat
    /\ \A f \in Formulas : f \in Seq(SUBSET Nat) /\ \A C \in ToSet(f) : IsClause(C)
    /\ \A C \in Extra : IsClause(C)
    /\ Questions \subseteq Seq(Nat)

CRef_Undef == 0
Dangling   == -1

-----------------------------------------------------------------------------
(* Assignment. *)
IsTrue(p)  == p \in ToSet(trail)
IsFalse(p) == neg(p) \in ToSet(trail)
IsUndef(p) == ~IsTrue(p) /\ ~IsFalse(p)
assigned   == VarsOf(ToSet(trail))

decisionLevel == Len(trail_lim)

level(v) ==
    LET i == CHOOSE j \in DOMAIN trail : var(trail[j]) = v
    IN  Cardinality({k \in DOMAIN trail_lim : trail_lim[k] < i})

RootTrail == IF trail_lim = <<>> THEN trail ELSE SubSeq(trail, 1, trail_lim[1])

-----------------------------------------------------------------------------
(* The clause database d: clauses and learnts are sets of references. *)
lits(d, cr) == d.ca[cr].lits
live(d) == {cr \in DOMAIN d.ca : ~d.ca[cr].mark}

(* Mutant of locked: the reason of the wrong literal. *)
lockedSecond(d, cr) ==
    LET p == lits(d, cr)[2] IN IsTrue(p) /\ d.reason[var(p)] = cr

locked(d, cr) ==
    LET p == lits(d, cr)[1] IN IsTrue(p) /\ d.reason[var(p)] = cr

(* Mutant of attachClause: the last literal is watched, not the second. *)
attachLast(d, cr, c) ==
    [d EXCEPT !.watches[neg(c[1])] = Append(@, [cref |-> cr, blocker |-> c[2]]),
              !.watches[neg(Last(c))] = Append(@, [cref |-> cr, blocker |-> c[1]])]

attachClause(d, cr, c) ==
    [d EXCEPT !.watches[neg(c[1])] = Append(@, [cref |-> cr, blocker |-> c[2]]),
              !.watches[neg(c[2])] = Append(@, [cref |-> cr, blocker |-> c[1]])]

NextCRef(d) == Len(d.ca) + 1

(* alloc, the push to clauses or learnts, and attachClause. *)
newClause(d, c, learnt) ==
    LET cr == NextCRef(d)
        e  == [d EXCEPT
                 !.ca = Append(@, [lits |-> c, learnt |-> learnt, mark |-> FALSE]),
                 !.clauses = IF learnt THEN @ ELSE @ \cup {cr},
                 !.learnts = IF learnt THEN @ \cup {cr} ELSE @]
    IN  attachClause(e, cr, c)

cleanAll(d) ==
    [d EXCEPT
       !.watches = [p \in DOMAIN @ |->
            IF p \in d.dirties
            THEN Kept(@[p], {i \in DOMAIN @[p] : ~d.ca[@[p][i].cref].mark}) ELSE @[p]],
       !.dirties = {}]

(* removeClause of every clause of R, with its lazy detachClause. *)
removeClauses(d, R) ==
    [d EXCEPT
       !.ca = [cr \in DOMAIN @ |-> IF cr \in R THEN [@[cr] EXCEPT !.mark = TRUE]
                                   ELSE @[cr]],
       !.clauses = @ \ R,
       !.learnts = @ \ R,
       !.dirties = @ \cup UNION {{neg(lits(d, cr)[1]), neg(lits(d, cr)[2])} : cr \in R},
       !.reason = [v \in DOMAIN @ |->
            IF @[v] \in R /\ locked(d, @[v]) /\ var(lits(d, @[v])[1]) = v
            THEN CRef_Undef ELSE @[v]]]

(* Mutant of satisfied: a clause that is not false is taken for true. *)
notFalsified(d, cr) == \E p \in ToSet(lits(d, cr)) : ~IsFalse(p)

satisfied(d, cr) == \E p \in ToSet(lits(d, cr)) : IsTrue(p)

clauseWord32Size(c) == 1 + Len(c.lits) + (IF c.learnt THEN 1 ELSE 0)

(* The live clauses move to a new region: every reference held by a watch, *)
(* a reason of the trail, learnts or clauses is renamed.                   *)
garbageCollect(d0) ==
    LET d == cleanAll(d0)
        order == Sorted(live(d))
        to(cr) == CHOOSE i \in DOMAIN order : order[i] = cr
        moved(w) == [w EXCEPT !.cref = to(@)]
        toReason(r) == CASE r = CRef_Undef -> CRef_Undef
                         [] r \in live(d)  -> to(r)
                         [] OTHER          -> Dangling
    IN  [d EXCEPT
           !.ca = [i \in DOMAIN order |-> @[order[i]]],
           !.clauses = {to(cr) : cr \in @},
           !.learnts = {to(cr) : cr \in @},
           !.watches = [p \in DOMAIN @ |-> [i \in DOMAIN @[p] |-> moved(@[p][i])]],
           !.reason = [v \in DOMAIN @ |->
                IF v \in assigned THEN toReason(@[v]) ELSE CRef_Undef]]

(* garbage_frac is 0.20. *)
GarbageDue(d) ==
    LET words(S) == MapThenSumSet(LAMBDA cr : clauseWord32Size(d.ca[cr]), S)
    IN  5 * words(DOMAIN d.ca \ live(d)) > words(DOMAIN d.ca)

checkGarbage(d) == IF GarbageDue(d) THEN garbageCollect(d) ELSE d

-----------------------------------------------------------------------------
(* Variables and clauses. *)

(* ensure, ensure_variables and new_variable: the variables up to n exist, *)
(* those created here are decision variables iff dvar.                     *)
newVars(n, dvar) ==
    LET V == DOMAIN decision \cup 0 .. n
        new == V \ DOMAIN decision
        L == UNION {{mkLit(v, FALSE), mkLit(v, TRUE)} : v \in V}
    IN  [decision |-> [v \in V |-> IF v \in new THEN dvar ELSE decision[v]],
         heap |-> IF dvar THEN order_heap \cup new ELSE order_heap,
         db |-> [db EXCEPT
                   !.watches = [p \in L |-> IF var(p) \in new THEN <<>> ELSE @[p]],
                   !.reason = [v \in V |-> IF v \in new THEN CRef_Undef ELSE @[v]]]]

Enqueue(p, from, d) ==
    /\ trail' = Append(trail, p)
    /\ db' = [d EXCEPT !.reason[var(p)] = from]

(* MinisatInterface::add_clause and addClause_. *)
add_clause(C) ==
    LET nv == newVars(Max(VarsOf(C) \cup {0}), FALSE)
        kept == Sorted({p \in C : ~IsFalse(p)})
        holds == \E p \in C : IsTrue(p) \/ neg(p) \in C
    IN  /\ decision' = nv.decision
        /\ added' = added \cup {C}
        /\ CASE ~ok \/ holds ->
                  db' = nv.db /\ UNCHANGED <<ok, trail, pc, ret>>
             [] ok /\ ~holds /\ Len(kept) = 0 ->
                  ok' = FALSE /\ db' = nv.db /\ UNCHANGED <<trail, pc, ret>>
             [] ok /\ ~holds /\ Len(kept) = 1 ->
                  /\ Enqueue(kept[1], CRef_Undef, nv.db)
                  /\ pc' = "propagate" /\ ret' = "add"
                  /\ UNCHANGED ok
             [] OTHER ->
                  db' = newClause(nv.db, kept, FALSE) /\ UNCHANGED <<ok, trail, pc, ret>>
        /\ UNCHANGED <<order_heap, trail_lim, qhead, wi, confl, searchVars,
                       simpDB_assigns, resultVars, solves>>

AddFirst ==
    /\ pc = "idle" /\ toAdd # <<>>
    /\ add_clause(Head(toAdd))
    /\ toAdd' = Tail(toAdd)
    /\ UNCHANGED adds

AddLater ==
    /\ pc = "idle" /\ toAdd = <<>> /\ adds < MaxAdds
    /\ \E C \in Extra : add_clause(C)
    /\ adds' = adds + 1
    /\ UNCHANGED toAdd

AddPropagated ==
    /\ pc = "add"
    /\ ok' = (confl = CRef_Undef)
    /\ confl' = CRef_Undef
    /\ pc' = "idle"
    /\ UNCHANGED <<decision, order_heap, db, trailVars, wi, ret, searchVars,
                   simpDB_assigns, resultVars, clientVars>>

-----------------------------------------------------------------------------
(* propagate(): one action per watcher. *)
p0 == trail[qhead]
AtListEnd == wi # 0 => wi > Len(db.watches[p0])

PropagateUnchanged ==
    UNCHANGED <<ok, decision, order_heap, trail_lim, ret, searchVars,
                simpDB_assigns, resultVars, clientVars>>

NextFact ==
    /\ pc = "propagate" /\ AtListEnd /\ qhead < Len(trail)
    /\ qhead' = qhead + 1
    /\ wi' = 1
    /\ db' = cleanAll(db)
    /\ UNCHANGED <<trail, confl, pc>> /\ PropagateUnchanged

PropagateDone ==
    /\ pc = "propagate" /\ AtListEnd /\ qhead = Len(trail)
    /\ wi' = 0
    /\ db' = cleanAll(db)
    /\ pc' = ret
    /\ UNCHANGED <<trail, qhead, confl>> /\ PropagateUnchanged

Watched == db.watches[p0][wi]
Visiting == pc = "propagate" /\ ~AtListEnd

(* The clause visited, with the false literal in second place. *)
Turned ==
    LET c == lits(db, Watched.cref)
    IN  IF c[1] = neg(p0) THEN [c EXCEPT ![1] = c[2], ![2] = c[1]] ELSE c

(* Mutant of NewWatches: a false literal may become a watch. *)
AnyWatches(c) == 3 .. Len(c)

NewWatches(c) == {k \in 3 .. Len(c) : ~IsFalse(c[k])}

BlockerTrue ==
    /\ Visiting /\ IsTrue(Watched.blocker)
    /\ wi' = wi + 1
    /\ UNCHANGED <<db, trail, qhead, confl, pc>> /\ PropagateUnchanged

(* The clause c stays in the list, with its first literal as blocker. *)
KeepWatch(c) ==
    [db EXCEPT !.ca[Watched.cref].lits = c, !.watches[p0][wi].blocker = c[1]]

FirstTrue ==
    /\ Visiting /\ ~IsTrue(Watched.blocker) /\ IsTrue(Turned[1])
    /\ db' = KeepWatch(Turned)
    /\ wi' = wi + 1
    /\ UNCHANGED <<trail, qhead, confl, pc>> /\ PropagateUnchanged

MoveWatch ==
    LET c == Turned
        k == Min(NewWatches(c))
    IN  /\ Visiting /\ ~IsTrue(Watched.blocker) /\ ~IsTrue(c[1])
        /\ NewWatches(c) # {}
        /\ db' = [db EXCEPT
              !.ca[Watched.cref].lits = [c EXCEPT ![2] = c[k], ![k] = c[2]],
              !.watches[p0] = RemoveAt(@, wi),
              !.watches[neg(c[k])] =
                  Append(@, [cref |-> Watched.cref, blocker |-> c[1]])]
        /\ UNCHANGED <<trail, qhead, confl, pc, wi>> /\ PropagateUnchanged

Unit ==
    /\ Visiting /\ ~IsTrue(Watched.blocker) /\ IsUndef(Turned[1])
    /\ NewWatches(Turned) = {}
    /\ Enqueue(Turned[1], Watched.cref, KeepWatch(Turned))
    /\ wi' = wi + 1
    /\ UNCHANGED <<qhead, confl, pc>> /\ PropagateUnchanged

Conflicting ==
    /\ Visiting /\ ~IsTrue(Watched.blocker) /\ IsFalse(Turned[1])
    /\ NewWatches(Turned) = {}
    /\ db' = KeepWatch(Turned)
    /\ confl' = Watched.cref
    /\ qhead' = Len(trail)
    /\ wi' = 0
    /\ UNCHANGED <<trail, pc>> /\ PropagateUnchanged

-----------------------------------------------------------------------------
(* analyze(), litRedundant() and analyzeFinal() walk down the trail. *)

(* Mutant of Antecedents: the literals of lower levels are left out. *)
CurrentAntecedents(v) ==
    {q \in ToSet(Tail(lits(db, db.reason[v]))) : level(var(q)) = decisionLevel}

(* The false literals of the reason of v above the root level. *)
Antecedents(v) ==
    {q \in ToSet(Tail(lits(db, db.reason[v]))) : level(var(q)) > 0}

(* The variables seen when the trail has been walked down to position i. *)
Seen[i \in 0 .. Len(trail)] ==
    IF i = Len(trail)
    THEN {v \in VarsOf(ToSet(lits(db, confl))) : level(v) > 0}
    ELSE LET S == Seen[i + 1]
             v == var(trail[i + 1])
             open == {u \in S : level(u) = decisionLevel}
         IN  IF v \in S /\ Cardinality(open) > 1
             THEN (S \ {v}) \cup VarsOf(Antecedents(v)) ELSE S

(* The decided values a set of variables has, negated: a clause. *)
Blocking(V) == {neg(p) : p \in {q \in ToSet(trail) : var(q) \in V}}

(* The positions of the trail whose reasons all lead to the variables S.   *)
Covered(S) ==
    LET covered[i \in DOMAIN trail] ==
            LET v == var(trail[i])
            IN  \/ level(v) = 0
                \/ v \in S
                \/ db.reason[v] # CRef_Undef /\ \A q \in Antecedents(v) :
                     \E j \in 1 .. (i - 1) : trail[j] = neg(q) /\ covered[j]
    IN  covered

(* ccmin_mode 2: a literal whose reasons all lead to seen literals goes. *)
Redundant(S) ==
    LET covered == Covered(S)
    IN  {v \in S : /\ db.reason[v] # CRef_Undef
                   /\ \A q \in Antecedents(v) :
                        \E j \in DOMAIN trail : trail[j] = neg(q) /\ covered[j]}

(* The clauses analyze() may learn: the asserting literal, a literal of    *)
(* the next lower level, the rest.                                         *)
Learnable ==
    LET S == Seen[0]
        uip == CHOOSE v \in S : level(v) = decisionLevel
        first == CHOOSE p \in Blocking({uip}) : TRUE
        rest == Blocking(S \ (Redundant(S) \cup {uip}))
        top == {q \in rest : \A r \in rest : level(var(r)) <= level(var(q))}
    IN  IF rest = {} THEN {<<first>>}
        ELSE {<<first, q>> \o Sorted(rest \ {q}) : q \in top}

btlevel(c) == IF Len(c) = 1 THEN 0 ELSE level(var(c[2]))

(* The assumptions behind the falsity of neg(p). *)
analyzeFinal(p) ==
    LET seen[i \in trail_lim[1] .. Len(trail)] ==
            IF i = Len(trail) THEN {var(p)}
            ELSE LET v == var(trail[i + 1])
                 IN  IF v \in seen[i + 1] /\ db.reason[v] # CRef_Undef
                     THEN seen[i + 1] \cup VarsOf(Antecedents(v)) ELSE seen[i + 1]
        above == ToSet(SubSeq(trail, trail_lim[1] + 1, Len(trail)))
    IN  {p} \cup (IF decisionLevel = 0 THEN {}
                  ELSE {neg(q) : q \in {r \in above :
                          var(r) \in seen[trail_lim[1]]
                          /\ db.reason[var(r)] = CRef_Undef}})

-----------------------------------------------------------------------------
(* Mutant of KeptTrail: one literal too many is undone. *)
ShortTrail(l) ==
    IF decisionLevel > l THEN SubSeq(trail, 1, trail_lim[l + 1] - 1) ELSE trail

(* cancelUntil *)
KeptTrail(l) ==
    IF decisionLevel > l THEN SubSeq(trail, 1, trail_lim[l + 1]) ELSE trail

(* Mutant of Released: the decision of the level undone last is left out. *)
ReleasedAbove(l) == {v \in assigned : decision[v] /\ level(v) > l + 1}

(* The decision variables that lose their value. *)
Released(l) == {v \in assigned \ VarsOf(ToSet(KeptTrail(l))) : decision[v]}

(* The trail becomes the one of level l followed by the literals of new.   *)
cancelUntil(l, new, heap) ==
    /\ trail' = KeptTrail(l) \o new
    /\ trail_lim' = IF decisionLevel > l THEN SubSeq(trail_lim, 1, l) ELSE trail_lim
    /\ qhead' = IF decisionLevel > l THEN trail_lim[l + 1] ELSE qhead
    /\ order_heap' = heap \cup Released(l)

-----------------------------------------------------------------------------
(* solve() and search(). *)
Ask(as) ==
    LET nv == newVars(Max({var(p) : p \in ToSet(as)} \cup {0}), FALSE)
    IN  /\ decision' = nv.decision /\ db' = nv.db
        /\ assumptions' = as
        /\ model' = {} /\ conflict' = {}
        /\ answer' = "pending"
        /\ pc' = IF ok THEN "propagate" ELSE "refuse"
        /\ ret' = "search"
        /\ conflictC' = 0
        /\ curr_restarts' = 0
        /\ max_learnts' = Cardinality(db.clauses)
        /\ UNCHANGED <<ok, order_heap, trailVars, wi, confl, simpDB_assigns>>

solve ==
    /\ pc = "idle" /\ toAdd = <<>> /\ solves < MaxSolves(added)
    /\ \E as \in Questions : Ask(as)
    /\ solves' = solves + 1
    /\ UNCHANGED <<added, toAdd, adds>>

Return(status, heap) ==
    /\ answer' = status
    /\ model' = IF status = "sat" THEN ToSet(trail) ELSE {}
    /\ ok' = (status = "sat" \/ conflict' # {})
    /\ confl' = CRef_Undef
    /\ pc' = "idle"
    /\ cancelUntil(0, <<>>, heap)
    /\ UNCHANGED <<decision, db, wi, ret, searchVars, simpDB_assigns, clientVars>>

(* Nothing is searched when the clauses are known to be contradictory. *)
Refuse ==
    /\ pc = "refuse"
    /\ conflict' = {}
    /\ Return("unsat", order_heap)

ConflictAtRoot ==
    /\ pc = "search" /\ confl # CRef_Undef /\ decisionLevel = 0
    /\ conflict' = {}
    /\ Return("unsat", order_heap)

Learn ==
    /\ pc = "search" /\ confl # CRef_Undef /\ decisionLevel > 0
    /\ conflictC' = conflictC + 1
    /\ \E c \in Learnable :
        /\ cancelUntil(btlevel(c), <<c[1]>>, order_heap)
        /\ IF Len(c) = 1
           THEN db' = [db EXCEPT !.reason[var(c[1])] = CRef_Undef]
           ELSE db' = [newClause(db, c, TRUE) EXCEPT !.reason[var(c[1])] = NextCRef(db)]
    /\ confl' = CRef_Undef
    /\ pc' = "propagate"
    /\ UNCHANGED <<ok, decision, wi, ret, assumptions, curr_restarts, max_learnts,
                   simpDB_assigns, resultVars, clientVars>>

(* The exponent of the x-th Luby number. *)
luby(x) ==
    LET sizes == {2^k - 1 : k \in 1 .. (x + 1)}
        seq[y \in 0 .. x] ==
            LET size == Min({s \in sizes : s >= y + 1})
                k == CHOOSE j \in 1 .. (x + 1) : 2^j - 1 = size
            IN  IF size - 1 = y THEN k - 1 ELSE seq[y % ((size - 1) \div 2)]
    IN  seq[x]

RestartDue == conflictC >= 2^luby(curr_restarts) * RestartFirst

Restart ==
    /\ pc = "search" /\ confl = CRef_Undef /\ RestartDue
    /\ cancelUntil(0, <<>>, order_heap)
    /\ conflictC' = 0
    /\ curr_restarts' = curr_restarts + 1
    /\ pc' = "propagate"
    /\ UNCHANGED <<ok, decision, db, wi, confl, ret, assumptions, max_learnts,
                   simpDB_assigns, resultVars, clientVars>>

NoConflict == pc = "search" /\ confl = CRef_Undef /\ ~RestartDue

KeepAsItIs ==
    /\ NoConflict
    /\ pc' = "reduce"
    /\ UNCHANGED <<ok, decision, order_heap, db, trailVars, wi, confl, ret,
                   searchVars, simpDB_assigns, resultVars, clientVars>>

(* Its propagate() has nothing to do: search() has just called it. *)
simplify ==
    /\ NoConflict /\ decisionLevel = 0 /\ Len(trail) # simpDB_assigns
    /\ db' = checkGarbage(removeClauses(db, {cr \in live(db) : satisfied(db, cr)}))
    /\ order_heap' = {v \in DOMAIN decision : decision[v] /\ v \notin assigned}
    /\ simpDB_assigns' = Len(trail)
    /\ pc' = "reduce"
    /\ UNCHANGED <<ok, decision, trailVars, wi, confl, ret, searchVars, resultVars,
                   clientVars>>

ReductionDue == 3 * (Cardinality(db.learnts) - Len(trail)) >= max_learnts

(* F are the clauses in the first half once learnts is sorted. *)
reduceDB ==
    LET big == {cr \in db.learnts : Len(lits(db, cr)) > 2}
        free == {cr \in big : ~locked(db, cr)}
        half == Cardinality(db.learnts) \div 2
    IN  \E F \in kSubset(Min({half, Cardinality(big)}), big) :
            \E R \in SUBSET free :
                F \cap free \subseteq R /\ db' = checkGarbage(removeClauses(db, R))

Reduce ==
    /\ pc = "reduce"
    /\ IF ReductionDue THEN reduceDB ELSE UNCHANGED db
    /\ pc' = "decide"
    /\ UNCHANGED <<ok, decision, order_heap, trailVars, wi, confl, ret, searchVars,
                   simpDB_assigns, resultVars, clientVars>>

Pending == pc = "decide" /\ decisionLevel < Len(assumptions)
Assumed == assumptions[decisionLevel + 1]

DummyLevel ==
    /\ Pending /\ IsTrue(Assumed)
    /\ trail_lim' = Append(trail_lim, Len(trail))
    /\ UNCHANGED <<ok, decision, order_heap, db, trail, qhead, wi, confl, pc, ret,
                   searchVars, simpDB_assigns, resultVars, clientVars>>

AssumptionFails ==
    /\ Pending /\ IsFalse(Assumed)
    /\ conflict' = analyzeFinal(neg(Assumed))
    /\ Return("unsat", order_heap)

Decide(p) ==
    /\ trail_lim' = Append(trail_lim, Len(trail))
    /\ Enqueue(p, CRef_Undef, db)
    /\ pc' = "propagate"
    /\ UNCHANGED <<ok, decision, qhead, wi, confl, ret, searchVars, simpDB_assigns,
                   resultVars, clientVars>>

Assume ==
    /\ Pending /\ IsUndef(Assumed)
    /\ Decide(Assumed)
    /\ UNCHANGED order_heap

Branching == pc = "decide" /\ decisionLevel >= Len(assumptions)
Candidates == {v \in order_heap : v \notin assigned /\ decision[v]}

(* The heap also loses the assigned variables above the one it yields. *)
pickBranchLit ==
    /\ Branching
    /\ \E v \in Candidates, s \in BOOLEAN, popped \in SUBSET (order_heap \cap assigned) :
        /\ order_heap' = order_heap \ ({v} \cup popped)
        /\ Decide(mkLit(v, s))

ModelFound ==
    /\ Branching /\ Candidates = {}
    /\ conflict' = {}
    /\ Return("sat", {})

-----------------------------------------------------------------------------
Init ==
    /\ ok = TRUE
    /\ decision = [v \in 0 .. ProblemVars - 1 |-> TRUE]
    /\ order_heap = 0 .. ProblemVars - 1
    /\ db = [ca |-> <<>>, clauses |-> {}, learnts |-> {}, dirties |-> {},
             watches |-> [p \in 0 .. 2 * ProblemVars - 1 |-> <<>>],
             reason |-> [v \in 0 .. ProblemVars - 1 |-> CRef_Undef]]
    /\ trail = <<>> /\ trail_lim = <<>> /\ qhead = 0 /\ wi = 0
    /\ confl = CRef_Undef
    /\ pc = "idle" /\ ret = "add"
    /\ assumptions = <<>> /\ conflictC = 0 /\ curr_restarts = 0 /\ max_learnts = 0
    /\ simpDB_assigns = -1
    /\ model = {} /\ conflict = {} /\ answer = "none"
    /\ added = {} /\ toAdd \in Formulas /\ solves = 0 /\ adds = 0

(* The client is done. *)
Idle == pc = "idle" /\ toAdd = <<>> /\ solves = MaxSolves(added) /\ UNCHANGED vars

Client == AddFirst \/ AddLater \/ solve \/ Idle

Propagation ==
    \/ NextFact \/ PropagateDone \/ BlockerTrue \/ FirstTrue \/ MoveWatch
    \/ Unit \/ Conflicting

Search ==
    \/ AddPropagated \/ Refuse \/ ConflictAtRoot \/ Learn \/ Restart \/ KeepAsItIs
    \/ simplify \/ Reduce \/ DummyLevel \/ AssumptionFails \/ Assume
    \/ pickBranchLit \/ ModelFound

Work == Propagation \/ Search

Next == Client \/ Work

Spec == Init /\ [][Next]_vars

(* The solver runs to its answer in the caller's thread. *)
FairSpec == Spec /\ WF_vars(Work)

=============================================================================
