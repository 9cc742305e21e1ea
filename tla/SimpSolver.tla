----------------------------- MODULE SimpSolver -----------------------------
(***************************************************************************)
(* The simplifying solver as its client sees it: clauses, frozen variables *)
(* and questions with assumptions; solve() runs eliminate() step by step,  *)
(* then the core solver's search, seen through what it learns and finds    *)
(* (module Solver has its steps), then extends the model. An interrupt may *)
(* arrive between any two steps.                                           *)
(***************************************************************************)
EXTENDS Simplification

CONSTANTS
    Formulas,      \* clause sequences a run starts from
    Extra,         \* clauses that may be added after the first answer
    FrozenSets,    \* sets of variables the client may freeze at the start
    Options,       \* [asymm, rcheck, elim, grow, clause_lim, subsumption_lim]
    Lemmas,        \* clauses of two literals or more that the search may learn
    Calls,         \* [assumptions, do_simp, turn_off]: the arguments of solve
    MaxClauses,    \* bound: none is added later when there are so many
    MaxSolves,     \* bound: questions per run
    MaxLearnt,     \* bound: clauses and units learnt per run
    MaxInterrupts  \* bound: interrupts per run

VARIABLES
    s,                    \* the simplifier
    pc, ret,              \* where solve() is, and who called the subsumption
    elim, todo, was_frozen,
    extra_frozen, call,
    answer, model,        \* of the last question, until the client's next call
    asynch_interrupt,
    cleared,              \* history: an interrupt has dropped queued work
    added, toAdd, solves, interrupts, learnt

loopVars   == <<ret, elim, todo, was_frozen>>
callVars   == <<extra_frozen, call>>
resultVars == <<answer, model>>
clientVars == <<added, toAdd, solves>>
signalVars == <<asynch_interrupt, interrupts, cleared, learnt>>
vars == <<s, pc, loopVars, callVars, resultVars, clientVars, signalVars>>

Init ==
    /\ \E o \in Options, F \in FrozenSets :
          s = [opt |-> o, ok |-> TRUE, use_simplification |-> TRUE,
               ca |-> <<>>, learnts |-> {}, next |-> 1, trail |-> <<>>, qhead |-> 0, bwd |-> 0,
               queue |-> Queue!Empty, heap |-> [i \in 1 .. NumVars |-> i - 1],
               n_occ |-> [l \in Lits |-> 0], touched |-> {},
               frozen |-> F, eliminated |-> {}, elimclauses |-> <<>>]
    /\ pc = "idle" /\ ret = "idle"
    /\ elim = 0 /\ todo = <<>> /\ was_frozen = FALSE
    /\ extra_frozen = {}
    /\ call = [assumptions |-> <<>>, do_simp |-> FALSE, turn_off |-> FALSE]
    /\ answer = "none" /\ model = {}
    /\ asynch_interrupt = FALSE /\ interrupts = 0 /\ cleared = FALSE /\ learnt = 0
    /\ toAdd \in Formulas /\ added = {} /\ solves = 0

-----------------------------------------------------------------------------
(* The client. *)
Known(C) == VarsOf(C) \cap s.eliminated = {}

AddClause(C) ==
    /\ pc = "idle"
    /\ s' = addClause_(s, C)
    /\ added' = added \cup {C}
    /\ answer' = "none" /\ model' = {}
    /\ UNCHANGED <<pc, loopVars, callVars, solves, signalVars>>

AddFirst == toAdd # <<>> /\ AddClause(Head(toAdd)) /\ toAdd' = Tail(toAdd)

AddLater ==
    /\ toAdd = <<>> /\ solves \in 1 .. MaxSolves - 1
    /\ Cardinality(added) < MaxClauses
    /\ \E C \in Extra \ added : Known(C) /\ AddClause(C)
    /\ UNCHANGED toAdd

Melt(v) ==
    /\ pc = "idle" /\ solves \in 1 .. MaxSolves - 1
    /\ v \in s.frozen
    /\ s' = setFrozen(s, v, FALSE)
    /\ answer' = "none" /\ model' = {}
    /\ UNCHANGED <<pc, loopVars, callVars, clientVars, signalVars>>

solve(c) ==
    /\ pc = "idle" /\ toAdd = <<>> /\ solves < MaxSolves
    /\ Known(ToSet(c.assumptions))
    /\ LET do == c.do_simp /\ s.use_simplification
           extra == IF do THEN VarsOf(ToSet(c.assumptions)) \ s.frozen ELSE {}
       IN  /\ s' = [s EXCEPT !.frozen = @ \cup extra]
           /\ extra_frozen' = extra
           /\ call' = [c EXCEPT !.do_simp = do]
           /\ pc' = IF do THEN "simplify" ELSE "search"
    /\ answer' = "none" /\ model' = {}
    /\ solves' = solves + 1
    /\ UNCHANGED <<loopVars, added, toAdd, signalVars>>

Interrupt ==
    /\ pc # "idle" /\ ~asynch_interrupt /\ interrupts < MaxInterrupts
    /\ asynch_interrupt' = TRUE /\ interrupts' = interrupts + 1
    /\ UNCHANGED <<s, pc, loopVars, callVars, resultVars, clientVars, cleared, learnt>>

clearInterrupt ==
    /\ pc = "idle" /\ asynch_interrupt
    /\ asynch_interrupt' = FALSE
    /\ UNCHANGED <<s, pc, loopVars, callVars, resultVars, clientVars, interrupts, cleared,
                   learnt>>

Idle == pc = "idle" /\ toAdd = <<>> /\ solves = MaxSolves /\ UNCHANGED vars

Client ==
    \/ AddFirst \/ AddLater \/ Interrupt \/ clearInterrupt \/ Idle
    \/ \E v \in Vars : Melt(v)
    \/ \E c \in Calls : solve(c)

-----------------------------------------------------------------------------
(* eliminate(). *)
Outside == <<callVars, clientVars>>
Quiet == <<callVars, resultVars, clientVars, signalVars>>

(* The state e, and at where the code goes on unless it found a conflict.  *)
Continue(e, at) ==
    /\ s' = e
    /\ pc' = IF e.ok THEN at ELSE "cleanup"

simplify ==
    /\ pc = "simplify"
    /\ s' = IF s.ok THEN propagate(s) ELSE s
    /\ pc' = IF s'.ok THEN "loop" ELSE "finish"
    /\ answer' = IF s'.ok THEN answer ELSE "unsat"
    /\ UNCHANGED <<loopVars, Outside, model, signalVars>>

Loop ==
    /\ pc = "loop"
    /\ LET more == s.touched # {} \/ s.bwd < Len(s.trail) \/ s.heap # <<>>
           e == gatherTouchedClauses(s)
       IN  IF more THEN /\ s' = e
                        /\ pc' = IF Pending(e) THEN "subsume" ELSE "subsumed"
                   ELSE s' = s /\ pc' = "cleanup"
    /\ ret' = "subsumed"
    /\ UNCHANGED <<elim, todo, was_frozen, Quiet>>

(* backwardSubsumptionCheck. *)
Subsume ==
    /\ pc = "subsume" /\ Pending(s) /\ ~asynch_interrupt
    /\ Continue(SubsumeNext(s), "subsume")
    /\ UNCHANGED <<loopVars, Quiet>>

SubsumeStopped ==
    /\ pc = "subsume" /\ Pending(s) /\ asynch_interrupt
    /\ s' = [s EXCEPT !.queue = Queue!Empty, !.bwd = Len(s.trail)]
    /\ pc' = ret
    /\ cleared' = TRUE
    /\ UNCHANGED <<loopVars, Outside, resultVars, asynch_interrupt, interrupts, learnt>>

SubsumeDone ==
    /\ pc = "subsume" /\ ~Pending(s)
    /\ pc' = ret
    /\ UNCHANGED <<s, loopVars, Quiet>>

Subsumed ==
    /\ pc = "subsumed"
    /\ IF asynch_interrupt
       THEN s' = [s EXCEPT !.heap = <<>>] /\ pc' = "cleanup"
       ELSE s' = s /\ pc' = "pick"
    /\ UNCHANGED <<loopVars, Quiet>>

(* The next variable; with asymm it is frozen while its clauses are tried. *)
Pick ==
    /\ pc = "pick" /\ s.heap # <<>>
    /\ LET v == Head(s.heap)
           e == [s EXCEPT !.heap = Heap!removeMin(@, cost(s))]
           skip == v \in s.eliminated \/ ~IsUndef(s, v)
           tries == s.opt.asymm /\ ~skip /\ ~asynch_interrupt
       IN  /\ elim' = v
           /\ s' = IF tries THEN [e EXCEPT !.frozen = @ \cup {v}] ELSE e
           /\ was_frozen' = (v \in s.frozen)
           /\ todo' = IF tries THEN occurs(s, v) ELSE <<>>
           /\ pc' = CASE asynch_interrupt                  -> "loop"
                      [] ~asynch_interrupt /\ skip         -> "pick"
                      [] tries /\ occurs(s, v) # <<>>      -> "asymm"
                      [] tries /\ occurs(s, v) = <<>>      -> "thaw"
                      [] OTHER                             -> "eliminate"
    /\ UNCHANGED <<ret, Quiet>>

PickNone ==
    /\ pc = "pick" /\ s.heap = <<>>
    /\ pc' = "loop"
    /\ UNCHANGED <<s, loopVars, Quiet>>

(* asymm(elim, cr) for the next clause of the list. A clause that loses its *)
(* literal of elim leaves the list, so the next one moves under the index.  *)
asymm ==
    /\ pc = "asymm" /\ todo # <<>>
    /\ LET cr == Head(todo)
           c == s.ca[cr]
           tried(l) == var(l) # elim /\ ~IsFalse(s, l)
           l == Last(SelectSeq(c, LAMBDA k : ~tried(k)))
           try == SelectSeq(c, tried)
           p == probe(s, [i \in DOMAIN try |-> neg(try[i])])
           gone == p.conflict /\ var(l) = elim /\ Len(c) > 2
       IN  IF cr \notin live(s) \/ \E k \in ToSet(s.ca[cr]) : IsTrue(s, k)
           THEN s' = s /\ pc' = pc /\ todo' = Tail(todo)
           ELSE /\ Continue(IF p.conflict THEN strengthenClause(p.after, cr, l)
                            ELSE p.after, pc)
                /\ todo' = SubSeq(todo, IF gone THEN 3 ELSE 2, Len(todo))
    /\ UNCHANGED <<ret, elim, was_frozen, Quiet>>

AsymmDone ==
    /\ pc = "asymm" /\ todo = <<>>
    /\ pc' = "subsume" /\ ret' = "thaw"
    /\ UNCHANGED <<s, elim, todo, was_frozen, Quiet>>

Thaw ==
    /\ pc = "thaw"
    /\ s' = [s EXCEPT !.frozen = IF was_frozen THEN @ \cup {elim} ELSE @ \ {elim}]
    /\ pc' = "eliminate"
    /\ UNCHANGED <<loopVars, Quiet>>

Eliminate ==
    /\ pc = "eliminate"
    /\ IF s.opt.elim /\ IsUndef(s, elim) /\ elim \notin s.frozen /\ ~TooCostly(s, elim)
       THEN Continue(eliminateVar(s, elim), "subsume")
       ELSE s' = s /\ pc' = "pick"
    /\ ret' = "pick"
    /\ UNCHANGED <<elim, todo, was_frozen, Quiet>>

Cleanup ==
    /\ pc = "cleanup"
    /\ s' = IF call.turn_off
            THEN [s EXCEPT !.use_simplification = FALSE, !.touched = {}, !.heap = <<>>,
                           !.queue = Queue!Empty, !.n_occ = [l \in Lits |-> 0]]
            ELSE s
    /\ pc' = IF s.ok THEN "search" ELSE "finish"
    /\ answer' = IF s.ok THEN answer ELSE "unsat"
    /\ UNCHANGED <<loopVars, Outside, model, signalVars>>

-----------------------------------------------------------------------------
(* Solver::search, seen from outside. Propagation visits a clause when one  *)
(* of its watches becomes false: one whose watches were both false already  *)
(* when it was attached is never visited. Where the search leaves the       *)
(* watches is left out.                                                     *)
Visited == {ToSet(s.ca[cr]) : cr \in {x \in DOMAIN s.ca :
               ~IsFalse(s, s.ca[x][1]) \/ ~IsFalse(s, s.ca[x][2])}}

(* Every variable not eliminated is decided; an eliminated one may get its  *)
(* value from a learnt clause, for which any that contradicts none will do. *)
Found(as) ==
    LET assigned == (Vars \ s.eliminated)
                    \cup VarsOf(ToSet(s.trail) \cup UNION {ToSet(s.ca[cr]) : cr \in s.learnts})
    IN  {m \in TotalOver(assigned) :
            ToSet(s.trail) \cup ToSet(as) \subseteq m /\ Satisfies(m, Visited)}

(* What conflict analysis learns: a consequence of what can be found, of    *)
(* unassigned variables of the clauses; a single literal is propagated.     *)
Learn ==
    /\ pc = "search" /\ s.ok /\ ~asynch_interrupt
    /\ learnt < MaxLearnt /\ learnt' = learnt + 1
    /\ LET clauses == {ToSet(s.ca[cr]) : cr \in DOMAIN s.ca}
           known == {v \in UNION {VarsOf(D) : D \in clauses} : IsUndef(s, v)}
           M == Found(<<>>)
       IN  \E C \in {{mkLit(v, b)} : v \in known, b \in BOOLEAN} \cup Lemmas :
             /\ VarsOf(C) \subseteq known /\ \A D \in clauses : ~(D \subseteq C)
             /\ \A m \in M : C \cap m # {}
             /\ s' = IF Cardinality(C) = 1 THEN enqueue(s, CHOOSE p \in C : TRUE)
                     ELSE [alloc(s, sort(C)) EXCEPT !.learnts = @ \cup {s.next}]
    /\ UNCHANGED <<pc, loopVars, Outside, resultVars, asynch_interrupt, interrupts, cleared>>

(* reduceDB keeps the learnt clauses of two literals. *)
Forget ==
    /\ pc = "search" /\ ~asynch_interrupt
    /\ \E cr \in s.learnts : Len(s.ca[cr]) > 2 /\ s' = drop(s, cr)
    /\ UNCHANGED <<pc, loopVars, Quiet>>

SearchSat ==
    /\ pc = "search" /\ s.ok /\ ~asynch_interrupt
    /\ \E m \in Found(call.assumptions) : model' = extendModel(s, m)
    /\ answer' = "sat" /\ pc' = "finish"
    /\ UNCHANGED <<s, loopVars, Outside, signalVars>>

(* ok is lost unless the conflict is one with the assumptions. *)
SearchUnsat ==
    /\ pc = "search" /\ (s.ok => ~asynch_interrupt /\ Found(call.assumptions) = {})
    /\ s' = s \/ (Found(<<>>) = {} /\ s' = [s EXCEPT !.ok = FALSE])
    /\ answer' = "unsat" /\ pc' = "finish"
    /\ UNCHANGED <<loopVars, Outside, model, signalVars>>

SearchStopped ==
    /\ pc = "search" /\ s.ok /\ asynch_interrupt
    /\ answer' = "undef" /\ pc' = "finish"
    /\ UNCHANGED <<s, loopVars, Outside, model, signalVars>>

(* The end of solve_: the assumptions frozen for the question are released. *)
Finish ==
    /\ pc = "finish"
    /\ s' = FoldLeft(LAMBDA d, v : setFrozen(d, v, FALSE), s,
                     SelectSeq([i \in DOMAIN call.assumptions |-> var(call.assumptions[i])],
                               LAMBDA v : v \in extra_frozen))
    /\ extra_frozen' = {}
    /\ pc' = "idle"
    /\ UNCHANGED <<loopVars, call, resultVars, clientVars, signalVars>>

-----------------------------------------------------------------------------
Simplify ==
    \/ simplify \/ Loop \/ Subsume \/ SubsumeStopped \/ SubsumeDone \/ Subsumed
    \/ Pick \/ PickNone \/ asymm \/ AsymmDone \/ Thaw \/ Eliminate \/ Cleanup

Search == Learn \/ Forget \/ SearchSat \/ SearchUnsat \/ SearchStopped \/ Finish

Next == Client \/ Simplify \/ Search

Spec == Init /\ [][Next]_vars

=============================================================================
