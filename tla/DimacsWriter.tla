---------------------------- MODULE DimacsWriter ----------------------------
(***************************************************************************)
(* Solver::toDimacs: the file a solver writes. It changes nothing, so it   *)
(* is an operator on the state. A line of the file is a set of literals of *)
(* the variables 0, 1, ..., which are printed as 1, 2, ...; met is the map *)
(* from them to the solver's variables.                                    *)
(***************************************************************************)
EXTENDS Solver

(* Mutant of Unsatisfied: satisfied clauses are written too. *)
UnsatisfiedOrNot == Sorted(db.clauses)

Unsatisfied == Sorted({cr \in db.clauses : ~satisfied(db, cr)})

Written(cr) == LET c == lits(db, cr) IN Kept(c, {i \in DOMAIN c : ~IsFalse(c[i])})

(* mapVar: the variables of the literals ps are numbered as they are met. *)
FirstMet(known, ps) ==
    FoldLeft(LAMBDA met, p : IF var(p) \in ToSet(met) THEN met ELSE Append(met, var(p)),
             known, ps)

ClauseLits == FlattenSeq([i \in DOMAIN Unsatisfied |-> Written(Unsatisfied[i])])

mapVar(met, p) == mkLit((CHOOSE i \in DOMAIN met : met[i] = var(p)) - 1, sign(p))

(* The assert on each assumption: one that the root level already falsifies *)
(* aborts a build with asserts.                                             *)
AssertFails == ok /\ \E p \in ToSet(assumptions) : IsFalse(p)

(* The header and the lines: the assumptions as units, then the clauses. The *)
(* header is made before the assumptions are numbered. The assumptions are   *)
(* the member of that name, which the last question left behind: the         *)
(* parameter assumps is never read.                                          *)
toDimacs(assumps) ==
    LET open == Unsatisfied
        before == FirstMet(<<>>, ClauseLits)
        met == FirstMet(before, assumptions)
        line(ps) == {mapVar(met, p) : p \in ToSet(ps)}
    IN  IF ~ok THEN [vars |-> 1, count |-> 2, met |-> <<0>>,
                     lines |-> <<{mkLit(0, FALSE)}, {mkLit(0, TRUE)}>>]
        ELSE [vars |-> Len(before), count |-> Len(open) + Len(assumptions), met |-> met,
              lines |-> [i \in DOMAIN assumptions |-> line(<<assumptions[i]>>)]
                        \o [i \in DOMAIN open |-> line(Written(open[i]))]]

=============================================================================
