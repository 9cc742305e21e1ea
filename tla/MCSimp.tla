------------------------------- MODULE MCSimp -------------------------------
(***************************************************************************)
(* Instances of SimpSolver for TLC: five variables.                        *)
(***************************************************************************)
EXTENDS SimpProps

a == mkLit(0, FALSE)
b == mkLit(1, FALSE)
c == mkLit(2, FALSE)
d == mkLit(3, FALSE)
e == mkLit(4, FALSE)

(* Each variable but the ends can be eliminated. *)
Chain == <<{neg(a), b}, {neg(b), c}, {neg(c), d}, {a, e}>>
(* a is the exclusive or of b and c; d follows from both. *)
Xor == <<{neg(a), b, c}, {neg(a), neg(b), neg(c)}, {a, neg(b), c}, {a, b, neg(c)},
         {neg(a), neg(b), d}>>
Square == <<{a, b}, {a, neg(b)}, {neg(a), b}, {neg(a), neg(b)}>>
(* Strengthened twice while two of its literals are already false. *)
Late == <<{a, b, c, d, e}, {neg(b), a}, {neg(a), e}, {neg(c)}, {neg(d)}>>
(* Asymmetric branching shortens the first clause. *)
Branch == <<{a, b, c}, {neg(d), b, c}, {d, b, e}, {neg(e), b, c}, {a, neg(d), e}>>
(* Subsumed, strengthened, and the unit that appears is in other clauses. *)
Units2 == <<{a, b, c}, {a, b}, {neg(a), b, d}, {a, neg(b)}, {neg(b), c, e}, {b, neg(e)}>>
(* d is eliminated first; then a learnt clause may give it a value. *)
Pure == <<{a, d, b}, {a, d, neg(b)}, {neg(a), b}, {neg(b), c}, {neg(c), neg(a)}>>

MCFormulas == {Chain, Xor, Square, Late, Branch, Units2, Pure}
(* Consequences of Chain, Xor, Branch and Pure. *)
MCLemmas == {{d, e}, {neg(b), c, d}, {b, c, e}, {a, d}}
MCExtra == {{neg(a), neg(e)}, {neg(b), neg(d), e}}
MCFrozen == {{}, {0, 4}}
Plain == [asymm |-> FALSE, rcheck |-> FALSE, elim |-> TRUE, grow |-> 0,
          clause_lim |-> 20, subsumption_lim |-> 1000]
MCOptions == {Plain, [asymm |-> TRUE, rcheck |-> TRUE, elim |-> TRUE, grow |-> 1,
                      clause_lim |-> 2, subsumption_lim |-> -1]}
Ask(q, simp, off) == [assumptions |-> q, do_simp |-> simp, turn_off |-> off]
MCCalls == {Ask(<<>>, TRUE, FALSE), Ask(<<a>>, TRUE, TRUE), Ask(<<neg(e), b>>, TRUE, FALSE),
            Ask(<<>>, FALSE, FALSE)}

MCLate == {Late}
MCNoExtra == {}
MCAllFrozen == {0 .. 4}
MCPlain == {Plain}
MCSimplify == {Ask(<<>>, TRUE, FALSE)}

=============================================================================
