------------------------------ MODULE MCSolver ------------------------------
(***************************************************************************)
(* Instances of Solver for TLC: four problem variables 0..3 and one label  *)
(* variable 4, which the client creates without making it a decision.      *)
(***************************************************************************)
EXTENDS SolverProps

a == mkLit(0, FALSE)
b == mkLit(1, FALSE)
c == mkLit(2, FALSE)
d == mkLit(3, FALSE)
label == mkLit(4, FALSE)

(* Learns a clause of three literals. *)
Ternary == <<{neg(a), neg(c), d}, {neg(b), neg(c), neg(d)}, {a, c, d}>>
(* Contradictory without a unit. *)
Square == <<{a, b}, {a, neg(b)}, {neg(a), b}, {neg(a), neg(b)}>>
(* A tautology, a unit, a chain of propagations. *)
Chain == <<{a, neg(a), b}, {neg(c), d}, {neg(d), a, b}, {c}>>
(* The unit of one clause falsifies another. *)
Clash == <<{a, b}, {neg(a)}, {neg(b), c}, {neg(c), neg(b)}>>

(* Three variables; learns under an assumption and without one. *)
Small == <<{neg(a), neg(b), c}, {neg(b), neg(c)}, {a, c}>>

MCFormulas == {Ternary, Square, Chain, Clash, Small}
(* A blocked projection, a fact, and a blocked output behind its label. *)
MCExtra == {{neg(a), neg(b)}, {d}, {neg(c), neg(label)}}
MCQuestions == {<<>>, <<label, c>>, <<a, b, c>>, <<d, neg(d)>>}
(* Ternary alone has more states for two questions than all others. *)
MCSolves(C) == IF ToSet(Ternary) \subseteq C THEN 1 ELSE 2

=============================================================================
