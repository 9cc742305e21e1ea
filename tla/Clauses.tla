------------------------------ MODULE Clauses -------------------------------
(***************************************************************************)
(* What two clauses have to do with each other: subsumption, strengthening *)
(* and the resolvent on a variable, on the sets of their literals.         *)
(***************************************************************************)
EXTENDS Literals, FiniteSets

Flipped(c, D) == {l \in c : l \notin D}

(* Mutant of subsumes: two literals may be opposite. *)
subsumesTwice(c, D) ==
    c # {} /\ Cardinality(Flipped(c, D)) <= 2 /\ NegAll(Flipped(c, D)) \subseteq D

(* c subsumes D, or all but one literal of c are in D and that one's opposite is. *)
subsumes(c, D) == Cardinality(Flipped(c, D)) <= 1 /\ NegAll(Flipped(c, D)) \subseteq D

Tautology(P, Q, v) == \E l \in P : var(l) # v /\ neg(l) \in Q
merge(P, Q, v) == {l \in P \cup Q : var(l) # v}

=============================================================================
