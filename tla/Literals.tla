------------------------------ MODULE Literals ------------------------------
(***************************************************************************)
(* Literals and clauses as MiniSat represents them: the variable v stands  *)
(* for the literals 2v (positive) and 2v + 1 (negative). A clause is a set *)
(* of literals, an assignment the set of the literals it makes true.       *)
(***************************************************************************)
EXTENDS Integers

mkLit(v, s) == 2 * v + (IF s THEN 1 ELSE 0)
sign(p) == p % 2 = 1
var(p) == p \div 2
neg(p) == IF sign(p) THEN p - 1 ELSE p + 1

VarsOf(C) == {var(p) : p \in C}
NegAll(C) == {neg(p) : p \in C}

(* The total assignments of the variables V. *)
TotalOver(V) == {{mkLit(v, v \notin T) : v \in V} : T \in SUBSET V}

(* m makes every clause of F true. *)
Satisfies(m, F) == \A C \in F : C \cap m # {}

ModelsOf(F, V) == {m \in TotalOver(V) : Satisfies(m, F)}

Units(P) == {{p} : p \in P}

=============================================================================
