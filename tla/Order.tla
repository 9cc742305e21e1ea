------------------------------- MODULE Order --------------------------------
(***************************************************************************)
(* Numbers in ascending order: what std::set and the clause and watcher    *)
(* lists of the solver iterate over.                                       *)
(***************************************************************************)
EXTENDS Integers, FiniteSets, Sequences

(* The numbers of a finite set in ascending order. *)
Sorted(S) ==
    [i \in 1 .. Cardinality(S) |-> CHOOSE x \in S : Cardinality({y \in S : y < x}) = i - 1]

(* What a sequence has at the positions P. *)
Kept(s, P) == LET order == Sorted(P) IN [i \in DOMAIN order |-> s[order[i]]]

=============================================================================
