----------------------------- MODULE BitVectors -----------------------------
(***************************************************************************)
(* Values of bit vectors, as PICounter.h computes them from a model: used  *)
(* by all counting modes.                                                  *)
(***************************************************************************)
EXTENDS Integers, Sequences, SequencesExt

(* The value of a bit vector whose first literal is the lowest bit. *)
interpret(m, lits) ==
    FoldRight(LAMBDA v, value : 2 * value + (IF m[v] THEN 1 ELSE 0), lits, 0)

=============================================================================
