--------------------------- MODULE PreimageCount ---------------------------
(***************************************************************************)
(* What a pre-image counter promises, whatever its strategy: the program   *)
(* is a set of <<input, output value>> pairs; the inputs are counted one   *)
(* by one, each once, in any order, each for its own output; an answer is  *)
(* given when all inputs are counted, or earlier if an early stop is       *)
(* allowed. A counter that dies gives no answer.                           *)
(***************************************************************************)
EXTENDS Integers, FiniteSets

CONSTANTS
    Relations,  \* the programs: functional sets of <<input, output value>>
    Values      \* the output values

(* A program of the deterministic modes: an input has at most one output.  *)
IsProgram(r) ==
    /\ r \subseteq {<<pair[1], value>> : pair \in r, value \in Values}
    /\ \A p, q \in r : p[1] = q[1] => p = q

VARIABLES
    relation,   \* the program under analysis
    counted,    \* the inputs counted
    hist,       \* for every output value, the number of its inputs counted
    mayStop,    \* an early answer is allowed
    answered

vars == <<relation, counted, hist, mayStop, answered>>

AllInputs == {pair[1] : pair \in relation}

Init ==
    /\ relation \in Relations
    /\ IsProgram(relation)
    /\ counted = {}
    /\ hist = [value \in Values |-> 0]
    /\ mayStop \in BOOLEAN
    /\ answered = FALSE

Count ==
    /\ ~answered
    /\ \E pair \in relation :
        /\ pair[1] \notin counted
        /\ counted' = counted \cup {pair[1]}
        /\ hist' = [hist EXCEPT ![pair[2]] = @ + 1]
    /\ UNCHANGED <<relation, mayStop, answered>>

AllowStop ==
    /\ ~answered
    /\ mayStop' = TRUE
    /\ UNCHANGED <<relation, counted, hist, answered>>

Answer ==
    /\ ~answered
    /\ mayStop \/ counted = AllInputs
    /\ answered' = TRUE
    /\ UNCHANGED <<relation, counted, hist, mayStop>>

Next == Count \/ AllowStop \/ Answer

Spec == Init /\ [][Next]_vars

-----------------------------------------------------------------------------
(* An answer that nobody allowed to be early is the exact histogram of the *)
(* program.                                                                *)
InputsWith(value) == {x \in AllInputs : <<x, value>> \in relation}

AnswerIsExact ==
    answered /\ ~mayStop =>
        \A value \in Values : hist[value] = Cardinality(InputsWith(value))

=============================================================================
