----------------------------- MODULE MCSharpPI -----------------------------
(***************************************************************************)
(* Instances of SharpPI for TLC. The variables are strings.                *)
(*                                                                         *)
(* Nothing in the program depends on which inputs share an output nor on   *)
(* which output it is, only on the sizes of the pre-images: permuting the  *)
(* inputs, or the outputs, of a CNF permutes its behaviours. So one CNF    *)
(* per multiset of sizes stands for all of them.                           *)
(***************************************************************************)
EXTENDS SharpPIProps

CONSTANTS
    ModesUsed,   \* the modes of the instance
    Builds,      \* values of config.ndebug
    HandlersUsed,\* values of config.handler
    MaxOutputs   \* bound: no CNF of the instance has more outputs

-----------------------------------------------------------------------------
OneBit    == <<"i0">>
TwoBits   == <<"i0", "i1">>
ThreeBits == <<"i0", "i1", "i2">>
NoOuts    == <<>>
OneOut    == <<"o0">>
TwoOuts   == <<"o0", "o1">>
FreeVar   == {"x"}

NInputs == 2^Len(InputLits)

(* sizes[k] inputs are mapped to output value k - 1. *)
Shapes ==
    {sizes \in [1 .. MaxOutputs -> 0 .. NInputs] :
        /\ SumFunction(sizes) <= NInputs
        /\ \A i, j \in DOMAIN sizes : i < j => sizes[i] >= sizes[j]}

CNFOf(sizes) ==
    LET first(k) == SumFunctionOnSet(sizes, 1 .. k)
    IN  {m \in Assignments :
            LET x == interpret(m, InputLits)
                k == OutputValue(OutputOf(m))
            IN  k < MaxOutputs /\ first(k) <= x /\ x < first(k + 1)}

MCCNFs == {CNFOf(sizes) : sizes \in Shapes}

-----------------------------------------------------------------------------
(* No tolerance; a positive one, met by any two bounds; and a negative     *)
(* one, met while the bounds are far apart.                                *)
Tolerances == {Off, [num |-> 2, den |-> 1], [num |-> 1, den |-> 4]}

MCConfigs == [mode : ModesUsed, tolerance : Tolerances,
              ndebug : Builds, handler : HandlersUsed]

(* Tolerance disabled, the default of the command line. *)
MCDefaultConfigs == {c \in MCConfigs : c.tolerance = Off}

=============================================================================
