---------------------------- MODULE MCOtherModes ----------------------------
(***************************************************************************)
(* Instances of OtherModes for TLC. The literals of a program are its      *)
(* first variables: inputs, then seeds, then outputs, then the spare one.  *)
(***************************************************************************)
EXTENDS OtherModes

CONSTANT ModesUsed

Literals(from, n) == [i \in 1 .. n |-> from + i - 1]

(* The program with the given numbers of bits whose output is out(input,   *)
(* seed), a partial function: no output where the value is -1.             *)
Program(i, s, o, out(_, _)) ==
    LET ins == Literals(0, i)
        seeds == Literals(i, s)
        outs == Literals(i + s, o)
    IN  [ins |-> ins, seeds |-> seeds, outs |-> outs, nVars |-> i + s + o + 1,
         cnf |-> {m \in [0 .. i + s + o -> BOOLEAN] :
                    interpret(m, outs) = out(interpret(m, ins), interpret(m, seeds))}]

Xor(x, s)     == (x + s) % 2
OnlyEven(x, s) == IF x % 2 = 0 THEN s ELSE -1
Copy(x, s)    == x
High(x, s)    == s \div 2
Sum(x, s)     == x + s
Zero(x, s)    == 0
Nothing(x, s) == -1
Crossed(x, s) == CASE x = 0 -> 1 [] x = 2 -> 0 [] OTHER -> -1

RandPrograms ==
    {Program(2, 1, 1, Xor), Program(2, 1, 2, Copy), Program(2, 1, 1, OnlyEven),
     Program(1, 2, 1, High), Program(1, 2, 2, OnlyEven), Program(1, 0, 1, Copy),
     Program(1, 1, 1, Nothing)}

SharpPrograms ==
    {Program(2, 0, 1, Zero), Program(1, 0, 1, Copy), Program(1, 0, 0, Zero),
     Program(1, 0, 1, Nothing), Program(1, 1, 1, Zero), Program(2, 0, 1, OnlyEven)}

SatPrograms ==
    {[p EXCEPT !.outs = <<>>] : p \in {Program(1, 0, 1, Copy), Program(1, 0, 1, Zero),
                                       Program(0, 0, 0, Zero)}}
    \cup {Program(2, 0, 1, Xor), Program(2, 0, 2, Copy), Program(1, 0, 1, Nothing)}

(* Whichever output comes first, the other one drops its pairs. *)
CrossedPrograms == {Program(2, 1, 1, Crossed)}

MCPrograms == RandPrograms \cup SharpPrograms \cup SatPrograms

MCConfigs ==
    {c \in [mode : ModesUsed, handler : BOOLEAN, ndebug : BOOLEAN, tolerance : BOOLEAN,
            tool : {"plain", "prefixed", "silent"}, longLine : BOOLEAN,
            max_models : {0, 2, 100}] :
        /\ c.mode # "bucketsharp" =>
             ~c.ndebug /\ ~c.tolerance /\ c.tool = "plain" /\ ~c.longLine
        /\ c.mode # "sat" => c.max_models = 0}

=============================================================================
