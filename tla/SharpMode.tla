----------------------------- MODULE SharpMode ------------------------------
(***************************************************************************)
(* Mode bucketsharp: PICounter::count_one_bucket_sharp under the two loops *)
(* of det_bucket_sharp in main.cpp, with the external #SAT program that    *)
(* class SharpSAT (sharpsat.h, sharpsat.cpp) runs.                         *)
(***************************************************************************)
EXTENDS Enumeration

CONSTANTS
    IntBits     \* bound: the width of int, twice of which is that of uint64_t

ASSUME IntBitsAssumption == IntBits \in Nat \ {0}

VARIABLES
    ret,        \* the outer table: output value -> size
    inner,      \* det_bucket_sharp is in its inner loop, with the inner ret
    verdict

sharpVars == <<ret, inner, verdict>>

(* Buckets ret, the inner one, is empty. *)
Table == IF inner THEN <<>> ELSE ret

(* (uint64_t) atoi: int wraps, and a negative int is sign-extended. *)
atoi(n) ==
    LET w == n % twoTo[IntBits]
    IN  IF w < twoTo[IntBits - 1] THEN w ELSE twoTo[2 * IntBits] - twoTo[IntBits] + w

(* Mutant of SharpCount: the file has no line cr. *)
SharpCountModels == Cardinality({x \in program.cnf : Matches(x, assum)})

(* External: the pre-images of the assumed output in the input file, from  *)
(* which the blocking clauses are missing, projected to the line cr.       *)
SharpCount ==
    Cardinality({Cube(m, InputVars) : m \in {x \in program.cnf : Matches(x, assum)}})

(* find_models_in_output drops as many characters as the indicator has: of *)
(* a line that has it later, what is left does not start with the number.  *)
find_models_in_output == IF config.tool = "plain" THEN atoi(SharpCount) ELSE 0

(* The assertion of tolerance_met, which a request to stop skips: only the *)
(* first bucket has a size, so the two entropies compare as pi and SI do.  *)
(* With pi = 0 the upper bound writes before its vector.                   *)
ToleranceOutcome(pi) ==
    CASE terminate \/ ~config.tolerance -> {"sharp"}
      [] ~terminate /\ config.tolerance /\ pi = 0 -> {"undefined"}
      [] OTHER -> IF config.ndebug \/ pi > space_size(Len(program.ins))
                  THEN {"sharp"} ELSE {"aborted"}

SharpFindOutput ==
    /\ pc = "sharp" /\ Left # {}
    /\ model' \in Left
    /\ assum' = Cube(model', OutputVars)
    /\ pc' = "copy"
    /\ UNCHANGED <<config, program, blocked, terminate, sharpVars>>

(* Mutant of SharpNoOutput: the inner loop does not look at it either. *)
SharpIgnored ==
    /\ pc = "sharp" /\ Left = {}
    /\ inner' = TRUE
    /\ UNCHANGED <<config, program, blocked, model, assum, terminate, pc, verdict, ret>>

(* The call returns false. The outer loop does not look at it; the inner   *)
(* one leaves, and main returns without a final result.                    *)
SharpNoOutput ==
    /\ pc = "sharp" /\ Left = {}
    /\ IF inner
       THEN /\ pc' = "done"
            /\ verdict' = IF terminate THEN "user" ELSE "exhaustive"
       ELSE UNCHANGED <<pc, verdict>>
    /\ inner' = TRUE
    /\ UNCHANGED <<config, program, blocked, model, assum, terminate, ret>>

(* SharpSAT::operator() copies the input file. At a line of 4095 or more   *)
(* characters getline fails without reaching the end of the file.          *)
SharpCopy ==
    /\ pc = "copy"
    /\ pc' = IF config.longLine THEN "copy" ELSE "tool"
    /\ UNCHANGED <<config, program, blocked, model, assum, terminate, sharpVars>>

(* No line of the output has the indicator: a runtime_error. *)
SharpToolSilent ==
    /\ pc = "tool" /\ config.tool = "silent"
    /\ pc' = "uncaught"
    /\ UNCHANGED <<config, program, blocked, model, assum, terminate, sharpVars>>

(* The table has no such bucket: out_of_range. *)
SharpNoBucket ==
    /\ pc = "tool" /\ config.tool # "silent"
    /\ Output(model) \notin DOMAIN Table
    /\ pc' = "uncaught"
    /\ UNCHANGED <<config, program, blocked, model, assum, terminate, sharpVars>>

(* The bucket takes the count, the output is blocked; what the call        *)
(* returns is dropped, and the inner loop begins.                          *)
SharpBucket ==
    /\ pc = "tool" /\ config.tool # "silent"
    /\ Output(model) \in DOMAIN Table
    /\ ret' = [ret EXCEPT ![Output(model)] = find_models_in_output]
    /\ prohibit_project(OutputVars)
    /\ assum' = NoCube
    /\ inner' = TRUE
    /\ pc' \in ToleranceOutcome(find_models_in_output)
    /\ UNCHANGED <<config, program, model, terminate, verdict>>

SharpInit ==
    /\ ret = [k \in 0 .. space_size(Len(program.outs)) - 1 |-> 0]
    /\ inner = FALSE
    /\ verdict = "none"

SharpNext ==
    \/ SharpFindOutput \/ SharpNoOutput \/ SharpCopy
    \/ SharpToolSilent \/ SharpNoBucket \/ SharpBucket

=============================================================================
