---------------------------- MODULE SharpPIProps ----------------------------
(***************************************************************************)
(* The properties of a run of sharpPI (module SharpPI).                    *)
(***************************************************************************)
EXTENDS SharpPI

Buckets == [size : Nat, closed : BOOLEAN]
Labels  == [output : {OutputValue(o) : o \in Outputs}, cube : Outputs]

SolverType ==
    /\ cnf \subseteq Assignments
    /\ blockedIn \subseteq Inputs
    /\ blockedOut \subseteq Outputs
    /\ model = NoModel \/ model \in cnf
    /\ assum = NoOutput \/ assum \in Outputs

HistogramType ==
    IF mode = "sync"
    THEN buckets \in Seq(Buckets) /\ Len(buckets) = Len(labels)
    ELSE buckets \in [0 .. space_size(Len(OutputLits)) - 1 -> Buckets]

SyncType ==
    /\ labels \in Seq(Labels)
    /\ cursor \in 1 .. Len(labels) + 1
    /\ one_open \in BOOLEAN

ControlType ==
    /\ config \in Configs
    /\ b \in BOOLEAN
    /\ terminate \in BOOLEAN
    /\ verdict \in {"none", "exhaustive", "more"}
    /\ pc \in Terminal \cup {"head", "solve", "book", "next", "check", "prepare",
                             "visit", "round", "report"}

(* Every variable keeps its type; the solver's model is a model of the CNF *)
(* once there is one; sync has as many buckets as labels, and its cursor   *)
(* never leaves them by more than one.                                     *)
TypeOK == SolverType /\ HistogramType /\ SyncType /\ ControlType

-----------------------------------------------------------------------------
(* The inputs of the program, and those of an output cube. *)
ProgramInputs == {InputOf(m) : m \in cnf}
Preimage(output) == {InputOf(m) : m \in {n \in cnf : OutputOf(n) = output}}
PreimageOfValue(k) == {InputOf(m) : m \in {n \in cnf : OutputValue(OutputOf(n)) = k}}

(* The inputs that belong into bucket k. *)
PreimageOfBucket(k) ==
    IF mode = "sync" THEN Preimage(labels[k].cube) ELSE PreimageOfValue(k)

AllCounted == ProgramInputs \subseteq blockedIn

(* Each bucket holds exactly the number of inputs blocked so far that the  *)
(* program maps to the bucket's output: no input is counted twice, none is *)
(* counted without being blocked or blocked without being counted, and     *)
(* none ends in another output's bucket.                                   *)
HistogramIsOfCounted ==
    \A k \in DOMAIN buckets :
        buckets[k].size = Cardinality(blockedIn \cap PreimageOfBucket(k))

(* The bucket modes block an output by the stale model array after the     *)
(* last solve of the bucket failed. Unless the user asked to stop, an      *)
(* output is blocked only when each of its inputs is counted: the blocking *)
(* clause loses no pre-image.                                              *)
BlockedOutputIsCounted ==
    ~terminate => \A output \in blockedOut : Preimage(output) \subseteq blockedIn

(* Without a tolerance and without a request to stop, the line "Search was *)
(* exhaustive" is only printed when all inputs of the program are counted. *)
(* In bucket mode it is true even if the request came, as the loop leaves  *)
(* with b true.                                                            *)
ExhaustiveIsTrue ==
    verdict = "exhaustive" /\ config.tolerance = Off /\ (mode = "bucket" \/ ~terminate)
        => AllCounted

(* A run without a tolerance and without a request to stop that gets to    *)
(* its report has counted every input, in every mode, and the histogram it *)
(* reports is the program's.                                               *)
ReportIsExact ==
    pc \in {"done", "sigfpe"} /\ ~terminate /\ config.tolerance = Off =>
        /\ AllCounted
        /\ \A k \in DOMAIN buckets : buckets[k].size = Cardinality(PreimageOfBucket(k))

(* After the preparation of sync, the labels stand for the outputs of the  *)
(* program, each once.                                                     *)
LabelsAreTheOutputs ==
    mode = "sync" /\ pc # "prepare" /\ pc # "killed" =>
        /\ {labels[i].cube : i \in DOMAIN labels} = {OutputOf(m) : m \in cnf}
        /\ \A i, j \in DOMAIN labels : labels[i].output = labels[j].output => i = j

(* A bucket that sync closed is complete. *)
ClosedIsComplete ==
    mode = "sync" => \A i \in DOMAIN buckets :
        buckets[i].closed => Preimage(labels[i].cube) \subseteq blockedIn

(* sync counts one pre-image of each open bucket per pass: two open        *)
(* buckets differ by at most one, and the one ahead was visited earlier.   *)
SyncIsBalanced ==
    mode = "sync" => \A i, j \in DOMAIN buckets :
        i < j /\ ~buckets[i].closed /\ ~buckets[j].closed
            => buckets[i].size - buckets[j].size \in {0, 1}

(* Whenever a mode asks for the tolerance, the entropy of the program's    *)
(* histogram lies between the bounds computed from the partial one, and    *)
(* some bucket is not empty, which the upper bound needs.                  *)
FinalSizes == [k \in DOMAIN buckets |-> Cardinality(PreimageOfBucket(k))]

BoundsBracketTheEntropy ==
    pc = "check" =>
        LET found == sum_buckets(buckets)
            final == shannon_entropy(FinalSizes)
        IN  /\ \E k \in DOMAIN buckets : buckets[k].size > 0
            /\ shannon_entropy_lower_bound(buckets, allpreimages, found) <= final
            /\ final <= shannon_entropy_upper_bound(buckets, allpreimages, found)

(* Without output variables the table of the dense modes has no bucket at  *)
(* all. They then end in an exception before they count anything, unless   *)
(* there is nothing to count or the run is stopped first; sync keeps one   *)
(* bucket, for the empty cube, and counts on.                              *)
NoTableNoAnswer ==
    /\ mode # "sync" /\ DOMAIN buckets = {} => blockedIn = {} /\ pc # "done"
    /\ pc = "uncaught" => DOMAIN buckets = {}

(* The final report divides by zero only if the program has no input at    *)
(* all, or the user stopped the run before the first one was counted.      *)
ReportFailsOnlyOnNothing ==
    pc = "sigfpe" => blockedIn = {} /\ (cnf = {} \/ terminate)

-----------------------------------------------------------------------------
(* docs/index.md: bucket first finds an output and then counts all its     *)
(* pre-images. The mode takes up another output only when the one before   *)
(* is counted, or on the way out after a request to stop.                  *)
OneBucketAtATime ==
    [][assum' # assum /\ assum # NoOutput /\ ~terminate
         => Preimage(assum) \subseteq blockedIn]_vars

-----------------------------------------------------------------------------
(* The run implements PreimageCount. The bucket of an output value, if it  *)
(* has one: sync looks for its label, the dense modes have it as index.    *)
BucketsOf(value) ==
    {k \in DOMAIN buckets : IF mode = "sync" THEN labels[k].output = value ELSE k = value}

HistOf(value) ==
    IF BucketsOf(value) = {} THEN 0
    ELSE buckets[CHOOSE k \in BucketsOf(value) : TRUE].size

RelationOf(clauses) == {<<InputOf(m), OutputValue(OutputOf(m))>> : m \in clauses}

OutputValues == {OutputValue(output) : output \in Outputs}

Counter == INSTANCE PreimageCount WITH
    Relations <- {RelationOf(clauses) : clauses \in CNFs},
    Values    <- OutputValues,
    relation  <- RelationOf(cnf),
    counted   <- blockedIn,
    hist      <- [value \in OutputValues |-> HistOf(value)],
    mayStop   <- terminate \/ config.tolerance # Off,
    answered  <- pc \in {"done", "sigfpe"}

(* Every mode counts each input once for its own output and, if there is   *)
(* neither a tolerance nor a request to stop, reports only when it counted *)
(* all of them.                                                            *)
ImplementsPreimageCount == Counter!Spec

(* Every run ends: with a report, or by one of the failures.               *)
(* Each model found blocks one more input, so no loop can go on for ever.  *)
Terminates == <>(pc \in Terminal)

-----------------------------------------------------------------------------
(* What the code says of itself, and what it does not keep. *)

(* PICounter.h:238: assert( l - u > 0 ). The lower bound is never above    *)
(* the upper one, so the assertion fails whenever it is evaluated.         *)
AssertHolds == pc # "aborted"

(* main.cpp prints "Search was exhaustive" when b is false, and b is also  *)
(* false after an early stop because of the tolerance.                     *)
ExhaustiveMeansAllCounted == verdict = "exhaustive" => AllCounted

=============================================================================
