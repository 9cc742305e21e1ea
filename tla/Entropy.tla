------------------------------ MODULE Entropy ------------------------------
(***************************************************************************)
(* The histogram arithmetic of src/src/entropy.cpp and entropy.h.          *)
(*                                                                         *)
(* A histogram is a function from bucket indices (integers) to buckets,    *)
(* records with fields size and closed.  The code computes Shannon         *)
(* entropies in floating point, (1/SI) * SUM v*log2(v).  Here they are     *)
(* exact: an entropy H over SI inputs is represented by 2^(SI*H), the      *)
(* product of the v^v, so that comparing two entropies over the same SI is *)
(* comparing two integers.                                                 *)
(***************************************************************************)
EXTENDS Integers, FiniteSets, FiniteSetsExt

(* ((uint64_t) 1) << n *)
twoTo[n \in Nat] == IF n = 0 THEN 1 ELSE 2 * twoTo[n - 1]

(* Number of values of n propositional variables; 0, not 1, when n is 0.   *)
(* The code shifts a 64-bit word: the model is used with n < 64.           *)
space_size(n) == IF n = 0 THEN 0 ELSE twoTo[n]

sum_buckets(buckets) ==
    MapThenSumSet(LAMBDA k : buckets[k].size, DOMAIN buckets)

(* Mutant of sum_outputs: an output with one pre-image is not counted. *)
sum_large_outputs(buckets) ==
    Cardinality({k \in DOMAIN buckets : buckets[k].size > 1})

sum_outputs(buckets) ==
    Cardinality({k \in DOMAIN buckets : buckets[k].size # 0})

-----------------------------------------------------------------------------
(* Entropies, as powers of two of SI times the code's value *)

(* v^n, by its recursion: ^ itself is unknown to the provers. *)
Power(v, n) ==
    LET power[k \in Nat] == IF k = 0 THEN 1 ELSE v * power[k - 1]
    IN  power[n]

shannon_entropy(sizes) ==
    LET weight(k) == IF sizes[k] \in {0, 1} THEN 1 ELSE Power(sizes[k], sizes[k])
    IN  MapThenFoldSet(LAMBDA x, y : x * y, 1, weight,
                       LAMBDA S : CHOOSE k \in S : TRUE, DOMAIN sizes)

(* Mutant of LargestBucket: the comparison is reversed. *)
SmallestBucket(buckets) ==
    CHOOSE k \in DOMAIN buckets :
        \A j \in DOMAIN buckets : buckets[k].size <= buckets[j].size

(* The first bucket of maximal size. The code's max_id is only assigned    *)
(* when some bucket is not empty.                                          *)
LargestBucket(buckets) ==
    CHOOSE k \in DOMAIN buckets :
        \A j \in DOMAIN buckets :
            /\ buckets[j].size <= buckets[k].size
            /\ j < k => buckets[j].size < buckets[k].size

(* All inputs not counted yet are put into the largest bucket. *)
shannon_entropy_upper_bound(buckets, allpreimages, countedpreimages) ==
    LET residum == allpreimages - countedpreimages
        max_id  == LargestBucket(buckets)
    IN  shannon_entropy([k \in DOMAIN buckets |->
            buckets[k].size + (IF k = max_id THEN residum ELSE 0)])

(* The code equalises the open buckets in a priority queue, drops the      *)
(* queue, and returns the entropy of the sizes as they were: what it       *)
(* computes depends neither on closed nor on the residuum.                 *)
shannon_entropy_lower_bound(buckets, allpreimages, countedpreimages) ==
    shannon_entropy([k \in DOMAIN buckets |-> buckets[k].size])

=============================================================================
