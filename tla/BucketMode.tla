----------------------------- MODULE BucketMode -----------------------------
(***************************************************************************)
(* Modes bucket and bucketa: find an output, count all its pre-images,     *)
(* block the output, repeat (PICounter::count_one_bucket under the loops   *)
(* of det_bucket in main.cpp and of PICounter::count_bucket_all).          *)
(***************************************************************************)
EXTENDS PICounter

InBucketMode == mode \in {"bucket", "bucketa"}

(* Head of the loop. Only det_bucket looks at the flag; b is still TRUE    *)
(* when it leaves the loop here.                                           *)
BucketHead ==
    /\ pc = "head" /\ InBucketMode
    /\ pc' = IF mode = "bucket" /\ terminate THEN "report" ELSE "solve"
    /\ UNCHANGED <<config, cnf, blockedIn, blockedOut, model, assum, buckets,
                   b, terminate, verdict>>

(* count_one_bucket: the first solve fixes the output of the bucket.       *)
(* previous.at throws when the table has no such index.                    *)
FindOutput ==
    /\ pc = "solve" /\ InBucketMode
    /\ \E m \in Models :
        /\ model' = m
        /\ assum' = OutputOf(m)
        /\ pc' = IF OutputValue(OutputOf(m)) \in DOMAIN buckets THEN "book" ELSE "uncaught"
    /\ UNCHANGED <<config, cnf, blockedIn, blockedOut, buckets, b, terminate, verdict>>

(* count_one_bucket returns false, the loop ends. *)
NoOutputLeft ==
    /\ pc = "solve" /\ InBucketMode
    /\ Models = {}
    /\ b' = FALSE
    /\ pc' = "report"
    /\ UNCHANGED <<config, cnf, blockedIn, blockedOut, model, assum, buckets,
                   terminate, verdict>>

(* Mutant of BookPreimage: the inner loop ends after its first round. *)
BookOnlyOnePreimage ==
    /\ pc = "book"
    /\ buckets' = Increment(buckets, OutputValue(assum))
    /\ ProhibitInput(model)
    /\ pc' = "check"
    /\ UNCHANGED <<config, cnf, blockedOut, model, assum, b, terminate, verdict>>

(* Body of the inner loop, up to the test of the flag. The bucket is the   *)
(* reference taken with the first model.                                   *)
BookPreimage ==
    /\ pc = "book"
    /\ buckets' = Increment(buckets, OutputValue(assum))
    /\ ProhibitInput(model)
    /\ pc' = IF terminate THEN "check" ELSE "next"
    /\ UNCHANGED <<config, cnf, blockedOut, model, assum, b, terminate, verdict>>

(* Mutant of FindPreimage: solve() without the assumption. *)
FindAnyPreimage ==
    /\ pc = "next"
    /\ \E m \in Models : model' = m
    /\ pc' = "book"
    /\ UNCHANGED <<config, cnf, blockedIn, blockedOut, assum, buckets, b,
                   terminate, verdict>>

(* solve(assum): the next pre-image of the same output. *)
FindPreimage ==
    /\ pc = "next"
    /\ \E m \in ModelsWith(assum) : model' = m
    /\ pc' = "book"
    /\ UNCHANGED <<config, cnf, blockedIn, blockedOut, assum, buckets, b,
                   terminate, verdict>>

(* The bucket is counted. The model array keeps the last model found. *)
NoPreimageLeft ==
    /\ pc = "next"
    /\ ModelsWith(assum) = {}
    /\ pc' = "check"
    /\ UNCHANGED <<config, cnf, blockedIn, blockedOut, model, assum, buckets, b,
                   terminate, verdict>>

(* tolerance_met, then either return false or block the output of the      *)
(* model array and return true.                                            *)
LeaveBucket ==
    /\ pc = "check" /\ InBucketMode
    /\ ~assert_fails
    /\ IF tolerance_met
       THEN /\ b' = FALSE
            /\ pc' = "report"
            /\ UNCHANGED blockedOut
       ELSE /\ b' = TRUE
            /\ pc' = "head"
            /\ ProhibitOutput(model)
    /\ UNCHANGED <<config, cnf, blockedIn, model, assum, buckets, terminate, verdict>>

BucketNext ==
    \/ BucketHead \/ FindOutput \/ NoOutputLeft
    \/ BookPreimage \/ FindPreimage \/ NoPreimageLeft
    \/ LeaveBucket

=============================================================================
