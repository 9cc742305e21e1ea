---------------------------- MODULE UnguidedMode ----------------------------
(***************************************************************************)
(* Mode unguided: take whatever input/output pair the solver finds next    *)
(* (det_unguided in main.cpp, PICounter::count_unguided and                *)
(* PICounter::count_unstructured_one).                                     *)
(***************************************************************************)
EXTENDS PICounter

(* Mutant of UnguidedHead: the test of SO is missing. *)
UnguidedHeadUnchecked ==
    /\ pc = "head" /\ mode = "unguided"
    /\ pc' = IF terminate THEN "report" ELSE "solve"
    /\ UNCHANGED <<config, cnf, blockedIn, blockedOut, model, assum, buckets, b,
                   terminate, verdict>>

(* det_unguided up to count_unguided. It throws when space_size is 0. The  *)
(* flag is seen only here, before the first solve, since count_unguided    *)
(* returns only false: b is then the uninitialised variable.               *)
UnguidedHead ==
    /\ pc = "head" /\ mode = "unguided"
    /\ pc' = IF DOMAIN buckets = {} THEN "uncaught"
             ELSE IF terminate THEN "report" ELSE "solve"
    /\ UNCHANGED <<config, cnf, blockedIn, blockedOut, model, assum, buckets, b,
                   terminate, verdict>>

(* count_unstructured_one up to the test of the flag. *)
CountUnstructuredOne ==
    /\ pc = "solve" /\ mode = "unguided"
    /\ \E m \in Models :
        /\ model' = m
        /\ ProhibitInput(m)
        /\ buckets' = Increment(buckets, OutputValue(OutputOf(m)))
    /\ b' = IF terminate THEN FALSE ELSE b
    /\ pc' = IF terminate THEN "report" ELSE "check"
    /\ UNCHANGED <<config, cnf, blockedOut, assum, terminate, verdict>>

(* count_unstructured_one returns false, count_unguided and the loop end. *)
NoPairLeft ==
    /\ pc = "solve" /\ mode = "unguided"
    /\ Models = {}
    /\ b' = FALSE
    /\ pc' = "report"
    /\ UNCHANGED <<config, cnf, blockedIn, blockedOut, model, assum, buckets,
                   terminate, verdict>>

(* The rest of count_unstructured_one. *)
CheckUnguided ==
    /\ pc = "check" /\ mode = "unguided"
    /\ ~assert_fails
    /\ b' = IF tolerance_met THEN FALSE ELSE b
    /\ pc' = IF tolerance_met THEN "report" ELSE "solve"
    /\ UNCHANGED <<config, cnf, blockedIn, blockedOut, model, assum, buckets,
                   terminate, verdict>>

UnguidedNext ==
    \/ UnguidedHead \/ CountUnstructuredOne \/ NoPairLeft \/ CheckUnguided

=============================================================================
