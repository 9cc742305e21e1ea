------------------------------ MODULE SharpPI ------------------------------
(***************************************************************************)
(* A run of sharpPI in one of the modes for deterministic programs: the    *)
(* mode's loop, SIGTERM arriving at any moment, and the final report       *)
(* (src/src/main.cpp).                                                     *)
(***************************************************************************)
EXTENDS BucketMode, UnguidedMode, SyncMode

vars == <<picVars, syncVars>>

Init == PICounterInit /\ SyncInit

-----------------------------------------------------------------------------
(* SIGTERM. With the handler installed it sets the flag; a process without *)
(* it is killed. The signal is delivered between any two steps.            *)
Sigterm ==
    /\ pc \notin Terminal
    /\ ~terminate
    /\ IF config.handler
       THEN terminate' = TRUE /\ UNCHANGED pc
       ELSE pc' = "killed" /\ UNCHANGED terminate
    /\ UNCHANGED <<config, cnf, blockedIn, blockedOut, model, assum, buckets, b,
                   verdict, syncVars>>

(* The line that says whether everything was counted; count_deterministic  *)
(* (bucketa) prints none.                                                  *)
verdict_line ==
    IF mode = "bucketa" THEN "none" ELSE IF b THEN "more" ELSE "exhaustive"

(* The end of a mode: the verdict, then write_final_result, whose          *)
(* min_entropy divides the number of inputs by the number of outputs in    *)
(* integers.                                                               *)
Report ==
    /\ pc = "report"
    /\ verdict' = verdict_line
    /\ pc' = IF sum_outputs(buckets) = 0 THEN "sigfpe" ELSE "done"
    /\ UNCHANGED <<config, cnf, blockedIn, blockedOut, model, assum, buckets, b,
                   terminate, syncVars>>

Terminated == pc \in Terminal /\ UNCHANGED vars

-----------------------------------------------------------------------------
DenseNext == (BucketNext \/ UnguidedNext \/ AbortInToleranceMet) /\ UNCHANGED syncVars

(* What the one thread of the process does. *)
Step == DenseNext \/ SyncNext \/ Report

Next == Step \/ Sigterm \/ Terminated

Spec == Init /\ [][Next]_vars

(* The thread is never stopped for ever, and every solver call returns. *)
FairSpec == Spec /\ WF_vars(Step)

=============================================================================
