------------------------------ MODULE SyncMode ------------------------------
(***************************************************************************)
(* Mode sync: find all outputs first, then count one pre-image of every    *)
(* open bucket per round (det_sync in main.cpp,                            *)
(* PICounter::prepare_sync_counting and PICounter::count_sync).            *)
(*                                                                         *)
(* Every output found gets a fresh label variable and a clause which       *)
(* blocks the output while the label is assumed true. Element i of the     *)
(* vectors labels and buckets, from 0, is element i + 1 of the sequences.  *)
(***************************************************************************)
EXTENDS PICounter

VARIABLES
    labels,   \* sequence of the outputs found: value, and cube of the clause
    cursor,   \* i of count_sync's loop
    one_open  \* one_open of count_sync

syncVars == <<labels, cursor, one_open>>

SyncInit ==
    /\ labels = <<>>
    /\ cursor = 1
    /\ one_open = FALSE

(* Mutant of ModelsWithout: the cursor's label is not switched off. *)
ModelsWithoutAll(on) ==
    {m \in Models : \A j \in DOMAIN labels : OutputOf(m) # labels[j].cube}

(* solve with the labels of the indices in on assumed true, the others     *)
(* false: the outputs of on are blocked.                                   *)
ModelsWithout(on) ==
    {m \in Models : \A j \in on : OutputOf(m) # labels[j].cube}

-----------------------------------------------------------------------------
(* Mutant of PrepareOutput: the output found gets no bucket. *)
PrepareWithoutBucket ==
    /\ pc = "prepare"
    /\ \E m \in ModelsWithout(DOMAIN labels) :
        /\ model' = m
        /\ labels' = Append(labels, [output |-> OutputValue(OutputOf(m)), cube |-> OutputOf(m)])
        /\ ProhibitInput(m)
    /\ UNCHANGED <<config, cnf, blockedOut, assum, buckets, b, terminate, verdict, pc,
                   cursor, one_open>>

(* Mutant of PrepareOutput: the label is not added to the assumption. *)
PrepareWithoutAssumption ==
    /\ pc = "prepare"
    /\ \E m \in Models :
        /\ model' = m
        /\ labels' = Append(labels, [output |-> OutputValue(OutputOf(m)), cube |-> OutputOf(m)])
        /\ ProhibitInput(m)
    /\ buckets' = Append(buckets, [size |-> 1, closed |-> FALSE])
    /\ UNCHANGED <<config, cnf, blockedOut, assum, b, terminate, verdict, pc,
                   cursor, one_open>>

(* One iteration of prepare_sync_counting. *)
PrepareOutput ==
    /\ pc = "prepare"
    /\ \E m \in ModelsWithout(DOMAIN labels) :
        /\ model' = m
        /\ labels' = Append(labels, [output |-> OutputValue(OutputOf(m)), cube |-> OutputOf(m)])
        /\ ProhibitInput(m)
    /\ buckets' = Append(buckets, [size |-> 1, closed |-> FALSE])
    /\ UNCHANGED <<config, cnf, blockedOut, assum, b, terminate, verdict, pc,
                   cursor, one_open>>

PrepareDone ==
    /\ pc = "prepare"
    /\ ModelsWithout(DOMAIN labels) = {}
    /\ pc' = "visit"
    /\ UNCHANGED <<config, cnf, blockedIn, blockedOut, model, assum, buckets, b,
                   terminate, verdict, syncVars>>

-----------------------------------------------------------------------------
(* count_sync: one pass over the buckets. After a bucket that is not       *)
(* closed, first the flag, then the tolerance end the pass with false.     *)

(* Mutant of SkipClosed: continue without the increment. *)
SkipNothing ==
    /\ pc = "visit"
    /\ cursor <= Len(labels)
    /\ buckets[cursor].closed
    /\ UNCHANGED <<picVars, syncVars>>

SkipClosed ==
    /\ pc = "visit"
    /\ cursor <= Len(labels)
    /\ buckets[cursor].closed
    /\ cursor' = cursor + 1
    /\ UNCHANGED <<config, cnf, blockedIn, blockedOut, model, assum, buckets, b,
                   terminate, verdict, pc, labels, one_open>>

AfterVisit ==
    /\ b' = IF terminate THEN FALSE ELSE b
    /\ pc' = IF terminate THEN "round" ELSE "check"

(* Mutant of VisitOpen: one_open is not set. *)
VisitOpenSilently ==
    /\ pc = "visit"
    /\ cursor <= Len(labels)
    /\ ~buckets[cursor].closed
    /\ \E m \in ModelsWithout(DOMAIN labels \ {cursor}) :
        /\ model' = m
        /\ ProhibitInput(m)
    /\ buckets' = Increment(buckets, cursor)
    /\ AfterVisit
    /\ UNCHANGED <<config, cnf, blockedOut, assum, terminate, verdict, syncVars>>

(* Only the label of the cursor is off. *)
VisitOpen ==
    /\ pc = "visit"
    /\ cursor <= Len(labels)
    /\ ~buckets[cursor].closed
    /\ \E m \in ModelsWithout(DOMAIN labels \ {cursor}) :
        /\ model' = m
        /\ ProhibitInput(m)
    /\ buckets' = Increment(buckets, cursor)
    /\ one_open' = TRUE
    /\ AfterVisit
    /\ UNCHANGED <<config, cnf, blockedOut, assum, terminate, verdict, labels, cursor>>

VisitEmpty ==
    /\ pc = "visit"
    /\ cursor <= Len(labels)
    /\ ~buckets[cursor].closed
    /\ ModelsWithout(DOMAIN labels \ {cursor}) = {}
    /\ buckets' = [buckets EXCEPT ![cursor].closed = TRUE]
    /\ AfterVisit
    /\ UNCHANGED <<config, cnf, blockedIn, blockedOut, model, assum, terminate,
                   verdict, syncVars>>

(* Mutant of CheckSync: the same bucket is visited again. *)
CheckSyncAndStay ==
    /\ pc = "check" /\ mode = "sync"
    /\ ~assert_fails
    /\ IF tolerance_met
       THEN b' = FALSE /\ pc' = "round"
       ELSE pc' = "visit" /\ UNCHANGED b
    /\ UNCHANGED <<config, cnf, blockedIn, blockedOut, model, assum, buckets,
                   terminate, verdict, syncVars>>

CheckSync ==
    /\ pc = "check" /\ mode = "sync"
    /\ ~assert_fails
    /\ IF tolerance_met
       THEN b' = FALSE /\ pc' = "round" /\ UNCHANGED cursor
       ELSE cursor' = cursor + 1 /\ pc' = "visit" /\ UNCHANGED b
    /\ UNCHANGED <<config, cnf, blockedIn, blockedOut, model, assum, buckets,
                   terminate, verdict, labels, one_open>>

PassDone ==
    /\ pc = "visit"
    /\ cursor > Len(labels)
    /\ b' = one_open
    /\ pc' = "round"
    /\ UNCHANGED <<config, cnf, blockedIn, blockedOut, model, assum, buckets,
                   terminate, verdict, syncVars>>

(* Mutant of NextRound: the test of b is swapped. *)
NextRoundSwapped ==
    /\ pc = "round"
    /\ IF terminate \/ b
       THEN pc' = "report" /\ UNCHANGED syncVars
       ELSE pc' = "visit" /\ cursor' = 1 /\ one_open' = FALSE /\ UNCHANGED labels
    /\ UNCHANGED <<config, cnf, blockedIn, blockedOut, model, assum, buckets, b,
                   terminate, verdict>>

(* The loop of det_sync. one_open and i are locals of the next call. *)
NextRound ==
    /\ pc = "round"
    /\ IF terminate \/ ~b
       THEN pc' = "report" /\ UNCHANGED syncVars
       ELSE pc' = "visit" /\ cursor' = 1 /\ one_open' = FALSE /\ UNCHANGED labels
    /\ UNCHANGED <<config, cnf, blockedIn, blockedOut, model, assum, buckets, b,
                   terminate, verdict>>

SyncNext ==
    \/ PrepareOutput \/ PrepareDone
    \/ SkipClosed \/ VisitOpen \/ VisitEmpty \/ CheckSync \/ PassDone
    \/ NextRound

=============================================================================
