--------------------------- MODULE SharpPIProofs ----------------------------
(***************************************************************************)
(* Theorems about a run of sharpPI, for every CNF, every number of input   *)
(* and output variables, and every set of configurations.                  *)
(*                                                                         *)
(* The invariants come in layers; the proof of a layer uses the layers     *)
(* below it in both states of a step:                                      *)
(*   TypeInv       types, and which mode may be at which pc                *)
(*   HistInv       what the histogram counts                               *)
(*   BucketInv     the outputs that the bucket modes have left behind      *)
(*   PassInv       the buckets that a pass of sync has left behind         *)
(*   ExhaustInv    what the flag b means when the loop has ended           *)
(*   BalanceInv    how a pass of sync spreads its visits                   *)
(*   NamedInv      what the labels of sync stand for                       *)
(*   TableInv      when the table of a dense mode has buckets              *)
(*   EndInv        with what a run can end                                 *)
(* The last part maps every step to one of PreimageCount.                  *)
(***************************************************************************)
EXTENDS SharpPIProps, CountingLemmas, SequenceTheorems

(* What a run never changes. *)
ConfigInv == config \in Configs /\ cnf \in CNFs

(* A mode is only at the steps of its own loop, and count_sync only asks   *)
(* for the tolerance within its loop.                                      *)
PcInv ==
    /\ pc \in {"prepare", "visit", "round"} => mode = "sync"
    /\ pc \in {"head", "solve"} => mode # "sync"
    /\ pc \in {"book", "next"} => InBucketMode
    /\ pc = "check" /\ mode = "sync" => cursor <= Len(labels)

(* While a bucket is counted, the model array holds a model with the       *)
(* assumed output: also after the solve that found no further one.         *)
ModelInv ==
    pc \in {"book", "next", "check"} /\ InBucketMode =>
        model \in cnf /\ assum = OutputOf(model)

TypeInv == ConfigInv /\ PcInv /\ ModelInv /\ TypeOK

-----------------------------------------------------------------------------
(* Operators *)

(* The projections of an assignment are cubes over the projected variables.*)
LEMMA ProjectionType ==
    ASSUME NEW m \in Assignments
    PROVE  InputOf(m) \in Inputs /\ OutputOf(m) \in Outputs
  BY DEF Assignments, Vars, Inputs, Outputs, InputOf, OutputOf, Restrict

(* A model of the CNF is an assignment, and has the projections' types.    *)
LEMMA ModelType ==
    ASSUME TypeInv, NEW m \in cnf
    PROVE  m \in Assignments /\ InputOf(m) \in Inputs /\ OutputOf(m) \in Outputs
  BY ProjectionType DEF TypeInv, TypeOK, SolverType

(* An input of the CNF has one output.                                     *)
LEMMA Functional ==
    ASSUME ConfigInv, NEW m \in cnf, NEW n \in cnf, InputOf(m) = InputOf(n)
    PROVE  OutputOf(m) = OutputOf(n)
  BY CNFsAssumption DEF ConfigInv

(* Incrementing a bucket, whether the index is in the table or not, leaves *)
(* a table of the same indices.                                            *)
LEMMA IncrementTable ==
    ASSUME NEW D, NEW h \in [D -> Buckets], NEW k
    PROVE  /\ Increment(h, k) \in [D -> Buckets]
           /\ \A j \in D : Increment(h, k)[j].size =
                               IF j = k THEN h[j].size + 1 ELSE h[j].size
           /\ \A j \in D : Increment(h, k)[j].closed = h[j].closed
<1> DEFINE g == [h[k] EXCEPT !.size = @ + 1]
<1>1. Increment(h, k) = [j \in D |-> IF j = k THEN g ELSE h[j]]
  BY DEF Increment
<1>2. ASSUME k \in D PROVE g \in Buckets /\ g.size = h[k].size + 1 /\ g.closed = h[k].closed
  BY <1>2 DEF Buckets
<1> HIDE DEF g
<1>3. QED
  BY <1>1, <1>2

(* The same for the vector of sync.                                        *)
LEMMA IncrementSeq ==
    ASSUME NEW h \in Seq(Buckets), NEW k
    PROVE  /\ Increment(h, k) \in Seq(Buckets)
           /\ Len(Increment(h, k)) = Len(h)
           /\ \A j \in DOMAIN h : Increment(h, k)[j].size =
                               IF j = k THEN h[j].size + 1 ELSE h[j].size
           /\ \A j \in DOMAIN h : Increment(h, k)[j].closed = h[j].closed
<1>1. h \in [1 .. Len(h) -> Buckets]
  OBVIOUS
<1>2. Increment(h, k) \in [1 .. Len(h) -> Buckets]
  BY <1>1, IncrementTable
<1>3. Increment(h, k) \in Seq(Buckets) /\ Len(Increment(h, k)) = Len(h)
  BY <1>2
<1>4. QED
  BY <1>1, <1>3, IncrementTable

(* Closing a bucket of a vector.                                           *)
LEMMA CloseSeq ==
    ASSUME NEW h \in Seq(Buckets), NEW k
    PROVE  LET g == [h EXCEPT ![k].closed = TRUE]
           IN  /\ g \in Seq(Buckets)
               /\ Len(g) = Len(h)
               /\ \A j \in DOMAIN h : g[j].size = h[j].size
               /\ \A j \in DOMAIN h : g[j].closed <=> j = k \/ h[j].closed
<1> DEFINE e == [h[k] EXCEPT !.closed = TRUE]
<1> DEFINE g == [h EXCEPT ![k].closed = TRUE]
<1>1. h \in [1 .. Len(h) -> Buckets]
  OBVIOUS
<1>2. g = [j \in 1 .. Len(h) |-> IF j = k THEN e ELSE h[j]]
  BY <1>1
<1>3. ASSUME k \in 1 .. Len(h) PROVE e \in Buckets /\ e.size = h[k].size /\ e.closed = TRUE
  BY <1>1, <1>3 DEF Buckets
<1> HIDE DEF e, g
<1>4. g \in [1 .. Len(h) -> Buckets]
  BY <1>1, <1>2, <1>3
<1>5. g \in Seq(Buckets) /\ Len(g) = Len(h)
  BY <1>4
<1>6. \A j \in 1 .. Len(h) : g[j].size = h[j].size /\ (g[j].closed <=> j = k \/ h[j].closed)
  BY <1>1, <1>2, <1>3 DEF Buckets
<1>7. DOMAIN h = 1 .. Len(h)
  BY <1>1
<1>8. QED
  BY <1>5, <1>6, <1>7 DEF g

-----------------------------------------------------------------------------
(* A run starts with all variables of their types.                         *)
LEMMA TypeInit == Init => TypeInv
<1> SUFFICES ASSUME Init PROVE TypeInv
  OBVIOUS
<1>1. ConfigInv
  BY DEF Init, PICounterInit, ConfigInv
<1>2. SolverType
  BY <1>1, CNFsAssumption DEF Init, PICounterInit, ConfigInv, SolverType
<1>3. labels = <<>> /\ cursor = 1 /\ one_open = FALSE /\ Len(labels) = 0
  BY DEF Init, SyncInit
<1>4. <<>> \in Seq(Labels) /\ <<>> \in Seq(Buckets)
  OBVIOUS
<1>5. EmptyTable \in [0 .. space_size(Len(OutputLits)) - 1 -> Buckets]
  BY DEF EmptyTable, EmptyBucket, Buckets
<1>6. HistogramType
  BY <1>3, <1>4, <1>5 DEF Init, PICounterInit, HistogramType
<1>7. SyncType
  <2>1. labels \in Seq(Labels)
    BY <1>3, <1>4
  <2>2. cursor \in 1 .. Len(labels) + 1
    BY <1>3
  <2>3. QED
    BY <1>3, <2>1, <2>2 DEF SyncType
<1>8. ControlType /\ PcInv /\ ModelInv
  BY <1>1 DEF Init, PICounterInit, ControlType, PcInv, ModelInv, ConfigInv
<1>9. QED
  BY <1>1, <1>2, <1>6, <1>7, <1>8 DEF TypeInv, TypeOK

(* The configuration and the CNF never change.                             *)
LEMMA ConfigStep == [Next]_vars => UNCHANGED <<config, cnf>>
<1>1. ASSUME BucketNext PROVE UNCHANGED <<config, cnf>>
  BY <1>1 DEF BucketNext, BucketHead, FindOutput, NoOutputLeft, BookPreimage,
              FindPreimage, NoPreimageLeft, LeaveBucket
<1>2. ASSUME UnguidedNext PROVE UNCHANGED <<config, cnf>>
  BY <1>2 DEF UnguidedNext, UnguidedHead, CountUnstructuredOne, NoPairLeft, CheckUnguided
<1>3. ASSUME SyncNext PROVE UNCHANGED <<config, cnf>>
  BY <1>3 DEF SyncNext, PrepareOutput, PrepareDone, SkipClosed, VisitOpen, VisitEmpty,
              CheckSync, PassDone, NextRound
<1>4. ASSUME AbortInToleranceMet \/ Report \/ Sigterm \/ Terminated \/ UNCHANGED vars
      PROVE  UNCHANGED <<config, cnf>>
  BY <1>4 DEF AbortInToleranceMet, Report, Sigterm, Terminated, vars, picVars
<1>5. QED
  BY <1>1, <1>2, <1>3, <1>4 DEF Next, Step, DenseNext

(* Control: each step leads where the mode may go.                         *)
LEMMA ControlStep == ASSUME TypeInv, [Next]_vars PROVE ControlType' /\ PcInv'
<1> UNCHANGED <<config, cnf>>
  BY ConfigStep
<1> USE DEF TypeInv, ConfigInv, PcInv, TypeOK, ControlType, mode, InBucketMode, Terminal, syncVars
<1>1. ASSUME BucketNext PROVE ControlType' /\ PcInv'
  BY <1>1 DEF BucketNext, BucketHead, FindOutput, NoOutputLeft, BookPreimage,
              FindPreimage, NoPreimageLeft, LeaveBucket
<1>2. ASSUME UnguidedNext PROVE ControlType' /\ PcInv'
  BY <1>2 DEF UnguidedNext, UnguidedHead, CountUnstructuredOne, NoPairLeft, CheckUnguided
<1>3. ASSUME SyncNext PROVE ControlType' /\ PcInv'
  BY <1>3 DEF SyncNext, PrepareOutput, PrepareDone, SkipClosed, VisitOpen, VisitEmpty,
              CheckSync, PassDone, NextRound, AfterVisit, SyncType
<1>4. ASSUME AbortInToleranceMet \/ Report \/ Sigterm \/ Terminated \/ UNCHANGED vars
      PROVE  ControlType' /\ PcInv'
  <2>1. CASE AbortInToleranceMet
    BY <2>1 DEF AbortInToleranceMet
  <2>2. CASE Report
    BY <2>2 DEF Report, verdict_line, picVars
  <2>3. CASE Sigterm
    BY <2>3 DEF Sigterm, picVars
  <2>4. CASE Terminated \/ UNCHANGED vars
    BY <2>4 DEF Terminated, vars, picVars
  <2>5. QED
    BY <1>4, <2>1, <2>2, <2>3, <2>4
<1>5. QED
  BY <1>1, <1>2, <1>3, <1>4 DEF Next, Step, DenseNext

(* What the solver returns are models of the CNF.                          *)
LEMMA ModelsOfCNF ==
    /\ Models \subseteq cnf
    /\ \A o : ModelsWith(o) \subseteq cnf
    /\ \A on : ModelsWithout(on) \subseteq cnf
  BY DEF Models, ModelsWith, ModelsWithout

(* The assumption makes every model of a bucket one of its output.         *)
LEMMA ModelStep == ASSUME TypeInv, [Next]_vars PROVE ModelInv'
<1>1. UNCHANGED <<config, cnf>> /\ ModelInv /\ PcInv
  BY ConfigStep DEF TypeInv
<1> USE DEF ModelInv, PcInv, mode, InBucketMode
<1>2. ASSUME BucketNext PROVE ModelInv'
  <2>1. CASE FindOutput
    BY <1>1, <2>1, ModelsOfCNF DEF FindOutput
  <2>2. CASE FindPreimage
    BY <1>1, <2>2, ModelsOfCNF DEF FindPreimage, ModelsWith
  <2>3. CASE BucketHead \/ NoOutputLeft \/ BookPreimage \/ NoPreimageLeft \/ LeaveBucket
    BY <1>1, <2>3 DEF BucketHead, NoOutputLeft, BookPreimage, NoPreimageLeft, LeaveBucket
  <2>4. QED
    BY <1>2, <2>1, <2>2, <2>3 DEF BucketNext
<1>3. ASSUME UnguidedNext PROVE ModelInv'
  BY <1>1, <1>3 DEF UnguidedNext, UnguidedHead, CountUnstructuredOne, NoPairLeft, CheckUnguided
<1>4. ASSUME SyncNext PROVE ModelInv'
  BY <1>1, <1>4 DEF SyncNext, PrepareOutput, PrepareDone, SkipClosed, VisitOpen,
                    VisitEmpty, CheckSync, PassDone, NextRound
<1>5. ASSUME AbortInToleranceMet \/ Report \/ Sigterm \/ Terminated \/ UNCHANGED vars
      PROVE  ModelInv'
  BY <1>1, <1>5 DEF AbortInToleranceMet, Report, Sigterm, Terminated, Terminal, vars, picVars
<1>6. QED
  BY <1>2, <1>3, <1>4, <1>5 DEF Next, Step, DenseNext

(* The blocking clauses are cubes and the model array holds a model.       *)
LEMMA SolverStep == ASSUME TypeInv, [Next]_vars PROVE SolverType'
<1>1. UNCHANGED <<config, cnf>>
  BY ConfigStep
<1>2. \A m \in cnf : InputOf(m) \in Inputs /\ OutputOf(m) \in Outputs
  BY ModelType
<1>3. SolverType /\ ModelInv /\ PcInv
  BY DEF TypeInv, TypeOK
<1>4. ASSUME UNCHANGED <<blockedIn, blockedOut, model, assum>> PROVE SolverType'
  BY <1>1, <1>3, <1>4 DEF SolverType
<1>5. ASSUME BucketNext PROVE SolverType'
  <2>1. CASE BucketHead \/ NoOutputLeft \/ NoPreimageLeft
    BY <1>4, <2>1 DEF BucketHead, NoOutputLeft, NoPreimageLeft
  <2>2. CASE FindOutput
    BY <1>1, <1>2, <1>3, <2>2, ModelsOfCNF DEF FindOutput, SolverType
  <2>3. CASE BookPreimage
    BY <1>1, <1>2, <1>3, <2>3 DEF BookPreimage, ProhibitInput, ModelInv, PcInv, SolverType
  <2>4. CASE FindPreimage
    BY <1>1, <1>3, <2>4, ModelsOfCNF DEF FindPreimage, SolverType
  <2>5. CASE LeaveBucket
    BY <1>1, <1>2, <1>3, <2>5 DEF LeaveBucket, ProhibitOutput, ModelInv, SolverType
  <2>6. QED
    BY <1>5, <2>1, <2>2, <2>3, <2>4, <2>5 DEF BucketNext
<1>6. ASSUME UnguidedNext PROVE SolverType'
  <2>1. CASE UnguidedHead \/ NoPairLeft \/ CheckUnguided
    BY <1>4, <2>1 DEF UnguidedHead, NoPairLeft, CheckUnguided
  <2>2. CASE CountUnstructuredOne
    BY <1>1, <1>2, <1>3, <2>2, ModelsOfCNF DEF CountUnstructuredOne, ProhibitInput, SolverType
  <2>3. QED
    BY <1>6, <2>1, <2>2 DEF UnguidedNext
<1>7. ASSUME SyncNext PROVE SolverType'
  <2>1. CASE PrepareDone \/ SkipClosed \/ VisitEmpty \/ CheckSync \/ PassDone \/ NextRound
    BY <1>4, <2>1 DEF PrepareDone, SkipClosed, VisitEmpty, CheckSync, PassDone, NextRound
  <2>2. CASE PrepareOutput
    BY <1>1, <1>2, <1>3, <2>2, ModelsOfCNF DEF PrepareOutput, ProhibitInput, SolverType
  <2>3. CASE VisitOpen
    BY <1>1, <1>2, <1>3, <2>3, ModelsOfCNF DEF VisitOpen, ProhibitInput, SolverType
  <2>4. QED
    BY <1>7, <2>1, <2>2, <2>3 DEF SyncNext
<1>8. ASSUME AbortInToleranceMet \/ Report \/ Sigterm \/ Terminated \/ UNCHANGED vars
      PROVE  SolverType'
  BY <1>4, <1>8 DEF AbortInToleranceMet, Report, Sigterm, Terminated, vars, picVars
<1>9. QED
  BY <1>5, <1>6, <1>7, <1>8 DEF Next, Step, DenseNext

(* The histogram keeps its indices; sync gets a bucket with every label.   *)
LEMMA HistogramStep == ASSUME TypeInv, [Next]_vars PROVE HistogramType' /\ SyncType'
<1>1. UNCHANGED <<config, cnf>>
  BY ConfigStep
<1>2. HistogramType /\ SyncType /\ PcInv
  BY DEF TypeInv, TypeOK
<1>3. ASSUME UNCHANGED buckets, UNCHANGED syncVars PROVE HistogramType' /\ SyncType'
  BY <1>1, <1>2, <1>3 DEF HistogramType, SyncType, syncVars, mode
<1>4. ASSUME NEW k, mode # "sync", buckets' = Increment(buckets, k), UNCHANGED syncVars
      PROVE  HistogramType' /\ SyncType'
  BY <1>1, <1>2, <1>4, IncrementTable DEF HistogramType, SyncType, syncVars, mode
<1>5. ASSUME BucketNext, UNCHANGED syncVars PROVE HistogramType' /\ SyncType'
  <2>1. CASE BookPreimage
    BY <1>2, <1>4, <1>5, <2>1 DEF BookPreimage, PcInv, InBucketMode
  <2>2. CASE BucketHead \/ FindOutput \/ NoOutputLeft \/ FindPreimage \/ NoPreimageLeft \/ LeaveBucket
    BY <1>3, <1>5, <2>2 DEF BucketHead, FindOutput, NoOutputLeft, FindPreimage,
                            NoPreimageLeft, LeaveBucket
  <2>3. QED
    BY <1>5, <2>1, <2>2 DEF BucketNext
<1>6. ASSUME UnguidedNext, UNCHANGED syncVars PROVE HistogramType' /\ SyncType'
  <2>1. CASE CountUnstructuredOne
    BY <1>4, <1>6, <2>1 DEF CountUnstructuredOne
  <2>2. CASE UnguidedHead \/ NoPairLeft \/ CheckUnguided
    BY <1>3, <1>6, <2>2 DEF UnguidedHead, NoPairLeft, CheckUnguided
  <2>3. QED
    BY <1>6, <2>1, <2>2 DEF UnguidedNext
<1>7. ASSUME SyncNext PROVE HistogramType' /\ SyncType'
  <2> SUFFICES ASSUME mode = "sync" PROVE HistogramType' /\ SyncType'
    BY <1>2, <1>7 DEF SyncNext, PrepareOutput, PrepareDone, SkipClosed, VisitOpen,
                      VisitEmpty, CheckSync, PassDone, NextRound, PcInv
  <2>1. /\ buckets \in Seq(Buckets) /\ labels \in Seq(Labels)
        /\ Len(buckets) = Len(labels) /\ Len(labels) \in Nat
        /\ cursor \in 1 .. Len(labels) + 1 /\ one_open \in BOOLEAN
    BY <1>2 DEF HistogramType, SyncType
  <2>2. ASSUME /\ buckets' \in Seq(Buckets) /\ labels' \in Seq(Labels)
               /\ Len(buckets') = Len(labels')
               /\ cursor' \in 1 .. Len(labels') + 1 /\ one_open' \in BOOLEAN
        PROVE  HistogramType' /\ SyncType'
    BY <1>1, <2>2 DEF HistogramType, SyncType, mode
  <2>3. CASE PrepareOutput
    <3>1. PICK m \in cnf : labels' = Append(labels, [output |-> OutputValue(OutputOf(m)), cube |-> OutputOf(m)])
      BY <2>3, ModelsOfCNF DEF PrepareOutput
    <3>2. [output |-> OutputValue(OutputOf(m)), cube |-> OutputOf(m)] \in Labels
      BY <3>1, ModelType DEF Labels
    <3>3. labels' \in Seq(Labels) /\ Len(labels') = Len(labels) + 1
      BY <2>1, <3>1, <3>2
    <3>4. [size |-> 1, closed |-> FALSE] \in Buckets
      BY DEF Buckets
    <3>5. buckets' \in Seq(Buckets) /\ Len(buckets') = Len(buckets) + 1
      BY <2>1, <2>3, <3>4 DEF PrepareOutput
    <3>6. QED
      BY <2>1, <2>2, <2>3, <3>3, <3>5 DEF PrepareOutput
  <2>4. CASE VisitOpen
    <3>1. buckets' \in Seq(Buckets) /\ Len(buckets') = Len(buckets)
      BY <2>1, <2>4, IncrementSeq DEF VisitOpen
    <3>2. QED
      BY <2>1, <2>2, <2>4, <3>1 DEF VisitOpen
  <2>5. CASE VisitEmpty
    <3>1. buckets' \in Seq(Buckets) /\ Len(buckets') = Len(buckets)
      BY <2>1, <2>5, CloseSeq DEF VisitEmpty
    <3>2. QED
      BY <2>1, <2>2, <2>5, <3>1 DEF VisitEmpty, syncVars
  <2>6. CASE SkipClosed \/ CheckSync \/ PassDone \/ PrepareDone \/ NextRound
    <3>1. cursor' \in 1 .. Len(labels) + 1
      BY <1>2, <2>1, <2>6 DEF PcInv, SkipClosed, CheckSync, PassDone, PrepareDone, NextRound, syncVars
    <3>2. QED
      BY <2>1, <2>2, <2>6, <3>1 DEF SkipClosed, CheckSync, PassDone, PrepareDone, NextRound, syncVars
  <2>7. QED
    BY <1>7, <2>3, <2>4, <2>5, <2>6 DEF SyncNext
<1>8. ASSUME AbortInToleranceMet, UNCHANGED syncVars PROVE HistogramType' /\ SyncType'
  BY <1>3, <1>8 DEF AbortInToleranceMet
<1>9. ASSUME Report \/ Sigterm \/ Terminated \/ UNCHANGED vars
      PROVE  HistogramType' /\ SyncType'
  BY <1>3, <1>9 DEF Report, Sigterm, Terminated, vars, picVars
<1>10. QED
  BY <1>5, <1>6, <1>7, <1>8, <1>9 DEF Next, Step, DenseNext

(* The type invariant and what it rests on is inductive.                   *)
LEMMA TypeStep == TypeInv /\ [Next]_vars => TypeInv'
  BY ConfigStep, ControlStep, ModelStep, SolverStep, HistogramStep
     DEF TypeInv, TypeOK, ConfigInv

(* Type correctness: every variable of every run keeps its type.           *)
THEOREM TypeCorrect == Spec => []TypeOK
<1>1. TypeInv => TypeOK
  BY DEF TypeInv
<1>2. QED
  BY TypeInit, TypeStep, <1>1, PTL DEF Spec

-----------------------------------------------------------------------------
(* What the histogram counts. The invariant needs three facts besides: the *)
(* model about to be booked is not blocked; the labels of sync stand for   *)
(* different outputs, and cover the outputs of the inputs counted while    *)
(* preparing and those of all inputs afterwards; only the bucket modes     *)
(* block outputs.                                                          *)
FreshInv == pc = "book" => InputOf(model) \notin blockedIn

Labelled(m) == \E i \in DOMAIN labels : labels[i].cube = OutputOf(m)

LabelInv ==
    mode = "sync" =>
        /\ \A i, j \in DOMAIN labels : labels[i].cube = labels[j].cube => i = j
        /\ \A m \in cnf : InputOf(m) \in blockedIn => Labelled(m)
        /\ pc \in {"visit", "check", "round", "report"} => \A m \in cnf : Labelled(m)

BlockedOutInv == ~InBucketMode => blockedOut = {}

HistInv ==
    /\ IsFiniteSet(blockedIn)
    /\ FreshInv
    /\ LabelInv
    /\ BlockedOutInv
    /\ HistogramIsOfCounted

(* An input belongs to the pre-image of the one output it has.             *)
LEMMA InPreimage ==
    ASSUME ConfigInv, NEW m \in cnf
    PROVE  /\ \A o : InputOf(m) \in Preimage(o) <=> OutputOf(m) = o
           /\ \A k : InputOf(m) \in PreimageOfValue(k) <=> OutputValue(OutputOf(m)) = k
  BY Functional DEF Preimage, PreimageOfValue

(* Nothing is counted at the start.                                        *)
LEMMA HistInit == Init => HistInv
<1> SUFFICES ASSUME Init PROVE HistInv
  OBVIOUS
<1>1. blockedIn = {} /\ blockedOut = {} /\ pc \notin {"book", "visit", "check", "round", "report"}
  BY DEF Init, PICounterInit
<1>2. labels = <<>> /\ DOMAIN labels = {}
  BY DEF Init, SyncInit
<1>3. IsFiniteSet(blockedIn) /\ \A P : Cardinality(blockedIn \cap P) = 0
  BY <1>1, FS_EmptySet
<1>4. HistogramIsOfCounted
  <2>1. CASE mode = "sync"
    <3>1. buckets = <<>> /\ DOMAIN buckets = {}
      BY <2>1 DEF Init, PICounterInit
    <3>2. QED
      BY <3>1 DEF HistogramIsOfCounted
  <2>2. CASE mode # "sync"
    <3>1. buckets = EmptyTable
      BY <2>2 DEF Init, PICounterInit
    <3>2. \A k \in DOMAIN buckets : buckets[k].size = 0
      BY <3>1 DEF EmptyTable, EmptyBucket
    <3>3. QED
      BY <1>3, <3>2 DEF HistogramIsOfCounted
  <2>3. QED
    BY <2>1, <2>2
<1>5. QED
  BY <1>1, <1>2, <1>3, <1>4 DEF HistInv, FreshInv, LabelInv, BlockedOutInv

(* Booking model m, not blocked, into the table of a dense mode.           *)
LEMMA BookTable ==
    ASSUME TypeInv, HistogramIsOfCounted, IsFiniteSet(blockedIn), mode # "sync",
           UNCHANGED <<config, cnf>>,
           NEW m \in cnf, InputOf(m) \notin blockedIn, ProhibitInput(m),
           buckets' = Increment(buckets, OutputValue(OutputOf(m)))
    PROVE  IsFiniteSet(blockedIn') /\ HistogramIsOfCounted'
<1> DEFINE x == InputOf(m)
           k0 == OutputValue(OutputOf(m))
<1>1. blockedIn' = blockedIn \cup {x}
  BY DEF ProhibitInput
<1>2. IsFiniteSet(blockedIn')
  BY <1>1, OneMore
<1>3. PICK D : buckets \in [D -> Buckets]
  BY DEF TypeInv, TypeOK, HistogramType
<1>4. ASSUME NEW k \in D
      PROVE  buckets'[k].size = Cardinality(blockedIn' \cap PreimageOfBucket(k)')
  <2> DEFINE P == PreimageOfValue(k)
  <2>1. PreimageOfBucket(k) = P /\ PreimageOfBucket(k)' = P
    BY DEF PreimageOfBucket, PreimageOfValue, mode
  <2>2. buckets[k].size = Cardinality(blockedIn \cap P)
    BY <1>3, <2>1 DEF HistogramIsOfCounted
  <2>3. buckets'[k].size = buckets[k].size + (IF k = k0 THEN 1 ELSE 0)
    BY <1>3, IncrementTable DEF Buckets
  <2>4. x \in P <=> k = k0
    BY InPreimage DEF TypeInv
  <2> HIDE DEF P
  <2>5. /\ x \in P => Cardinality((blockedIn \cup {x}) \cap P) = Cardinality(blockedIn \cap P) + 1
        /\ x \notin P => Cardinality((blockedIn \cup {x}) \cap P) = Cardinality(blockedIn \cap P)
    <3>1. CASE x \in P
      BY <3>1, OneMoreInside, Zenon
    <3>2. CASE x \notin P
      BY <3>2, OneMoreOutside, Zenon
    <3>3. QED
      BY <3>1, <3>2, Zenon
  <2> HIDE DEF x, k0
  <2>6. buckets'[k].size = Cardinality((blockedIn \cup {x}) \cap P)
    <3>1. buckets[k].size \in Nat
      BY <1>3 DEF Buckets
    <3>2. CASE k = k0
      BY <2>2, <2>3, <2>4, <2>5, <3>1, <3>2
    <3>3. CASE k # k0
      BY <2>2, <2>3, <2>4, <2>5, <3>1, <3>3
    <3>4. QED
      BY <3>2, <3>3
  <2>7. QED
    BY <1>1, <2>1, <2>6, Zenon
<1>5. DOMAIN buckets' = D
  BY <1>3, IncrementTable
<1>6. QED
  BY <1>2, <1>4, <1>5 DEF HistogramIsOfCounted

(* Counting a model of the label at index i in sync. *)
LEMMA BookVector ==
    ASSUME TypeInv, HistInv, mode = "sync", UNCHANGED <<config, cnf, labels>>,
           NEW m \in cnf, InputOf(m) \notin blockedIn, ProhibitInput(m),
           NEW i \in DOMAIN labels, labels[i].cube = OutputOf(m),
           buckets' = Increment(buckets, i)
    PROVE  IsFiniteSet(blockedIn') /\ HistogramIsOfCounted'
<1> DEFINE x == InputOf(m)
<1>1. blockedIn' = blockedIn \cup {x} /\ IsFiniteSet(blockedIn)
  BY DEF ProhibitInput, HistInv
<1>2. IsFiniteSet(blockedIn')
  BY <1>1, OneMore
<1>3. /\ buckets \in Seq(Buckets) /\ DOMAIN buckets = DOMAIN labels
      /\ buckets' \in Seq(Buckets) /\ DOMAIN buckets' = DOMAIN labels
  BY IncrementSeq DEF TypeInv, TypeOK, HistogramType, SyncType
<1>4. ASSUME NEW k \in DOMAIN labels
      PROVE  buckets'[k].size = Cardinality(blockedIn' \cap PreimageOfBucket(k)')
  <2> DEFINE P == Preimage(labels[k].cube)
  <2>1. PreimageOfBucket(k) = P /\ PreimageOfBucket(k)' = P
    BY DEF PreimageOfBucket, Preimage, mode
  <2>2. buckets[k].size = Cardinality(blockedIn \cap P)
    BY <1>3, <2>1 DEF HistogramIsOfCounted, HistInv
  <2>3. buckets'[k].size = buckets[k].size + (IF k = i THEN 1 ELSE 0)
    <3>1. buckets'[k].size = IF k = i THEN buckets[k].size + 1 ELSE buckets[k].size
      BY <1>3, IncrementSeq
    <3>2. buckets[k] \in Buckets
      BY <1>3
    <3>3. QED
      BY <3>1, <3>2 DEF Buckets
  <2>4. x \in P <=> k = i
    BY InPreimage DEF TypeInv, HistInv, LabelInv
  <2> HIDE DEF P
  <2>5. Cardinality((blockedIn \cup {x}) \cap P) =
           Cardinality(blockedIn \cap P) + (IF x \in P THEN 1 ELSE 0)
    BY <1>1, OneMore
  <2> HIDE DEF x
  <2>6. QED
    BY <1>1, <2>1, <2>2, <2>3, <2>4, <2>5
<1>5. QED
  BY <1>2, <1>3, <1>4 DEF HistogramIsOfCounted

(* A step that leaves histogram and blocked inputs alone. *)
LEMMA HistFrame ==
    ASSUME HistogramIsOfCounted, IsFiniteSet(blockedIn),
           UNCHANGED <<config, cnf, blockedIn, buckets, labels>>
    PROVE  IsFiniteSet(blockedIn') /\ HistogramIsOfCounted'
  BY DEF HistogramIsOfCounted, PreimageOfBucket, PreimageOfValue, Preimage, mode

(* BookPreimage books the model it holds; no other step of the mode counts.*)
LEMMA BucketHistStep == ASSUME TypeInv, HistInv, BucketNext, UNCHANGED syncVars PROVE HistInv'
<1>1. UNCHANGED <<config, cnf, labels>>
  BY ConfigStep DEF Next, Step, DenseNext, syncVars
<1>2. InBucketMode /\ mode # "sync" /\ InBucketMode'
  BY <1>1 DEF TypeInv, PcInv, BucketNext, BucketHead, FindOutput, NoOutputLeft, BookPreimage,
              FindPreimage, NoPreimageLeft, LeaveBucket, InBucketMode, mode
<1>3. LabelInv' /\ BlockedOutInv'
  BY <1>1, <1>2 DEF LabelInv, BlockedOutInv, mode
<1>4. IsFiniteSet(blockedIn) /\ HistogramIsOfCounted /\ FreshInv
  BY DEF HistInv
<1>5. CASE BookPreimage
  <2>1. model \in cnf /\ InputOf(model) \notin blockedIn /\ assum = OutputOf(model)
    BY <1>2, <1>4, <1>5 DEF BookPreimage, TypeInv, ModelInv, FreshInv
  <2>2. IsFiniteSet(blockedIn') /\ HistogramIsOfCounted'
    BY <1>1, <1>2, <1>4, <1>5, <2>1, BookTable DEF BookPreimage
  <2>3. FreshInv'
    BY <1>5 DEF BookPreimage, FreshInv
  <2>4. QED
    BY <1>3, <2>2, <2>3 DEF HistInv
<1>6. CASE ~BookPreimage
  <2>1. UNCHANGED <<blockedIn, buckets>>
    BY <1>6 DEF BucketNext, BucketHead, FindOutput, NoOutputLeft, FindPreimage,
                NoPreimageLeft, LeaveBucket
  <2>2. FreshInv'
    BY <1>6, <2>1 DEF BucketNext, BucketHead, FindOutput, NoOutputLeft, FindPreimage,
                      NoPreimageLeft, LeaveBucket, FreshInv, ModelsWith, Models
  <2>3. QED
    BY <1>1, <1>3, <1>4, <2>1, <2>2, HistFrame DEF HistInv
<1>7. QED
  BY <1>5, <1>6

(* CountUnstructuredOne books what it finds; no other step counts.         *)
LEMMA UnguidedHistStep == ASSUME TypeInv, HistInv, UnguidedNext, UNCHANGED syncVars PROVE HistInv'
<1>1. UNCHANGED <<config, cnf, labels>>
  BY ConfigStep DEF Next, Step, DenseNext, syncVars
<1>2. mode = "unguided" /\ blockedOut' = blockedOut /\ pc' # "book"
  BY DEF UnguidedNext, UnguidedHead, CountUnstructuredOne, NoPairLeft, CheckUnguided
<1>3. LabelInv' /\ BlockedOutInv' /\ FreshInv'
  BY <1>1, <1>2 DEF HistInv, LabelInv, BlockedOutInv, FreshInv, mode, InBucketMode
<1>4. IsFiniteSet(blockedIn) /\ HistogramIsOfCounted
  BY DEF HistInv
<1>5. CASE CountUnstructuredOne
  <2>1. PICK m \in cnf : /\ InputOf(m) \notin blockedIn
                         /\ ProhibitInput(m)
                         /\ buckets' = Increment(buckets, OutputValue(OutputOf(m)))
    BY <1>5 DEF CountUnstructuredOne, Models
  <2>2. IsFiniteSet(blockedIn') /\ HistogramIsOfCounted'
    BY <1>1, <1>2, <1>4, <2>1, BookTable
  <2>3. QED
    BY <1>3, <2>2 DEF HistInv
<1>6. CASE ~CountUnstructuredOne
  <2>1. UNCHANGED <<blockedIn, buckets>>
    BY <1>6 DEF UnguidedNext, UnguidedHead, NoPairLeft, CheckUnguided
  <2>2. QED
    BY <1>1, <1>3, <1>4, <2>1, HistFrame DEF HistInv
<1>7. QED
  BY <1>5, <1>6

(* prepare_sync_counting: a new output, its first input, and its bucket.   *)
LEMMA PrepareHistStep == ASSUME TypeInv, HistInv, PrepareOutput PROVE HistInv'
<1>1. UNCHANGED <<config, cnf, blockedOut, pc>> /\ pc = "prepare" /\ mode = "sync"
  BY ConfigStep DEF Next, Step, SyncNext, PrepareOutput, TypeInv, PcInv
<1>0. PICK n \in Nat : n = Len(labels)
  BY DEF TypeInv, TypeOK, SyncType
<1>2. PICK m \in cnf :
         /\ InputOf(m) \notin blockedIn
         /\ \A j \in DOMAIN labels : OutputOf(m) # labels[j].cube
         /\ labels' = Append(labels, [output |-> OutputValue(OutputOf(m)), cube |-> OutputOf(m)])
         /\ ProhibitInput(m)
  BY DEF PrepareOutput, ModelsWithout, Models
<1> DEFINE x == InputOf(m)
<1>3. /\ labels \in Seq(Labels) /\ buckets \in Seq(Buckets)
      /\ n \in Nat /\ Len(buckets) = n /\ DOMAIN labels = 1 .. n /\ DOMAIN buckets = 1 .. n
  BY <1>0, <1>1 DEF TypeInv, TypeOK, HistogramType, SyncType
<1>4. /\ DOMAIN labels' = 1 .. n + 1
      /\ \A k \in 1 .. n : labels'[k] = labels[k]
      /\ labels'[n + 1].cube = OutputOf(m)
  BY <1>2, <1>3
<1>5. /\ DOMAIN buckets' = 1 .. n + 1
      /\ \A k \in 1 .. n : buckets'[k] = buckets[k]
      /\ buckets'[n + 1].size = 1
  BY <1>3 DEF PrepareOutput
<1>6. blockedIn' = blockedIn \cup {x} /\ IsFiniteSet(blockedIn) /\ x \notin blockedIn
  BY <1>2 DEF ProhibitInput, HistInv
<1>7. \A m2 \in cnf : InputOf(m2) \in blockedIn => Labelled(m2)
  BY <1>1 DEF HistInv, LabelInv
<1>8. \A o : x \in Preimage(o) <=> OutputOf(m) = o
  BY InPreimage DEF TypeInv
<1>9. \A P : Cardinality((blockedIn \cup {x}) \cap P) =
                Cardinality(blockedIn \cap P) + (IF x \in P THEN 1 ELSE 0)
  BY <1>6, OneMore
<1> HIDE DEF x
<1>10. HistogramIsOfCounted'
  <2>1. \A k : PreimageOfBucket(k)' = Preimage(labels'[k].cube)
    BY <1>1 DEF PreimageOfBucket, Preimage, mode
  <2>2. \A k : PreimageOfBucket(k) = Preimage(labels[k].cube)
    BY <1>1 DEF PreimageOfBucket
  <2>3. ASSUME NEW k \in 1 .. n
        PROVE  buckets'[k].size = Cardinality(blockedIn' \cap PreimageOfBucket(k)')
    <3> DEFINE P == Preimage(labels[k].cube)
    <3>1. PreimageOfBucket(k)' = P /\ x \notin P
      BY <1>2, <1>3, <1>4, <1>8, <2>1
    <3>2. buckets[k].size = Cardinality(blockedIn \cap P)
      BY <1>3, <2>2 DEF HistInv, HistogramIsOfCounted
    <3>3. buckets[k] \in Buckets /\ buckets'[k] = buckets[k]
      BY <1>3, <1>5
    <3> HIDE DEF P
    <3>4. Cardinality((blockedIn \cup {x}) \cap P) = Cardinality(blockedIn \cap P) + 0
      BY <1>9, <3>1
    <3>5. QED
      BY <1>6, <3>1, <3>2, <3>3, <3>4 DEF Buckets
  <2>4. buckets'[n + 1].size = Cardinality(blockedIn' \cap PreimageOfBucket(n + 1)')
    <3> DEFINE P == Preimage(OutputOf(m))
    <3>1. PreimageOfBucket(n + 1)' = P /\ x \in P
      BY <1>4, <1>8, <2>1
    <3>2. blockedIn \cap P = {}
      BY <1>2, <1>7 DEF Preimage, Labelled
    <3>3. Cardinality(blockedIn \cap P) = 0
      BY <3>2, FS_EmptySet
    <3> HIDE DEF P
    <3>4. Cardinality((blockedIn \cup {x}) \cap P) = 0 + 1
      BY <1>9, <3>1, <3>3
    <3>5. Cardinality(blockedIn' \cap PreimageOfBucket(n + 1)') = 0 + 1
      BY <1>6, <3>1, <3>4, Zenon
    <3>6. 0 + 1 = 1
      OBVIOUS
    <3>7. QED
      BY <1>5, <3>5, <3>6, Zenon
  <2>5. ASSUME NEW k \in 1 .. n + 1
        PROVE  buckets'[k].size = Cardinality(blockedIn' \cap PreimageOfBucket(k)')
    <3>1. k \in 1 .. n \/ k = n + 1
      BY <1>3
    <3>2. QED
      BY <2>3, <2>4, <3>1, Zenon
  <2>6. QED
    BY <1>5, <2>5, Zenon DEF HistogramIsOfCounted
<1>11. LabelInv'
  <2>1. ASSUME NEW i \in 1 .. n + 1, NEW j \in 1 .. n + 1, labels'[i].cube = labels'[j].cube
        PROVE  i = j
    <3>1. (i \in 1 .. n \/ i = n + 1) /\ (j \in 1 .. n \/ j = n + 1)
      BY <1>3
    <3>2. CASE i \in 1 .. n /\ j \in 1 .. n
      <4>1. labels[i].cube = labels[j].cube
        BY <1>4, <2>1, <3>2
      <4>2. QED
        BY <1>1, <1>3, <3>2, <4>1 DEF HistInv, LabelInv
    <3>3. CASE i \in 1 .. n /\ j = n + 1
      <4>1. labels[i].cube = OutputOf(m)
        BY <1>4, <2>1, <3>3
      <4>2. QED
        BY <1>2, <1>3, <3>3, <4>1
    <3>4. CASE i = n + 1 /\ j \in 1 .. n
      <4>1. labels[j].cube = OutputOf(m)
        BY <1>4, <2>1, <3>4
      <4>2. QED
        BY <1>2, <1>3, <3>4, <4>1
    <3>5. QED
      BY <3>1, <3>2, <3>3, <3>4
  <2>2. ASSUME NEW m2 \in cnf, InputOf(m2) \in blockedIn' PROVE Labelled(m2)'
    <3>1. CASE InputOf(m2) \in blockedIn
      <4>1. PICK k \in 1 .. n : labels[k].cube = OutputOf(m2)
        BY <1>3, <1>7, <3>1 DEF Labelled
      <4>2. k \in 1 .. n + 1 /\ labels'[k].cube = OutputOf(m2)
        BY <1>3, <1>4, <4>1
      <4>3. QED
        BY <1>4, <4>2 DEF Labelled
    <3>2. CASE InputOf(m2) = InputOf(m)
      <4>1. OutputOf(m2) = OutputOf(m)
        BY <3>2, Functional DEF TypeInv
      <4>2. n + 1 \in 1 .. n + 1
        BY <1>3
      <4>3. QED
        BY <1>4, <4>1, <4>2 DEF Labelled
    <3>3. QED
      BY <1>6, <2>2, <3>1, <3>2 DEF x
  <2>3. QED
    BY <1>1, <1>4, <2>1, <2>2 DEF LabelInv, mode
<1>12. BlockedOutInv' /\ FreshInv'
  BY <1>1 DEF HistInv, BlockedOutInv, FreshInv, InBucketMode, mode
<1>13. IsFiniteSet(blockedIn')
  BY <1>6, OneMore
<1>14. QED
  BY <1>10, <1>11, <1>12, <1>13 DEF HistInv

(* count_sync books what it finds in the bucket of the cursor.             *)
LEMMA VisitHistStep == ASSUME TypeInv, HistInv, VisitOpen PROVE HistInv'
<1>1. UNCHANGED <<config, cnf, blockedOut, labels>> /\ pc = "visit" /\ mode = "sync"
  BY ConfigStep DEF Next, Step, SyncNext, VisitOpen, TypeInv, PcInv
<1>2. cursor \in DOMAIN labels
  BY DEF VisitOpen, TypeInv, TypeOK, SyncType
<1>3. PICK m \in cnf :
         /\ InputOf(m) \notin blockedIn
         /\ \A j \in DOMAIN labels \ {cursor} : OutputOf(m) # labels[j].cube
         /\ ProhibitInput(m)
  BY DEF VisitOpen, ModelsWithout, Models
<1>4. \A m2 \in cnf : Labelled(m2)
  BY <1>1 DEF HistInv, LabelInv
<1>5. labels[cursor].cube = OutputOf(m)
  BY <1>3, <1>4 DEF Labelled
<1>6. IsFiniteSet(blockedIn') /\ HistogramIsOfCounted'
  BY <1>1, <1>2, <1>3, <1>5, BookVector DEF VisitOpen
<1>7. LabelInv'
  BY <1>1, <1>4 DEF HistInv, LabelInv, Labelled, mode
<1>8. BlockedOutInv' /\ FreshInv'
  BY <1>1 DEF VisitOpen, AfterVisit, HistInv, BlockedOutInv, FreshInv, InBucketMode, mode
<1>9. QED
  BY <1>6, <1>7, <1>8 DEF HistInv

(* The steps of sync: PrepareDone has labelled all, VisitEmpty only closes.*)
LEMMA SyncHistStep == ASSUME TypeInv, HistInv, SyncNext PROVE HistInv'
<1>1. UNCHANGED <<config, cnf>>
  BY ConfigStep DEF Next, Step
<1>2. mode = "sync"
  BY DEF SyncNext, PrepareOutput, PrepareDone, SkipClosed, VisitOpen, VisitEmpty,
         CheckSync, PassDone, NextRound, TypeInv, PcInv
<1>3. IsFiniteSet(blockedIn) /\ HistogramIsOfCounted /\ LabelInv /\ BlockedOutInv
  BY DEF HistInv
<1>4. CASE PrepareDone
  <2>1. \A m \in cnf : InputOf(m) \notin blockedIn => Labelled(m)
    BY <1>2, <1>3, <1>4 DEF PrepareDone, ModelsWithout, Models, BlockedOutInv, InBucketMode, Labelled
  <2>2. LabelInv'
    BY <1>1, <1>3, <1>4, <2>1 DEF PrepareDone, LabelInv, Labelled, mode, syncVars
  <2>3. BlockedOutInv' /\ FreshInv'
    BY <1>1, <1>3, <1>4 DEF PrepareDone, BlockedOutInv, FreshInv, InBucketMode, mode
  <2>4. QED
    BY <1>1, <1>3, <1>4, <2>2, <2>3, HistFrame DEF PrepareDone, HistInv, syncVars
<1>5. CASE VisitEmpty
  <2>1. /\ DOMAIN buckets' = DOMAIN buckets
        /\ \A k \in DOMAIN buckets : buckets'[k].size = buckets[k].size
    BY <1>2, <1>5, CloseSeq DEF VisitEmpty, TypeInv, TypeOK, HistogramType
  <2>2. UNCHANGED <<blockedIn, blockedOut, labels>>
    BY <1>5 DEF VisitEmpty, syncVars
  <2>3. HistogramIsOfCounted'
    BY <1>1, <1>3, <2>1, <2>2 DEF HistogramIsOfCounted, PreimageOfBucket, PreimageOfValue, Preimage, mode
  <2>4. LabelInv' /\ BlockedOutInv' /\ FreshInv'
    BY <1>1, <1>2, <1>3, <1>5, <2>2
       DEF VisitEmpty, AfterVisit, LabelInv, Labelled, BlockedOutInv, FreshInv, InBucketMode, mode
  <2>5. QED
    BY <1>3, <2>2, <2>3, <2>4 DEF HistInv
<1>6. CASE SkipClosed \/ CheckSync \/ PassDone \/ NextRound
  <2>1. /\ UNCHANGED <<blockedIn, blockedOut, buckets, labels>>
        /\ pc \in {"visit", "check", "round"} /\ pc' # "book"
    BY <1>6 DEF SkipClosed, CheckSync, PassDone, NextRound, syncVars
  <2>2. LabelInv' /\ BlockedOutInv' /\ FreshInv'
    BY <1>1, <1>3, <2>1 DEF LabelInv, Labelled, BlockedOutInv, FreshInv, InBucketMode, mode
  <2>3. QED
    BY <1>1, <1>3, <2>1, <2>2, HistFrame DEF HistInv
<1>7. QED
  BY <1>4, <1>5, <1>6, PrepareHistStep, VisitHistStep DEF SyncNext

(* The counting invariant is inductive.                                    *)
LEMMA HistStep == ASSUME TypeInv, HistInv, [Next]_vars PROVE HistInv'
<1>1. ASSUME AbortInToleranceMet, UNCHANGED syncVars PROVE HistInv'
  BY <1>1, HistFrame DEF AbortInToleranceMet, HistInv, LabelInv, Labelled, BlockedOutInv,
     FreshInv, InBucketMode, mode, syncVars
<1>2. ASSUME Report \/ Sigterm \/ Terminated \/ UNCHANGED vars PROVE HistInv'
  <2>1. /\ UNCHANGED <<config, cnf, blockedIn, blockedOut, buckets, labels, model>>
        /\ pc' = pc \/ pc' \in {"done", "sigfpe", "killed"}
    BY <1>2 DEF Report, Sigterm, Terminated, vars, picVars, syncVars
  <2>2. FreshInv' /\ BlockedOutInv' /\ LabelInv'
    BY <2>1 DEF HistInv, FreshInv, BlockedOutInv, LabelInv, Labelled, InBucketMode, mode
  <2>3. QED
    BY <2>1, <2>2, HistFrame DEF HistInv
<1>3. QED
  BY <1>1, <1>2, BucketHistStep, UnguidedHistStep, SyncHistStep DEF Next, Step, DenseNext

(* In every mode, at any moment, each bucket holds the number of inputs    *)
(* that were blocked and belong to its output.                             *)
THEOREM HistogramCorrect == Spec => []HistogramIsOfCounted
<1>1. Init => TypeInv /\ HistInv
  BY TypeInit, HistInit
<1>2. TypeInv /\ HistInv /\ [Next]_vars => TypeInv' /\ HistInv'
  BY TypeStep, HistStep
<1>3. HistInv => HistogramIsOfCounted
  BY DEF HistInv
<1>4. QED
  BY <1>1, <1>2, <1>3, PTL DEF Spec

-----------------------------------------------------------------------------
BlockedComplete == \A output \in blockedOut : Preimage(output) \subseteq blockedIn

(* A request to stop may cut a bucket short, and its output is blocked all *)
(* the same; bucket mode then asks no further model, so that it never      *)
(* solves with an incomplete output blocked.                               *)
BucketInv ==
    InBucketMode =>
        /\ ~terminate \/ (mode = "bucket" /\ pc \in {"solve", "book", "next", "check"})
               => BlockedComplete
        /\ pc \in {"book", "next", "check"} => assum \notin blockedOut
        /\ pc = "check" /\ ~terminate => Preimage(assum) \subseteq blockedIn
        /\ pc \in {"head", "solve"} /\ ~terminate /\ assum # NoOutput
               => Preimage(assum) \subseteq blockedIn
        /\ pc = "head" => b

(* one_open is false only if the pass has met closed buckets alone.        *)
PassInv ==
    mode = "sync" =>
        /\ ClosedIsComplete
        /\ pc = "prepare" => cursor = 1
        /\ pc = "visit" /\ ~one_open =>
               \A i \in DOMAIN labels : i < cursor => buckets[i].closed
        /\ pc = "check" /\ ~one_open =>
               \A i \in DOMAIN labels : i <= cursor => buckets[i].closed
        /\ pc = "round" /\ ~b /\ ~terminate /\ config.tolerance = Off =>
               \A i \in DOMAIN labels : buckets[i].closed

ExhaustInv ==
    /\ pc = "report" /\ ~b /\ config.tolerance = Off /\ (mode = "bucket" \/ ~terminate)
           => AllCounted
    /\ pc = "report" /\ config.tolerance = Off /\ ~terminate => ~b
    /\ pc \in {"done", "sigfpe"} /\ config.tolerance = Off /\ ~terminate => AllCounted
    /\ ExhaustiveIsTrue

CompleteInv == BucketInv /\ PassInv /\ ExhaustInv

-----------------------------------------------------------------------------
(* Every step keeps the program, forgets no counted input and no request   *)
(* to stop.                                                                *)
LEMMA Monotone ==
    ASSUME TypeInv, [Next]_vars
    PROVE  /\ UNCHANGED <<config, cnf>>
           /\ blockedIn \subseteq blockedIn'
           /\ terminate => terminate'
<1>1. UNCHANGED <<config, cnf>>
  BY ConfigStep
<1> USE DEF ProhibitInput
<1>2. ASSUME BucketNext PROVE blockedIn \subseteq blockedIn' /\ terminate' = terminate
  BY <1>2 DEF BucketNext, BucketHead, FindOutput, NoOutputLeft, BookPreimage,
              FindPreimage, NoPreimageLeft, LeaveBucket
<1>3. ASSUME UnguidedNext PROVE blockedIn \subseteq blockedIn' /\ terminate' = terminate
  BY <1>3 DEF UnguidedNext, UnguidedHead, CountUnstructuredOne, NoPairLeft, CheckUnguided
<1>4. ASSUME SyncNext PROVE blockedIn \subseteq blockedIn' /\ terminate' = terminate
  BY <1>4 DEF SyncNext, PrepareOutput, PrepareDone, SkipClosed, VisitOpen, VisitEmpty,
              CheckSync, PassDone, NextRound
<1>5. ASSUME AbortInToleranceMet \/ Report \/ Sigterm \/ Terminated \/ UNCHANGED vars
      PROVE  blockedIn \subseteq blockedIn' /\ (terminate => terminate')
  BY <1>5 DEF AbortInToleranceMet, Report, Sigterm, Terminated, vars, picVars
<1>6. QED
  BY <1>1, <1>2, <1>3, <1>4, <1>5 DEF Next, Step, DenseNext

(* What is counted stays counted.                                          *)
LEMMA StaysCounted ==
    ASSUME TypeInv, [Next]_vars
    PROVE  /\ \A o : Preimage(o)' = Preimage(o)
           /\ \A o : Preimage(o) \subseteq blockedIn => Preimage(o)' \subseteq blockedIn'
           /\ AllCounted => AllCounted'
<1>1. \A o : Preimage(o)' = Preimage(o)
  BY Monotone DEF Preimage
<1>2. ProgramInputs' = ProgramInputs
  BY Monotone DEF ProgramInputs
<1>3. QED
  BY <1>1, <1>2, Monotone DEF AllCounted

(* When the solver has no model left and no output is blocked before its   *)
(* inputs are counted, all inputs are counted.                             *)
LEMMA NoModelLeft == ASSUME Models = {}, BlockedComplete PROVE AllCounted
  BY DEF Models, BlockedComplete, AllCounted, ProgramInputs, Preimage

(* In the bucket modes.                                                    *)
LEMMA BucketInvStep == ASSUME TypeInv, BucketInv, [Next]_vars PROVE BucketInv'
<1> SUFFICES ASSUME InBucketMode PROVE BucketInv'
  BY ConfigStep DEF BucketInv, InBucketMode, mode
<1>1. /\ UNCHANGED <<config, cnf, mode>>
      /\ InBucketMode' /\ mode # "sync" /\ mode # "unguided"
      /\ terminate => terminate'
  BY Monotone DEF InBucketMode, mode
<1>2. BlockedComplete /\ UNCHANGED blockedOut => BlockedComplete'
  BY StaysCounted DEF BlockedComplete
<1>3. ~terminate \/ (mode = "bucket" /\ pc \in {"solve", "book", "next", "check"})
          => BlockedComplete
  BY DEF BucketInv
<1>4. CASE BucketHead
  BY <1>1, <1>2, <1>4, StaysCounted DEF BucketInv, BucketHead
<1>5. CASE FindOutput
  <2>1. pc' \in {"book", "uncaught"} /\ assum' \notin blockedOut' /\ blockedOut' = blockedOut
    BY <1>5 DEF FindOutput, Models
  <2>2. QED
    BY <1>1, <1>2, <1>3, <1>5, <2>1 DEF BucketInv, FindOutput
<1>6. CASE NoOutputLeft
  BY <1>1, <1>2, <1>3, <1>6 DEF BucketInv, NoOutputLeft
<1>7. CASE BookPreimage
  BY <1>1, <1>2, <1>3, <1>7 DEF BucketInv, BookPreimage
<1>8. CASE FindPreimage
  BY <1>1, <1>2, <1>3, <1>8 DEF BucketInv, FindPreimage
<1>9. CASE NoPreimageLeft
  <2>1. Preimage(assum) \subseteq blockedIn
    BY <1>9 DEF NoPreimageLeft, ModelsWith, Models, BucketInv, Preimage
  <2>2. Preimage(assum)' \subseteq blockedIn'
    BY <1>1, <1>9, <2>1 DEF NoPreimageLeft, Preimage
  <2>3. QED
    BY <1>1, <1>2, <1>3, <1>9, <2>2 DEF BucketInv, NoPreimageLeft
<1>10. CASE LeaveBucket
  <2>1. OutputOf(model) = assum
    BY <1>10 DEF LeaveBucket, TypeInv, ModelInv
  <2>2. ~terminate => Preimage(assum) \subseteq blockedIn /\ BlockedComplete
    BY <1>3, <1>10 DEF LeaveBucket, BucketInv
  <2>3. blockedOut' \subseteq blockedOut \cup {assum}
    BY <1>10, <2>1 DEF LeaveBucket, ProhibitOutput
  <2>4. UNCHANGED <<blockedIn, assum, terminate>>
    BY <1>10 DEF LeaveBucket
  <2>5. ~terminate' => BlockedComplete'
    BY <2>2, <2>3, <2>4, StaysCounted DEF BlockedComplete
  <2>6. Preimage(assum)' = Preimage(assum)
    BY <1>1, <2>4 DEF Preimage
  <2>7. pc' \in {"head", "report"} /\ (pc' = "head" => b')
    BY <1>10 DEF LeaveBucket
  <2>8. QED
    BY <1>1, <2>2, <2>4, <2>5, <2>6, <2>7 DEF BucketInv
<1>11. CASE AbortInToleranceMet \/ Report \/ Sigterm \/ Terminated \/ UNCHANGED vars
  <2>1. /\ UNCHANGED <<blockedIn, blockedOut, assum, b>>
        /\ pc' = pc \/ pc' \in Terminal
    BY <1>11 DEF AbortInToleranceMet, Report, Sigterm, Terminated, Terminal, vars, picVars
  <2>2. Preimage(assum)' = Preimage(assum)
    BY <1>1, <2>1 DEF Preimage
  <2>3. QED
    BY <1>1, <1>2, <1>3, <2>1, <2>2 DEF BucketInv, Terminal
<1>12. ~UnguidedNext /\ ~SyncNext
  BY <1>1 DEF UnguidedNext, UnguidedHead, CountUnstructuredOne, NoPairLeft, CheckUnguided,
              SyncNext, PrepareOutput, PrepareDone, SkipClosed, VisitOpen, VisitEmpty,
              CheckSync, PassDone, NextRound, TypeInv, PcInv
<1>13. QED
  BY <1>4, <1>5, <1>6, <1>7, <1>8, <1>9, <1>10, <1>11, <1>12
     DEF Next, Step, DenseNext, BucketNext

(* A new output gets an open bucket; the buckets before it stay.           *)
LEMMA PreparePassStep ==
    ASSUME TypeInv, PassInv, mode = "sync", PrepareOutput, [Next]_vars
    PROVE  PassInv'
<1>1. UNCHANGED <<config, cnf, cursor, pc>> /\ pc = "prepare" /\ mode' = "sync"
  BY Monotone DEF PrepareOutput, mode
<1>2. PICK n \in Nat : n = Len(labels)
  BY DEF TypeInv, TypeOK, SyncType
<1>3. PICK l : labels' = Append(labels, l)
  BY DEF PrepareOutput
<1>4. buckets' = Append(buckets, [size |-> 1, closed |-> FALSE])
  BY DEF PrepareOutput
<1>5. /\ labels \in Seq(Labels) /\ buckets \in Seq(Buckets)
      /\ Len(buckets) = n /\ DOMAIN labels = 1 .. n /\ DOMAIN buckets = 1 .. n
  BY <1>2 DEF TypeInv, TypeOK, HistogramType, SyncType
<1>6. /\ DOMAIN buckets' = 1 .. n + 1
      /\ \A i \in 1 .. n : buckets'[i] = buckets[i] /\ labels'[i] = labels[i]
      /\ buckets'[n + 1].closed = FALSE
  BY <1>2, <1>3, <1>4, <1>5
<1>7. ASSUME NEW i \in 1 .. n + 1, buckets'[i].closed
      PROVE  Preimage(labels[i].cube)' \subseteq blockedIn'
  <2>1. i \in 1 .. n
    BY <1>2, <1>6, <1>7
  <2>2. Preimage(labels[i].cube) \subseteq blockedIn
    BY <1>5, <1>6, <1>7, <2>1 DEF PassInv, ClosedIsComplete
  <2>3. Preimage(labels[i].cube)' = Preimage(labels[i].cube)
    BY <1>1, <1>6, <2>1 DEF Preimage
  <2>4. QED
    BY <2>2, <2>3, Monotone
<1>8. ClosedIsComplete'
  BY <1>6, <1>7, Zenon DEF ClosedIsComplete
<1>9. QED
  BY <1>1, <1>8 DEF PassInv

(* count_sync's loop: a bucket is closed when its label has no model left. *)
LEMMA VisitPassStep ==
    ASSUME TypeInv, HistInv, PassInv, mode = "sync", VisitOpen \/ VisitEmpty, [Next]_vars
    PROVE  PassInv'
<1>1. /\ UNCHANGED <<config, cnf, labels, cursor, terminate>> /\ mode' = "sync"
      /\ pc = "visit" /\ cursor \in DOMAIN labels
  BY Monotone DEF VisitOpen, VisitEmpty, syncVars, mode, TypeInv, TypeOK, SyncType
<1>2. /\ buckets \in Seq(Buckets) /\ DOMAIN buckets = DOMAIN labels
      /\ DOMAIN labels = 1 .. Len(labels) /\ Len(labels) \in Nat
  BY DEF TypeInv, TypeOK, HistogramType, SyncType
<1>3. \A i \in DOMAIN labels : Preimage(labels[i].cube) \subseteq blockedIn
          => Preimage(labels[i].cube)' \subseteq blockedIn'
  BY <1>1, Monotone DEF Preimage
<1>4. \/ pc' = "round" /\ terminate'
      \/ pc' = "check"
  <2>1. AfterVisit
    BY Zenon DEF VisitOpen, VisitEmpty
  <2>2. QED
    BY <2>1, Monotone DEF AfterVisit
<1>5. CASE VisitOpen
  <2>1. /\ DOMAIN buckets' = DOMAIN buckets
        /\ \A i \in DOMAIN buckets : buckets'[i].closed = buckets[i].closed
    BY <1>2, <1>5, IncrementSeq DEF VisitOpen
  <2>2. ClosedIsComplete'
    BY <1>1, <1>2, <1>3, <2>1 DEF PassInv, ClosedIsComplete
  <2>3. one_open'
    BY <1>5 DEF VisitOpen
  <2>4. QED
    BY <1>1, <1>4, <2>2, <2>3 DEF PassInv
<1>6. CASE VisitEmpty
  <2>1. /\ DOMAIN buckets' = DOMAIN buckets
        /\ \A i \in DOMAIN buckets : buckets'[i].closed <=> i = cursor \/ buckets[i].closed
    BY <1>2, <1>6, CloseSeq DEF VisitEmpty
  <2>2. Preimage(labels[cursor].cube) \subseteq blockedIn
    <3>1. SUFFICES ASSUME NEW m \in cnf, OutputOf(m) = labels[cursor].cube
                   PROVE  InputOf(m) \in blockedIn
      BY DEF Preimage
    <3>2. \A j \in DOMAIN labels \ {cursor} : OutputOf(m) # labels[j].cube
      BY <1>1, <3>1 DEF HistInv, LabelInv
    <3>3. OutputOf(m) \notin blockedOut
      BY DEF HistInv, BlockedOutInv, InBucketMode
    <3>4. QED
      BY <1>6, <3>2, <3>3 DEF VisitEmpty, ModelsWithout, Models
  <2>3. ClosedIsComplete'
    BY <1>1, <1>2, <1>3, <2>1, <2>2 DEF PassInv, ClosedIsComplete
  <2>4. one_open' = one_open
    BY <1>6 DEF VisitEmpty, syncVars
  <2>5. ~one_open => \A i \in DOMAIN labels : i <= cursor => buckets'[i].closed
    BY <1>1, <1>2, <2>1 DEF PassInv
  <2>6. QED
    BY <1>1, <1>4, <2>3, <2>4, <2>5 DEF PassInv
<1>7. QED
  BY <1>5, <1>6

(* A pass leaves a bucket behind only closed or with one_open set.         *)
LEMMA PassInvStep == ASSUME TypeInv, HistInv, PassInv, [Next]_vars PROVE PassInv'
<1> SUFFICES ASSUME mode = "sync" PROVE PassInv'
  BY ConfigStep DEF PassInv, mode
<1>1. UNCHANGED <<config, cnf>> /\ mode' = "sync"
  BY Monotone DEF mode
<1>2. /\ ClosedIsComplete
      /\ cursor \in 1 .. Len(labels) + 1 /\ Len(labels) \in Nat /\ DOMAIN labels = 1 .. Len(labels)
  BY DEF PassInv, TypeInv, TypeOK, SyncType
<1>3. ASSUME UNCHANGED <<labels, buckets, blockedIn>> PROVE ClosedIsComplete'
  BY <1>1, <1>2, <1>3 DEF ClosedIsComplete, Preimage
<1>4. CASE PrepareDone
  BY <1>1, <1>2, <1>3, <1>4 DEF PrepareDone, PassInv, syncVars
<1>5. CASE SkipClosed
  <2>1. UNCHANGED <<labels, buckets, blockedIn, one_open, pc>> /\ pc = "visit"
    BY <1>5 DEF SkipClosed
  <2>2. ~one_open => \A i \in DOMAIN labels : i < cursor' => buckets[i].closed
    BY <1>2, <1>5 DEF SkipClosed, PassInv
  <2>3. QED
    BY <1>1, <1>3, <2>1, <2>2 DEF PassInv
<1>6. CASE CheckSync
  <2>1. UNCHANGED <<labels, buckets, blockedIn, one_open>> /\ pc = "check"
    BY <1>6 DEF CheckSync
  <2>2. CASE tolerance_met
    BY <1>1, <1>3, <1>6, <2>1, <2>2 DEF CheckSync, PassInv, tolerance_met
  <2>3. CASE ~tolerance_met
    <3>1. pc' = "visit" /\ cursor' = cursor + 1
      BY <1>6, <2>3 DEF CheckSync
    <3>2. ~one_open => \A i \in DOMAIN labels : i < cursor' => buckets[i].closed
      BY <1>2, <2>1, <3>1 DEF PassInv
    <3>3. QED
      BY <1>1, <1>3, <2>1, <3>1, <3>2 DEF PassInv
  <2>4. QED
    BY <2>2, <2>3
<1>7. CASE PassDone
  <2>1. UNCHANGED <<labels, buckets, blockedIn>> /\ b' = one_open /\ pc' = "round"
    BY <1>7 DEF PassDone, syncVars
  <2>2. ~one_open => \A i \in DOMAIN labels : buckets[i].closed
    BY <1>2, <1>7 DEF PassDone, PassInv
  <2>3. QED
    BY <1>1, <1>3, <2>1, <2>2 DEF PassInv
<1>8. CASE NextRound
  <2>1. UNCHANGED <<labels, buckets, blockedIn>>
    BY <1>8 DEF NextRound, syncVars
  <2>2. pc' = "report" \/ (pc' = "visit" /\ cursor' = 1)
    BY <1>8 DEF NextRound
  <2>3. QED
    BY <1>1, <1>2, <1>3, <2>1, <2>2 DEF PassInv
<1>9. CASE (AbortInToleranceMet /\ UNCHANGED syncVars) \/ Report \/ Sigterm \/ Terminated \/ UNCHANGED vars
  <2>1. /\ UNCHANGED <<blockedIn, buckets, b, labels, cursor, one_open>>
        /\ pc' = pc \/ pc' \in Terminal
        /\ terminate => terminate'
    BY <1>9 DEF AbortInToleranceMet, Report, Sigterm, Terminated, Terminal, vars, picVars, syncVars
  <2>2. QED
    BY <1>1, <1>3, <2>1 DEF PassInv, Terminal
<1>10. ~BucketNext /\ ~UnguidedNext
  BY DEF UnguidedNext, UnguidedHead, CountUnstructuredOne, NoPairLeft, CheckUnguided,
         BucketNext, BucketHead, FindOutput, NoOutputLeft, BookPreimage, FindPreimage,
         NoPreimageLeft, LeaveBucket, InBucketMode, TypeInv, PcInv
<1>11. QED
  BY <1>4, <1>5, <1>6, <1>7, <1>8, <1>9, <1>10, PreparePassStep, VisitPassStep
     DEF Next, Step, DenseNext, SyncNext

-----------------------------------------------------------------------------
(* The loop ends with b false for three reasons: there is no model left,   *)
(* the tolerance is met, or the user asked to stop.                        *)
LEMMA ExhaustStep ==
    ASSUME TypeInv, HistInv, BucketInv, PassInv, ExhaustInv, [Next]_vars
    PROVE  ExhaustInv'
<1>1. UNCHANGED <<config, cnf, mode>> /\ (terminate => terminate') /\ (AllCounted => AllCounted')
  BY Monotone, StaysCounted DEF mode
<1>2. ASSUME UNCHANGED verdict PROVE ExhaustiveIsTrue'
  BY <1>1, <1>2 DEF ExhaustInv, ExhaustiveIsTrue
<1>3. ASSUME BucketNext PROVE ExhaustInv'
  <2>1. UNCHANGED verdict
    BY <1>3 DEF BucketNext, BucketHead, FindOutput, NoOutputLeft, BookPreimage,
                FindPreimage, NoPreimageLeft, LeaveBucket
  <2>2. CASE NoOutputLeft
    <3>1. mode = "bucket" \/ ~terminate => AllCounted
      BY <2>2, NoModelLeft DEF NoOutputLeft, BucketInv
    <3>2. terminate' = terminate /\ pc' = "report" /\ ~b'
      BY <2>2 DEF NoOutputLeft
    <3>3. QED
      BY <1>1, <1>2, <2>1, <3>1, <3>2 DEF ExhaustInv
  <2>3. CASE BucketHead
    BY <1>1, <1>2, <2>1, <2>3 DEF BucketHead, BucketInv, ExhaustInv
  <2>4. CASE LeaveBucket
    BY <1>1, <1>2, <2>1, <2>4 DEF LeaveBucket, tolerance_met, ExhaustInv
  <2>5. CASE FindOutput \/ BookPreimage \/ FindPreimage \/ NoPreimageLeft
    BY <1>2, <2>1, <2>5 DEF FindOutput, BookPreimage, FindPreimage, NoPreimageLeft, ExhaustInv
  <2>6. QED
    BY <1>3, <2>2, <2>3, <2>4, <2>5 DEF BucketNext
<1>4. ASSUME UnguidedNext PROVE ExhaustInv'
  <2>1. UNCHANGED <<verdict, terminate>> /\ mode = "unguided"
    BY <1>4 DEF UnguidedNext, UnguidedHead, CountUnstructuredOne, NoPairLeft, CheckUnguided
  <2>2. CASE NoPairLeft
    <3>1. AllCounted
      BY <2>1, <2>2, NoModelLeft DEF NoPairLeft, HistInv, BlockedOutInv, InBucketMode, BlockedComplete
    <3>2. pc' = "report" /\ ~b'
      BY <2>2 DEF NoPairLeft
    <3>3. QED
      BY <1>1, <1>2, <2>1, <3>1, <3>2 DEF ExhaustInv
  <2>3. CASE UnguidedHead \/ CountUnstructuredOne
    BY <1>1, <1>2, <2>1, <2>3 DEF UnguidedHead, CountUnstructuredOne, ExhaustInv
  <2>4. CASE CheckUnguided
    BY <1>1, <1>2, <2>1, <2>4 DEF CheckUnguided, tolerance_met, ExhaustInv
  <2>5. QED
    BY <1>4, <2>2, <2>3, <2>4 DEF UnguidedNext
<1>5. ASSUME SyncNext PROVE ExhaustInv'
  <2>1. UNCHANGED verdict /\ mode = "sync"
    BY <1>5 DEF SyncNext, PrepareOutput, PrepareDone, SkipClosed, VisitOpen, VisitEmpty,
                CheckSync, PassDone, NextRound, TypeInv, PcInv
  <2>2. CASE NextRound
    <3>1. ~b /\ ~terminate /\ config.tolerance = Off => AllCounted
      <4>1. SUFFICES ASSUME \A i \in DOMAIN labels : buckets[i].closed
                     PROVE  AllCounted
        BY <2>1, <2>2 DEF NextRound, PassInv
      <4>2. \A i \in DOMAIN labels : Preimage(labels[i].cube) \subseteq blockedIn
        BY <2>1, <4>1 DEF PassInv, ClosedIsComplete, TypeInv, TypeOK, HistogramType, SyncType
      <4>3. \A m \in cnf : Labelled(m)
        BY <2>1, <2>2 DEF NextRound, HistInv, LabelInv
      <4>4. QED
        BY <4>2, <4>3 DEF Labelled, AllCounted, ProgramInputs, Preimage
    <3>2. /\ UNCHANGED <<b, terminate>>
          /\ pc' \in {"report", "visit"} /\ (pc' = "report" => terminate \/ ~b)
      BY <2>2 DEF NextRound
    <3>3. QED
      BY <1>1, <1>2, <2>1, <3>1, <3>2 DEF ExhaustInv
  <2>3. CASE ~NextRound
    BY <1>2, <1>5, <2>1, <2>3 DEF SyncNext, PrepareOutput, PrepareDone, SkipClosed, VisitOpen,
       VisitEmpty, AfterVisit, CheckSync, PassDone, ExhaustInv
  <2>4. QED
    BY <2>2, <2>3
<1>6. ASSUME Report PROVE ExhaustInv'
  <2>1. UNCHANGED <<b, terminate>> /\ pc = "report" /\ pc' \in {"done", "sigfpe"}
    BY <1>6 DEF Report
  <2>2. verdict' = "exhaustive" => ~b
    BY <1>6 DEF Report, verdict_line
  <2>3. ExhaustiveIsTrue'
    BY <1>1, <2>1, <2>2 DEF ExhaustInv, ExhaustiveIsTrue
  <2>4. QED
    BY <1>1, <2>1, <2>3 DEF ExhaustInv
<1>7. ASSUME AbortInToleranceMet \/ Sigterm \/ Terminated \/ UNCHANGED vars PROVE ExhaustInv'
  <2>1. UNCHANGED <<verdict, b>> /\ (pc' = pc \/ pc' \in {"aborted", "killed"})
    BY <1>7 DEF AbortInToleranceMet, Sigterm, Terminated, Terminal, vars, picVars
  <2>2. QED
    BY <1>1, <1>2, <2>1 DEF ExhaustInv, Terminal
<1>8. QED
  BY <1>3, <1>4, <1>5, <1>6, <1>7 DEF Next, Step, DenseNext

-----------------------------------------------------------------------------
IInv == TypeInv /\ HistInv /\ CompleteInv

(* No output is blocked, no bucket closed and nothing reported at the      *)
(* start.                                                                  *)
LEMMA CompleteInit == Init => IInv
<1> SUFFICES ASSUME Init PROVE CompleteInv
  BY TypeInit, HistInit DEF IInv
<1>1. BucketInv
  BY DEF Init, PICounterInit, BucketInv, BlockedComplete, InBucketMode
<1>2. PassInv
  BY DEF Init, PICounterInit, SyncInit, PassInv, ClosedIsComplete
<1>3. ExhaustInv
  BY DEF Init, PICounterInit, ExhaustInv, ExhaustiveIsTrue
<1>4. QED
  BY <1>1, <1>2, <1>3 DEF CompleteInv

(* The layers together are inductive.                                      *)
LEMMA CompleteStep == IInv /\ [Next]_vars => IInv'
  BY TypeStep, HistStep, BucketInvStep, PassInvStep, ExhaustStep DEF IInv, CompleteInv

(* The invariant the theorems below are read off from. *)
LEMMA Inductive == Spec => []IInv
  BY CompleteInit, CompleteStep, PTL DEF Spec

(* In every run without a request to stop, an output that the bucket modes *)
(* block has all of its inputs counted: the stale model array that         *)
(* count_one_bucket reads after its last, failed solve still belongs to    *)
(* the bucket.                                                             *)
THEOREM BlockedOutputCorrect == Spec => []BlockedOutputIsCounted
<1>1. IInv => BlockedOutputIsCounted
  BY DEF IInv, CompleteInv, BucketInv, BlockedComplete, BlockedOutputIsCounted,
         HistInv, BlockedOutInv
<1>2. QED
  BY <1>1, Inductive, PTL

(* A bucket that count_sync closes has all of its inputs counted.          *)
THEOREM ClosedCorrect == Spec => []ClosedIsComplete
<1>1. IInv => ClosedIsComplete
  BY DEF IInv, CompleteInv, PassInv, ClosedIsComplete
<1>2. QED
  BY <1>1, Inductive, PTL

(* Without a tolerance and without a request to stop, no mode prints       *)
(* "Search was exhaustive" before every input is counted.                  *)
THEOREM ExhaustiveCorrect == Spec => []ExhaustiveIsTrue
<1>1. IInv => ExhaustiveIsTrue
  BY DEF IInv, CompleteInv, ExhaustInv
<1>2. QED
  BY <1>1, Inductive, PTL

(* Without a tolerance and without a request to stop, every mode's report  *)
(* is the histogram of the program.                                        *)
THEOREM ReportCorrect == Spec => []ReportIsExact
<1>1. IInv => ReportIsExact
  <2> SUFFICES ASSUME IInv, pc \in {"done", "sigfpe"}, ~terminate, config.tolerance = Off
               PROVE  /\ AllCounted
                      /\ \A k \in DOMAIN buckets :
                             buckets[k].size = Cardinality(PreimageOfBucket(k))
    BY DEF ReportIsExact
  <2>1. AllCounted
    BY DEF IInv, CompleteInv, ExhaustInv
  <2>2. ASSUME NEW k \in DOMAIN buckets
        PROVE  buckets[k].size = Cardinality(PreimageOfBucket(k))
    <3>1. PreimageOfBucket(k) \subseteq ProgramInputs
      BY DEF PreimageOfBucket, Preimage, PreimageOfValue, ProgramInputs
    <3>2. blockedIn \cap PreimageOfBucket(k) = PreimageOfBucket(k)
      BY <2>1, <3>1 DEF AllCounted
    <3>3. QED
      BY <3>2, Zenon DEF IInv, HistInv, HistogramIsOfCounted
  <2>3. QED
    BY <2>1, <2>2
<1>2. QED
  BY <1>1, Inductive, PTL

(* The bucket modes turn to another output only when the one before is     *)
(* counted, or on the way out after a request to stop.                     *)
THEOREM OneBucketCorrect == Spec => OneBucketAtATime
<1> DEFINE A == assum' # assum /\ assum # NoOutput /\ ~terminate
                    => Preimage(assum) \subseteq blockedIn
<1>1. IInv /\ [Next]_vars => [A]_vars
  <2> SUFFICES ASSUME IInv, [Next]_vars, assum' # assum, assum # NoOutput, ~terminate
               PROVE  Preimage(assum) \subseteq blockedIn
    OBVIOUS
  <2>1. FindOutput
    BY DEF Next, Step, DenseNext, BucketNext, BucketHead, FindOutput, NoOutputLeft,
           BookPreimage, FindPreimage, NoPreimageLeft, LeaveBucket, UnguidedNext,
           UnguidedHead, CountUnstructuredOne, NoPairLeft, CheckUnguided, SyncNext,
           PrepareOutput, PrepareDone, SkipClosed, VisitOpen, VisitEmpty, CheckSync,
           PassDone, NextRound, AbortInToleranceMet, Report, Sigterm, Terminated, vars, picVars
  <2>2. QED
    BY <2>1 DEF FindOutput, IInv, CompleteInv, BucketInv
<1>2. QED
  BY <1>1, Inductive, PTL DEF Spec, OneBucketAtATime

-----------------------------------------------------------------------------
(* How far sync has got with each of its open buckets. It visits them in   *)
(* turn, so that they keep within one pre-image of each other.             *)

(* The buckets before position k were visited in this pass. *)
Ahead(i, k) == IF i < k THEN 1 ELSE 0

(* The open buckets of h have the same size but for the visits of a pass.  *)
Level(h, k) ==
    \A i, j \in DOMAIN h :
        ~h[i].closed /\ ~h[j].closed
            => h[i].size + Ahead(j, k) = h[j].size + Ahead(i, k)

(* A pass starts over only after one that reached the end: one cut short   *)
(* by the tolerance or by a request to stop is the last.                   *)
BalanceInv ==
    mode = "sync" =>
        /\ pc = "prepare" => cursor = 1 /\ \A i \in DOMAIN buckets : buckets[i].size = 1
        /\ pc = "visit" => Level(buckets, cursor)
        /\ pc \in {"check", "round"} => Level(buckets, cursor + 1)
        /\ pc = "round" /\ b /\ ~terminate => cursor = Len(labels) + 1
        /\ SyncIsBalanced

(* The vector of sync and its cursor. *)
LEMMA Vector ==
    ASSUME TypeInv, mode = "sync"
    PROVE  /\ buckets \in Seq(Buckets) /\ DOMAIN buckets = 1 .. Len(labels)
           /\ Len(labels) \in Nat /\ cursor \in 1 .. Len(labels) + 1
<1>1. /\ buckets \in Seq(Buckets) /\ Len(buckets) = Len(labels)
      /\ labels \in Seq(Labels) /\ cursor \in 1 .. Len(labels) + 1
  BY DEF TypeInv, TypeOK, HistogramType, SyncType
<1>2. QED
  BY <1>1

(* The elements of a vector of buckets. *)
LEMMA Element ==
    ASSUME NEW h \in Seq(Buckets), NEW i \in DOMAIN h
    PROVE  i \in Nat /\ h[i].size \in Nat
<1>1. h[i] \in Buckets /\ i \in 1 .. Len(h) /\ Len(h) \in Nat
  OBVIOUS
<1>2. QED
  BY <1>1 DEF Buckets

(* Level buckets are balanced. *)
LEMMA LevelBalances ==
    ASSUME NEW h \in Seq(Buckets), NEW k \in Nat, Level(h, k),
           NEW i \in DOMAIN h, NEW j \in DOMAIN h, i < j, ~h[i].closed, ~h[j].closed
    PROVE  h[i].size - h[j].size \in {0, 1}
<1>1. h[i].size \in Nat /\ h[j].size \in Nat /\ i \in Nat /\ j \in Nat
  BY Element
<1>2. h[i].size + Ahead(j, k) = h[j].size + Ahead(i, k)
  BY DEF Level
<1>3. QED
  BY <1>1, <1>2 DEF Ahead

(* A visit takes the bucket of the cursor one ahead, or closes it.         *)
LEMMA VisitLevels ==
    ASSUME TypeInv, TypeInv', BalanceInv, mode = "sync", UNCHANGED config,
           VisitOpen \/ VisitEmpty
    PROVE  BalanceInv'
<1>1. /\ pc = "visit" /\ Level(buckets, cursor) /\ UNCHANGED <<labels, cursor>>
      /\ cursor <= Len(labels) /\ ~buckets[cursor].closed /\ mode' = "sync"
  BY DEF VisitOpen, VisitEmpty, BalanceInv, syncVars, mode
<1>2. /\ buckets \in Seq(Buckets) /\ DOMAIN buckets = 1 .. Len(labels)
      /\ Len(labels) \in Nat /\ cursor \in DOMAIN buckets /\ DOMAIN buckets' = DOMAIN buckets
      /\ \A i \in DOMAIN buckets : buckets[i].size \in Nat /\ i \in Nat
  <2>1. DOMAIN buckets' = 1 .. Len(labels')
    <3>1. buckets' \in Seq(Buckets) /\ Len(buckets') = Len(labels')
      BY <1>1 DEF TypeInv, TypeOK, HistogramType
    <3>2. QED
      BY <3>1
  <2>2. buckets \in Seq(Buckets) /\ DOMAIN buckets = 1 .. Len(labels) /\ Len(labels) \in Nat
    BY Vector
  <2>3. \A i \in DOMAIN buckets : buckets[i].size \in Nat /\ i \in Nat
    BY <2>2, Element
  <2>4. QED
    BY <1>1, <2>1, <2>2, <2>3, Vector
<1>3. Level(buckets', cursor + 1)
  <2>1. \A i \in DOMAIN buckets : i # cursor => Ahead(i, cursor + 1) = Ahead(i, cursor)
    BY <1>2 DEF Ahead
  <2>2. Ahead(cursor, cursor) = 0 /\ Ahead(cursor, cursor + 1) = 1
    BY <1>2 DEF Ahead
  <2>3. \A i, k : Ahead(i, k) \in {0, 1}
    BY DEF Ahead
  <2>4. CASE VisitOpen
    <3>1. \A i \in DOMAIN buckets :
             /\ buckets'[i].closed = buckets[i].closed
             /\ buckets'[i].size = IF i = cursor THEN buckets[i].size + 1 ELSE buckets[i].size
      BY <1>2, <2>4, IncrementSeq DEF VisitOpen
    <3>2. ASSUME NEW i \in DOMAIN buckets, NEW j \in DOMAIN buckets,
                 ~buckets[i].closed, ~buckets[j].closed
          PROVE  buckets'[i].size + Ahead(j, cursor + 1) = buckets'[j].size + Ahead(i, cursor + 1)
      <4>1. buckets[i].size + Ahead(j, cursor) = buckets[j].size + Ahead(i, cursor)
        BY <1>1, <3>2 DEF Level
      <4>2. buckets[i].size \in Nat /\ buckets[j].size \in Nat
        BY <1>2
      <4>3. Ahead(i, cursor) \in {0, 1} /\ Ahead(j, cursor) \in {0, 1}
        BY <2>3
      <4>4. CASE i = cursor /\ j = cursor
        BY <4>4
      <4>5. CASE i = cursor /\ j # cursor
        <5>1. buckets'[i].size = buckets[i].size + 1 /\ buckets'[j].size = buckets[j].size
          BY <3>1, <4>5
        <5>2. /\ Ahead(i, cursor) = 0 /\ Ahead(i, cursor + 1) = 1
              /\ Ahead(j, cursor + 1) = Ahead(j, cursor)
          BY <2>1, <2>2, <4>5
        <5>3. QED
          BY <4>1, <4>2, <4>3, <5>1, <5>2
      <4>6. CASE i # cursor /\ j = cursor
        <5>1. buckets'[i].size = buckets[i].size /\ buckets'[j].size = buckets[j].size + 1
          BY <3>1, <4>6
        <5>2. /\ Ahead(j, cursor) = 0 /\ Ahead(j, cursor + 1) = 1
              /\ Ahead(i, cursor + 1) = Ahead(i, cursor)
          BY <2>1, <2>2, <4>6
        <5>3. QED
          BY <4>1, <4>2, <4>3, <5>1, <5>2
      <4>7. CASE i # cursor /\ j # cursor
        BY <2>1, <3>1, <4>1, <4>7
      <4>8. QED
        BY <4>4, <4>5, <4>6, <4>7
    <3>3. QED
      BY <1>2, <3>1, <3>2 DEF Level
  <2>5. CASE VisitEmpty
    <3>1. \A i \in DOMAIN buckets :
             /\ buckets'[i].closed <=> i = cursor \/ buckets[i].closed
             /\ buckets'[i].size = buckets[i].size
      BY <1>2, <2>5, CloseSeq DEF VisitEmpty
    <3>2. QED
      BY <1>1, <1>2, <2>1, <3>1 DEF Level
  <2>6. QED
    BY <2>4, <2>5
<1>4. SyncIsBalanced'
  <2>1. buckets' \in Seq(Buckets)
    BY <1>1 DEF TypeInv, TypeOK, HistogramType
  <2>2. cursor + 1 \in Nat
    BY <1>2
  <2>3. QED
    BY <1>3, <2>1, <2>2, LevelBalances DEF SyncIsBalanced
<1>5. pc' \in {"check", "round"} /\ (pc' = "round" => ~b')
  BY DEF VisitOpen, VisitEmpty, AfterVisit
<1>6. QED
  BY <1>1, <1>3, <1>4, <1>5 DEF BalanceInv

(* A new output's bucket starts with one pre-image, as all before it.      *)
LEMMA PrepareLevels ==
    ASSUME TypeInv, BalanceInv, mode = "sync", UNCHANGED config, PrepareOutput
    PROVE  BalanceInv'
<1>1. /\ pc = "prepare" /\ UNCHANGED <<pc, cursor>> /\ cursor = 1 /\ mode' = "sync"
      /\ \A i \in DOMAIN buckets : buckets[i].size = 1
      /\ buckets' = Append(buckets, [size |-> 1, closed |-> FALSE])
  BY DEF PrepareOutput, BalanceInv, mode
<1>2. \A i \in DOMAIN buckets' : buckets'[i].size = 1
  <2>1. PICK n \in Nat : n = Len(buckets) /\ buckets \in Seq(Buckets) /\ DOMAIN buckets = 1 .. n
    BY Vector
  <2>2. /\ DOMAIN buckets' = 1 .. n + 1 /\ buckets'[n + 1].size = 1
        /\ \A i \in 1 .. n : buckets'[i] = buckets[i]
    BY <1>1, <2>1
  <2>3. QED
    BY <1>1, <2>1, <2>2
<1>3. SyncIsBalanced'
  BY <1>2 DEF SyncIsBalanced
<1>4. QED
  BY <1>1, <1>2, <1>3 DEF BalanceInv

(* The other steps of the pass leave the buckets alone.                    *)
LEMMA PassLevels ==
    ASSUME TypeInv, BalanceInv, mode = "sync", UNCHANGED config,
           PrepareDone \/ SkipClosed \/ CheckSync \/ PassDone \/ NextRound
    PROVE  BalanceInv'
<1>1. UNCHANGED <<buckets, labels, terminate>> /\ mode' = "sync" /\ SyncIsBalanced
  BY DEF PrepareDone, SkipClosed, CheckSync, PassDone, NextRound, syncVars, BalanceInv, mode
<1>2. SyncIsBalanced'
  BY <1>1 DEF SyncIsBalanced, mode
<1>3. /\ cursor \in 1 .. Len(labels) + 1 /\ Len(labels) \in Nat
      /\ buckets \in Seq(Buckets) /\ DOMAIN buckets = 1 .. Len(labels)
      /\ \A i \in DOMAIN buckets : i \in Nat
  BY Vector, Element
<1>4. CASE PrepareDone
  <2>1. pc' = "visit" /\ cursor' = 1 /\ \A i \in DOMAIN buckets : buckets[i].size = 1
    BY <1>4 DEF PrepareDone, BalanceInv, syncVars
  <2>2. Level(buckets, 1)
    BY <1>3, <2>1 DEF Level, Ahead
  <2>3. QED
    BY <1>1, <1>2, <2>1, <2>2 DEF BalanceInv
<1>5. CASE SkipClosed
  <2>1. pc' = "visit" /\ cursor' = cursor + 1 /\ buckets[cursor].closed /\ Level(buckets, cursor)
    BY <1>5 DEF SkipClosed, BalanceInv
  <2>2. \A i \in DOMAIN buckets : i # cursor => Ahead(i, cursor + 1) = Ahead(i, cursor)
    BY <1>3 DEF Ahead
  <2>3. Level(buckets, cursor + 1)
    BY <2>1, <2>2 DEF Level
  <2>4. QED
    BY <1>1, <1>2, <2>1, <2>3 DEF BalanceInv
<1>6. CASE CheckSync
  <2>1. /\ Level(buckets, cursor + 1)
        /\ \/ pc' = "round" /\ b' = FALSE /\ cursor' = cursor
           \/ pc' = "visit" /\ cursor' = cursor + 1
    BY <1>6 DEF CheckSync, BalanceInv
  <2>2. QED
    BY <1>1, <1>2, <2>1 DEF BalanceInv
<1>7. CASE PassDone
  <2>1. pc' = "round" /\ cursor' = cursor /\ cursor = Len(labels) + 1 /\ Level(buckets, cursor)
    BY <1>3, <1>7 DEF PassDone, BalanceInv, syncVars
  <2>2. \A i \in DOMAIN buckets : Ahead(i, cursor + 1) = Ahead(i, cursor)
    BY <1>3, <2>1 DEF Ahead
  <2>3. Level(buckets, cursor + 1)
    BY <2>1, <2>2 DEF Level
  <2>4. QED
    BY <1>1, <1>2, <2>1, <2>3 DEF BalanceInv
<1>8. CASE NextRound
  <2>1. CASE terminate \/ ~b
    BY <1>1, <1>2, <1>8, <2>1 DEF NextRound, BalanceInv
  <2>2. CASE ~terminate /\ b
    <3>1. pc' = "visit" /\ cursor' = 1 /\ cursor = Len(labels) + 1 /\ Level(buckets, cursor + 1)
      BY <1>8, <2>2 DEF NextRound, BalanceInv
    <3>2. \A i \in DOMAIN buckets : Ahead(i, cursor + 1) = 1 /\ Ahead(i, 1) = 0
      BY <1>3, <3>1 DEF Ahead
    <3>3. \A i \in DOMAIN buckets : buckets[i].size \in Nat
      BY <1>3, Element
    <3>4. Level(buckets, 1)
      BY <3>1, <3>2, <3>3 DEF Level
    <3>5. QED
      BY <1>1, <1>2, <3>1, <3>4 DEF BalanceInv
  <2>3. QED
    BY <2>1, <2>2
<1>9. QED
  BY <1>4, <1>5, <1>6, <1>7, <1>8

(* Before sync begins there is no bucket.                                   *)
LEMMA BalanceInit == Init => BalanceInv
  BY DEF Init, PICounterInit, SyncInit, BalanceInv, SyncIsBalanced

(* Each step keeps the buckets level for the place of the cursor.           *)
LEMMA BalanceStep == ASSUME TypeInv, TypeInv', BalanceInv, [Next]_vars PROVE BalanceInv'
<1> SUFFICES ASSUME mode = "sync" PROVE BalanceInv'
  BY ConfigStep DEF BalanceInv, mode
<1>1. UNCHANGED config /\ mode' = "sync"
  BY ConfigStep DEF mode
<1>2. ASSUME UNCHANGED <<buckets, labels, cursor, b>>, terminate => terminate',
             pc' \in {pc} \cup Terminal
      PROVE  BalanceInv'
  BY <1>1, <1>2 DEF BalanceInv, SyncIsBalanced, Terminal
<1>3. CASE (AbortInToleranceMet /\ UNCHANGED syncVars) \/ Report \/ Sigterm \/ Terminated \/ UNCHANGED vars
  <2>1. /\ UNCHANGED <<buckets, labels, cursor, b>> /\ (terminate => terminate')
        /\ pc' \in {pc} \cup Terminal
    BY <1>3 DEF AbortInToleranceMet, Report, Sigterm, Terminated, Terminal, vars, picVars, syncVars
  <2>2. QED
    BY <1>2, <2>1
<1>4. ~BucketNext /\ ~UnguidedNext
  BY DEF UnguidedNext, UnguidedHead, CountUnstructuredOne, NoPairLeft, CheckUnguided,
         BucketNext, BucketHead, FindOutput, NoOutputLeft, BookPreimage, FindPreimage,
         NoPreimageLeft, LeaveBucket, InBucketMode, TypeInv, PcInv
<1>5. QED
  BY <1>1, <1>3, <1>4, PrepareLevels, VisitLevels, PassLevels
     DEF Next, Step, DenseNext, SyncNext

(* In every run of sync, two open buckets differ by at most one pre-image, *)
(* and the one ahead comes first: the histogram grows evenly over the      *)
(* outputs, also when a pass is cut short.                                 *)
THEOREM BalanceCorrect == Spec => []SyncIsBalanced
<1>1. TypeInv /\ BalanceInv /\ [Next]_vars => (TypeInv /\ BalanceInv)'
  BY TypeStep, BalanceStep
<1>2. BalanceInv => SyncIsBalanced
  BY DEF BalanceInv, SyncIsBalanced
<1>3. QED
  BY TypeInit, BalanceInit, <1>1, <1>2, PTL DEF Spec

-----------------------------------------------------------------------------
NamedInv ==
    mode = "sync" =>
        /\ \A i \in DOMAIN labels :
               /\ labels[i].output = OutputValue(labels[i].cube)
               /\ \E m \in cnf : labels[i].cube = OutputOf(m)
        /\ pc \notin {"prepare", "killed"} => \A m \in cnf : Labelled(m)
        /\ DOMAIN labels # {} => blockedIn # {}

TableInv ==
    mode # "sync" =>
        /\ pc \in {"book", "next", "check"} \/ (pc = "solve" /\ mode = "unguided")
               => DOMAIN buckets # {}
        /\ DOMAIN buckets = {} => blockedIn = {} /\ pc # "done"
        /\ pc \in {"next", "check"} => blockedIn # {}

EndInv ==
    /\ blockedIn \subseteq ProgramInputs
    /\ pc = "uncaught" => DOMAIN buckets = {}
    /\ pc = "report" /\ ~terminate /\ blockedIn = {} => cnf = {}
    /\ pc = "sigfpe" => blockedIn = {} /\ (cnf = {} \/ terminate)

AnswerInv == IInv /\ NamedInv /\ TableInv /\ EndInv

-----------------------------------------------------------------------------
(* An output's value is an index of the table, unless the table is empty.  *)
LEMMA ValueInTable ==
    ASSUME TypeInv, mode # "sync", NEW o \in Outputs, DOMAIN buckets # {}
    PROVE  OutputValue(o) \in DOMAIN buckets
<1>1. DOMAIN buckets = 0 .. space_size(Len(OutputLits)) - 1
  BY DEF TypeInv, TypeOK, HistogramType
<1>2. Len(OutputLits) \in Nat /\ OutputLits \in Seq(OutputVars)
  BY LitsAssumption
<1>3. Len(OutputLits) # 0
  BY <1>1 DEF space_size
<1>4. space_size(Len(OutputLits)) = twoTo[Len(OutputLits)] /\ twoTo[Len(OutputLits)] \in Nat
  BY <1>2, <1>3, TwoTo DEF space_size
<1>5. OutputValue(o) \in Nat /\ OutputValue(o) < twoTo[Len(OutputLits)]
  BY <1>2, InterpretRange DEF Outputs, OutputValue
<1>6. QED
  BY <1>1, <1>4, <1>5

(* Different outputs have different values.                                *)
LEMMA ValueNamesOutput ==
    ASSUME NEW o \in Outputs, NEW p \in Outputs, OutputValue(o) = OutputValue(p)
    PROVE  o = p
<1>1. OutputLits \in Seq(OutputVars) /\ o \in [OutputVars -> BOOLEAN] /\ p \in [OutputVars -> BOOLEAN]
  BY LitsAssumption DEF Outputs
<1>2. \A k \in 1 .. Len(OutputLits) : o[OutputLits[k]] = p[OutputLits[k]]
  BY <1>1, InterpretInjective DEF OutputValue
<1>3. \A v \in OutputVars : \E k \in 1 .. Len(OutputLits) : OutputLits[k] = v
  BY <1>1 DEF OutputVars, Range
<1>4. \A v \in OutputVars : o[v] = p[v]
  BY <1>2, <1>3
<1>5. QED
  BY <1>1, <1>4

-----------------------------------------------------------------------------
(* What a step may do to the blocked inputs: nothing, or add the one of a  *)
(* model that is not blocked.                                              *)
Counts(m) == InputOf(m) \notin blockedIn /\ blockedIn' = blockedIn \cup {InputOf(m)}

(* A counting step counts one model; it leaves the flag alone and gives no *)
(* answer.                                                                 *)
LEMMA CountingStep ==
    ASSUME TypeInv, HistInv, BookPreimage \/ CountUnstructuredOne \/ PrepareOutput \/ VisitOpen
    PROVE  /\ \E m \in cnf : Counts(m)
           /\ UNCHANGED <<config, cnf, terminate>>
           /\ pc \notin Terminal /\ pc' \notin Terminal
<1>1. CASE BookPreimage
  BY <1>1 DEF BookPreimage, Counts, ProhibitInput, TypeInv, ModelInv, PcInv, HistInv,
              FreshInv, Terminal
<1>2. CASE CountUnstructuredOne
  BY <1>2 DEF CountUnstructuredOne, Models, Counts, ProhibitInput, Terminal
<1>3. CASE PrepareOutput
  BY <1>3 DEF PrepareOutput, ModelsWithout, Models, Counts, ProhibitInput, Terminal
<1>4. CASE VisitOpen
  BY <1>4 DEF VisitOpen, AfterVisit, ModelsWithout, Models, Counts, ProhibitInput, Terminal
<1>5. QED
  BY <1>1, <1>2, <1>3, <1>4

(* Every other step of the modes counts nothing.                           *)
LEMMA OtherStep ==
    ASSUME TypeInv, BucketNext \/ UnguidedNext \/ SyncNext \/ AbortInToleranceMet,
           ~(BookPreimage \/ CountUnstructuredOne \/ PrepareOutput \/ VisitOpen)
    PROVE  /\ UNCHANGED <<config, cnf, blockedIn, terminate>>
           /\ pc \notin Terminal /\ pc' \notin {"done", "sigfpe"}
<1>1. CASE BucketNext
  BY <1>1 DEF BucketNext, BucketHead, FindOutput, NoOutputLeft, FindPreimage, NoPreimageLeft,
              LeaveBucket, Terminal
<1>2. CASE UnguidedNext
  BY <1>2 DEF UnguidedNext, UnguidedHead, NoPairLeft, CheckUnguided, Terminal
<1>3. CASE SyncNext
  BY <1>3 DEF SyncNext, PrepareDone, SkipClosed, VisitEmpty, AfterVisit, CheckSync, PassDone,
              NextRound, Terminal
<1>4. CASE AbortInToleranceMet
  BY <1>4 DEF AbortInToleranceMet, Terminal
<1>5. QED
  BY <1>1, <1>2, <1>3, <1>4

(* The steps of a run: counting, the other steps of the modes, the report, *)
(* a request to stop, and steps that change nothing.                       *)
LEMMA StepKinds ==
    ASSUME [Next]_vars
    PROVE  \/ BookPreimage \/ CountUnstructuredOne \/ PrepareOutput \/ VisitOpen
           \/ /\ BucketNext \/ UnguidedNext \/ SyncNext \/ AbortInToleranceMet
              /\ ~(BookPreimage \/ CountUnstructuredOne \/ PrepareOutput \/ VisitOpen)
           \/ Report \/ Sigterm \/ UNCHANGED vars
  BY DEF Next, Step, DenseNext, Terminated

-----------------------------------------------------------------------------
(* The labels of sync.                                                     *)
LEMMA NamedStep == ASSUME TypeInv, HistInv, NamedInv, [Next]_vars PROVE NamedInv'
<1> SUFFICES ASSUME mode = "sync" PROVE NamedInv'
  BY ConfigStep DEF NamedInv, mode
<1>1. UNCHANGED <<config, cnf>> /\ mode' = "sync" /\ blockedIn \subseteq blockedIn'
  BY Monotone DEF mode
<1>2. CASE PrepareOutput
  <2>1. pc = "prepare" /\ pc' = "prepare"
    BY <1>2 DEF PrepareOutput
  <2>2. PICK m \in cnf :
           labels' = Append(labels, [output |-> OutputValue(OutputOf(m)), cube |-> OutputOf(m)])
    BY <1>2, ModelsOfCNF DEF PrepareOutput
  <2>3. PICK n \in Nat : n = Len(labels) /\ labels \in Seq(Labels)
    BY DEF TypeInv, TypeOK, SyncType
  <2>4. /\ DOMAIN labels' = 1 .. n + 1 /\ DOMAIN labels = 1 .. n
        /\ \A i \in 1 .. n : labels'[i] = labels[i]
        /\ labels'[n + 1] = [output |-> OutputValue(OutputOf(m)), cube |-> OutputOf(m)]
    BY <2>2, <2>3
  <2>5. blockedIn' # {}
    BY <1>2 DEF PrepareOutput, ProhibitInput
  <2>6. ASSUME NEW i \in 1 .. n + 1
        PROVE  labels'[i].output = OutputValue(labels'[i].cube) /\ \E l \in cnf : labels'[i].cube = OutputOf(l)
    <3>1. CASE i \in 1 .. n
      BY <2>4, <3>1 DEF NamedInv
    <3>2. CASE i = n + 1
      BY <2>4, <3>2
    <3>3. QED
      BY <2>3, <3>1, <3>2
  <2>7. QED
    BY <1>1, <2>1, <2>4, <2>5, <2>6 DEF NamedInv
<1>3. CASE ~PrepareOutput
  <2>1. labels' = labels /\ (pc = "prepare" => pc' \in {"prepare", "visit", "killed"})
    BY <1>3 DEF Next, Step, DenseNext, SyncNext, BucketNext, UnguidedNext, PrepareDone, SkipClosed,
       VisitOpen, VisitEmpty, AfterVisit, CheckSync, PassDone, NextRound, BucketHead, FindOutput, NoOutputLeft,
       BookPreimage, FindPreimage, NoPreimageLeft, LeaveBucket, UnguidedHead, CountUnstructuredOne,
       NoPairLeft, CheckUnguided, AbortInToleranceMet, Report, Sigterm, Terminated, vars, picVars,
       syncVars
  <2>2. pc' = "visit" => \A m \in cnf : Labelled(m)'
    BY <1>1, HistStep DEF HistInv, LabelInv
  <2>3. pc = "killed" => pc' = "killed"
    BY DEF Next, Step, DenseNext, SyncNext, BucketNext, UnguidedNext, PrepareDone, SkipClosed,
       PrepareOutput, VisitOpen, VisitEmpty, CheckSync, PassDone, NextRound, BucketHead, FindOutput,
       NoOutputLeft, BookPreimage, FindPreimage, NoPreimageLeft, LeaveBucket, UnguidedHead,
       CountUnstructuredOne, NoPairLeft, CheckUnguided, AbortInToleranceMet, Report, Sigterm,
       Terminal, Terminated, vars, picVars
  <2>4. \A m : Labelled(m) => Labelled(m)'
    BY <2>1 DEF Labelled, OutputOf
  <2>5. QED
    BY <1>1, <2>1, <2>2, <2>3, <2>4 DEF NamedInv
<1>4. QED
  BY <1>2, <1>3

(* In every run of sync, once the labels are prepared they name exactly    *)
(* the program's outputs, and no two of them the same output value.        *)
THEOREM LabelsCorrect == Spec => []LabelsAreTheOutputs
<1>1. Init => IInv /\ NamedInv
  <2>1. Init => NamedInv
    BY DEF Init, SyncInit, PICounterInit, NamedInv
  <2>2. QED
    BY <2>1, CompleteInit
<1>2. IInv /\ NamedInv /\ [Next]_vars => (IInv /\ NamedInv)'
  BY CompleteStep, NamedStep DEF IInv
<1>3. IInv /\ NamedInv => LabelsAreTheOutputs
  <2> SUFFICES ASSUME IInv, NamedInv, mode = "sync", pc # "prepare", pc # "killed"
               PROVE  /\ {labels[i].cube : i \in DOMAIN labels} = {OutputOf(m) : m \in cnf}
                      /\ \A i, j \in DOMAIN labels : labels[i].output = labels[j].output => i = j
    BY DEF LabelsAreTheOutputs
  <2>1. {labels[i].cube : i \in DOMAIN labels} = {OutputOf(m) : m \in cnf}
    <3>1. \A i \in DOMAIN labels : \E m \in cnf : labels[i].cube = OutputOf(m)
      BY DEF NamedInv
    <3>2. \A m \in cnf : \E i \in DOMAIN labels : labels[i].cube = OutputOf(m)
      BY DEF NamedInv, Labelled
    <3>3. QED
      BY <3>1, <3>2
  <2>2. ASSUME NEW i \in DOMAIN labels, NEW j \in DOMAIN labels, labels[i].output = labels[j].output
        PROVE  i = j
    <3>1. labels[i].cube \in Outputs /\ labels[j].cube \in Outputs
      BY ModelType DEF NamedInv, IInv
    <3>2. labels[i].cube = labels[j].cube
      BY <2>2, <3>1, ValueNamesOutput DEF NamedInv
    <3>3. QED
      BY <3>2 DEF IInv, HistInv, LabelInv
  <2>3. QED
    BY <2>1, <2>2
<1>4. QED
  BY <1>1, <1>2, <1>3, PTL DEF Spec

-----------------------------------------------------------------------------
(* Every counted input has its bucket.                                     *)
LEMMA HasBucket ==
    ASSUME TypeInv, HistInv, TableInv, NEW m \in cnf, InputOf(m) \in blockedIn
    PROVE  \E k \in DOMAIN buckets : InputOf(m) \in PreimageOfBucket(k)
<1>1. CASE mode = "sync"
  <2>1. PICK k \in DOMAIN labels : labels[k].cube = OutputOf(m)
    BY <1>1 DEF HistInv, LabelInv, Labelled
  <2>2. k \in DOMAIN buckets
    BY <1>1, <2>1 DEF TypeInv, TypeOK, HistogramType, SyncType
  <2>3. QED
    BY <1>1, <2>1, <2>2 DEF PreimageOfBucket, Preimage
<1>2. CASE mode # "sync"
  <2>1. DOMAIN buckets # {} /\ OutputOf(m) \in Outputs
    BY <1>2, ModelType DEF TableInv
  <2>2. OutputValue(OutputOf(m)) \in DOMAIN buckets
    BY <1>2, <2>1, ValueInTable
  <2>3. QED
    BY <1>2, <2>2 DEF PreimageOfBucket, PreimageOfValue
<1>3. QED
  BY <1>1, <1>2

(* The histogram is finite, its sizes are numbers.                         *)
LEMMA FiniteHistogram ==
    ASSUME TypeInv
    PROVE  IsFiniteSet(DOMAIN buckets) /\ \A k \in DOMAIN buckets : buckets[k].size \in Nat
<1>1. CASE mode = "sync"
  <2>1. buckets \in Seq(Buckets)
    BY <1>1 DEF TypeInv, TypeOK, HistogramType
  <2>2. DOMAIN buckets = 1 .. Len(buckets) /\ Len(buckets) \in Nat
    BY <2>1
  <2>3. QED
    BY <2>1, <2>2, FS_Interval, Element
<1>2. CASE mode # "sync"
  <2>1. buckets \in [0 .. space_size(Len(OutputLits)) - 1 -> Buckets]
    BY <1>2 DEF TypeInv, TypeOK, HistogramType
  <2>2. space_size(Len(OutputLits)) \in Nat
    BY LitsAssumption, TwoTo DEF space_size
  <2>3. IsFiniteSet(0 .. space_size(Len(OutputLits)) - 1)
    BY <2>2, FS_Interval
  <2>4. QED
    BY <2>1, <2>3 DEF Buckets
<1>3. QED
  BY <1>1, <1>2

(* A report that counts no output counted no input.                        *)
LEMMA NothingReported ==
    ASSUME AnswerInv, sum_outputs(buckets) = 0
    PROVE  blockedIn = {}
<1> USE DEF AnswerInv, IInv
<1> DEFINE full == {k \in DOMAIN buckets : buckets[k].size # 0}
<1>1. full = {}
  <2>1. IsFiniteSet(full)
    BY FiniteHistogram, FS_Subset
  <2>2. Cardinality(full) = 0
    BY DEF sum_outputs
  <2> HIDE DEF full
  <2>3. QED
    BY <2>1, <2>2, FS_EmptySet
<1>2. ASSUME NEW k \in DOMAIN buckets PROVE blockedIn \cap PreimageOfBucket(k) = {}
  <2>1. Cardinality(blockedIn \cap PreimageOfBucket(k)) = 0
    BY <1>1 DEF HistInv, HistogramIsOfCounted
  <2>2. IsFiniteSet(blockedIn \cap PreimageOfBucket(k))
    BY FS_Subset DEF HistInv
  <2>3. QED
    BY <2>1, <2>2, FS_EmptySet
<1>3. QED
  BY <1>2, HasBucket DEF EndInv, ProgramInputs

-----------------------------------------------------------------------------
(* The table of a dense mode.                                              *)
LEMMA TableStep == ASSUME AnswerInv, [Next]_vars PROVE TableInv'
<1> SUFFICES ASSUME mode # "sync" PROVE TableInv'
  BY ConfigStep DEF TableInv, mode
<1> USE DEF AnswerInv, IInv
<1>1. UNCHANGED <<config, cnf, mode>> /\ mode' # "sync"
  BY ConfigStep DEF mode
<1>2. DOMAIN buckets' = DOMAIN buckets
  <2>1. TypeInv'
    BY TypeStep
  <2>2. QED
    BY <1>1, <2>1 DEF TypeInv, TypeOK, HistogramType
<1>3. ASSUME UNCHANGED blockedIn, pc' \in {pc, "head", "report", "sigfpe", "aborted", "uncaught", "killed"}
      PROVE  TableInv'
  BY <1>1, <1>2, <1>3 DEF TableInv
<1>4. CASE BucketNext
  <2>1. InBucketMode
    BY <1>4 DEF BucketNext, BucketHead, FindOutput, NoOutputLeft, BookPreimage, FindPreimage,
                NoPreimageLeft, LeaveBucket, TypeInv, PcInv
  <2>2. mode # "unguided"
    BY <2>1 DEF InBucketMode
  <2>3. CASE BucketHead \/ NoOutputLeft \/ LeaveBucket
    BY <1>1, <1>2, <2>2, <2>3 DEF BucketHead, NoOutputLeft, LeaveBucket, TableInv
  <2>4. CASE FindOutput
    BY <1>1, <1>2, <2>4 DEF FindOutput, TableInv
  <2>5. CASE BookPreimage
    BY <1>1, <1>2, <2>5 DEF BookPreimage, ProhibitInput, TableInv
  <2>6. CASE FindPreimage \/ NoPreimageLeft
    BY <1>1, <1>2, <2>6 DEF FindPreimage, NoPreimageLeft, TableInv
  <2>7. QED
    BY <1>4, <2>3, <2>4, <2>5, <2>6 DEF BucketNext
<1>5. CASE UnguidedNext
  <2>1. CASE UnguidedHead
    BY <1>1, <1>2, <2>1 DEF UnguidedHead, TableInv
  <2>2. CASE CountUnstructuredOne
    BY <1>1, <1>2, <2>2 DEF CountUnstructuredOne, ProhibitInput, TableInv
  <2>3. CASE NoPairLeft
    BY <1>3, <2>3 DEF NoPairLeft
  <2>4. CASE CheckUnguided
    BY <1>1, <1>2, <2>4 DEF CheckUnguided, TableInv
  <2>5. QED
    BY <1>5, <2>1, <2>2, <2>3, <2>4 DEF UnguidedNext
<1>6. CASE AbortInToleranceMet \/ Sigterm \/ UNCHANGED vars
  BY <1>3, <1>6 DEF AbortInToleranceMet, Sigterm, vars, picVars
<1>7. CASE Report
  <2>1. DOMAIN buckets = {} => sum_outputs(buckets) = 0
    BY FS_EmptySet DEF sum_outputs
  <2>2. QED
    BY <1>1, <1>2, <1>7, <2>1 DEF Report, TableInv
<1>8. ~SyncNext
  BY DEF SyncNext, PrepareOutput, PrepareDone, SkipClosed, VisitOpen, VisitEmpty,
         CheckSync, PassDone, NextRound, TypeInv, PcInv
<1>9. QED
  BY <1>4, <1>5, <1>6, <1>7, <1>8 DEF Next, Step, DenseNext, Terminated

(* A loop that ends although nobody asked it to has counted something, if  *)
(* there is something to count.                                            *)
LEMMA LoopEnds ==
    ASSUME AnswerInv, [Next]_vars, pc # "report", pc' = "report", ~terminate', blockedIn' = {}
    PROVE  cnf = {}
<1> USE DEF AnswerInv, IInv
<1>1. ~terminate /\ blockedIn = {}
  BY Monotone
<1>2. AllCounted => cnf = {}
  BY <1>1 DEF AllCounted, ProgramInputs
<1>3. CASE BucketNext
  <2>1. NoOutputLeft
    BY <1>1, <1>3 DEF BucketNext, BucketHead, FindOutput, NoOutputLeft, BookPreimage, FindPreimage,
       NoPreimageLeft, LeaveBucket, TableInv, InBucketMode
  <2>2. BlockedComplete
    BY <1>1, <2>1 DEF NoOutputLeft, CompleteInv, BucketInv
  <2>3. QED
    BY <1>2, <2>1, <2>2, NoModelLeft DEF NoOutputLeft
<1>4. CASE UnguidedNext
  <2>1. NoPairLeft
    BY <1>1, <1>4 DEF UnguidedNext, UnguidedHead, CountUnstructuredOne, NoPairLeft, CheckUnguided,
       ProhibitInput, TableInv
  <2>2. BlockedComplete
    BY <2>1 DEF NoPairLeft, HistInv, BlockedOutInv, InBucketMode, BlockedComplete
  <2>3. QED
    BY <1>2, <2>1, <2>2, NoModelLeft DEF NoPairLeft
<1>5. CASE SyncNext
  <2>1. pc = "round" /\ mode = "sync"
    BY <1>1, <1>5 DEF SyncNext, PrepareOutput, PrepareDone, SkipClosed, VisitOpen, VisitEmpty,
       AfterVisit, CheckSync, PassDone, NextRound, TypeInv, PcInv
  <2>2. DOMAIN labels = {} /\ \A m \in cnf : Labelled(m)
    BY <1>1, <2>1 DEF NamedInv
  <2>3. QED
    BY <2>2 DEF Labelled
<1>6. CASE AbortInToleranceMet \/ Report \/ Sigterm \/ Terminated \/ UNCHANGED vars
  BY <1>6 DEF AbortInToleranceMet, Report, Sigterm, Terminated, vars, picVars
<1>7. QED
  BY <1>3, <1>4, <1>5, <1>6 DEF Next, Step, DenseNext

(* The ends of a run.                                                      *)
LEMMA EndStep == ASSUME AnswerInv, [Next]_vars PROVE EndInv'
<1> USE DEF AnswerInv, IInv
<1>1. UNCHANGED <<config, cnf>> /\ (terminate => terminate') /\ blockedIn \subseteq blockedIn'
  BY Monotone
<1>2. blockedIn' \subseteq ProgramInputs'
  <2>1. blockedIn' = blockedIn \/ \E m \in cnf : Counts(m)
    BY StepKinds, CountingStep, OtherStep DEF Report, Sigterm, vars, picVars
  <2>2. QED
    BY <1>1, <2>1 DEF EndInv, ProgramInputs, Counts
<1>3. ASSUME pc' = "uncaught" PROVE DOMAIN buckets' = {}
  <2>1. \/ FindOutput
        \/ UnguidedHead
        \/ pc = "uncaught" /\ buckets' = buckets
    BY <1>3 DEF Next, Step, DenseNext, SyncNext, BucketNext, UnguidedNext, PrepareDone, SkipClosed,
       PrepareOutput, VisitOpen, VisitEmpty, AfterVisit, CheckSync, PassDone, NextRound, BucketHead,
       FindOutput, NoOutputLeft, BookPreimage, FindPreimage, NoPreimageLeft, LeaveBucket,
       UnguidedHead, CountUnstructuredOne, NoPairLeft, CheckUnguided, AbortInToleranceMet, Report,
       Sigterm, Terminated, vars, picVars
  <2>2. CASE FindOutput
    <3>1. PICK m \in cnf : OutputValue(OutputOf(m)) \notin DOMAIN buckets
      BY <1>3, <2>2 DEF FindOutput, Models
    <3>2. mode # "sync" /\ OutputOf(m) \in Outputs
      BY <2>2, ModelType DEF FindOutput, InBucketMode
    <3>3. QED
      BY <2>2, <3>1, <3>2, ValueInTable DEF FindOutput
  <2>3. CASE UnguidedHead
    BY <1>3, <2>3 DEF UnguidedHead
  <2>4. QED
    BY <2>1, <2>2, <2>3 DEF EndInv
<1>4. ASSUME pc' = "report", ~terminate', blockedIn' = {} PROVE cnf' = {}
  <2>1. CASE pc # "report"
    BY <1>1, <1>4, <2>1, LoopEnds
  <2>2. CASE pc = "report"
    BY <1>1, <1>4, <2>2 DEF EndInv
  <2>3. QED
    BY <2>1, <2>2
<1>5. ASSUME pc' = "sigfpe" PROVE blockedIn' = {} /\ (cnf' = {} \/ terminate')
  <2>1. Report \/ (pc = "sigfpe" /\ UNCHANGED blockedIn)
    BY <1>5, StepKinds, CountingStep, OtherStep DEF Sigterm, Terminal, vars, picVars
  <2>2. CASE Report
    BY <1>1, <1>5, <2>2, NothingReported DEF Report, EndInv
  <2>3. CASE pc = "sigfpe" /\ UNCHANGED blockedIn
    BY <1>1, <2>3 DEF EndInv
  <2>4. QED
    BY <2>1, <2>2, <2>3
<1>6. QED
  BY <1>2, <1>3, <1>4, <1>5 DEF EndInv

(* All layers hold at the start.                                           *)
LEMMA AnswerInit == Init => AnswerInv
<1> SUFFICES ASSUME Init PROVE AnswerInv
  OBVIOUS
<1>1. NamedInv
  BY DEF Init, SyncInit, PICounterInit, NamedInv
<1>2. TableInv
  BY DEF Init, PICounterInit, TableInv
<1>3. EndInv
  BY DEF Init, PICounterInit, EndInv
<1>4. QED
  BY <1>1, <1>2, <1>3, CompleteInit DEF AnswerInv

(* The invariant the theorems below are read off from.                     *)
LEMMA AnswerInductive == Spec => []AnswerInv
<1>1. AnswerInv /\ [Next]_vars => AnswerInv'
  BY CompleteStep, NamedStep, TableStep, EndStep DEF AnswerInv, IInv
<1>2. QED
  BY AnswerInit, <1>1, PTL DEF Spec

(* The dense modes end in an exception only for a program without output   *)
(* variables, and then have counted nothing and give no answer.            *)
THEOREM NoTableCorrect == Spec => []NoTableNoAnswer
<1>1. AnswerInv => NoTableNoAnswer
  BY DEF AnswerInv, TableInv, EndInv, NoTableNoAnswer
<1>2. QED
  BY <1>1, AnswerInductive, PTL

(* The division by zero of the report needs a program without inputs, or a *)
(* request to stop before the first one is counted.                        *)
THEOREM ReportFailureCorrect == Spec => []ReportFailsOnlyOnNothing
<1>1. AnswerInv => ReportFailsOnlyOnNothing
  BY DEF AnswerInv, EndInv, ReportFailsOnlyOnNothing
<1>2. QED
  BY <1>1, AnswerInductive, PTL

-----------------------------------------------------------------------------
(* The bounds of the entropy.                                              *)

(* The inputs are finitely many, and at most as many as the input space.   *)
LEMMA InputsAreFew ==
    /\ IsFiniteSet(Inputs) /\ Cardinality(Inputs) \in Nat
    /\ Cardinality(Inputs) <= twoTo[Len(InputLits)]
<1>1. InputLits \in Seq(InputVars) /\ InputVars = Range(InputLits)
  BY LitsAssumption DEF InputVars
<1>2. IsFiniteSet(Inputs) /\ Cardinality(Inputs) <= twoTo[Len(InputLits)]
  BY <1>1, FewVectors DEF Inputs
<1>3. QED
  BY <1>2, FS_CardinalityType

(* When the tolerance is asked for, each input of the program belongs to   *)
(* exactly one bucket.                                                     *)
LEMMA EachInputHasItsBucket ==
    ASSUME AnswerInv, pc = "check"
    PROVE  \E f \in [ProgramInputs -> DOMAIN buckets] : \A k \in DOMAIN buckets :
               PreimageOfBucket(k) = {i \in ProgramInputs : f[i] = k}
<1> USE DEF AnswerInv, IInv
<1>1. ASSUME NEW m \in cnf
      PROVE  \E k \in DOMAIN buckets : InputOf(m) \in PreimageOfBucket(k)
  <2>1. CASE mode = "sync"
    <3>1. PICK k \in DOMAIN labels : labels[k].cube = OutputOf(m)
      BY <2>1 DEF NamedInv, Labelled
    <3>2. k \in DOMAIN buckets
      BY <2>1, <3>1 DEF TypeInv, TypeOK, HistogramType, SyncType
    <3>3. QED
      BY <2>1, <3>1, <3>2 DEF PreimageOfBucket, Preimage
  <2>2. CASE mode # "sync"
    <3>1. DOMAIN buckets # {} /\ OutputOf(m) \in Outputs
      BY <2>2, ModelType DEF TableInv
    <3>2. OutputValue(OutputOf(m)) \in DOMAIN buckets
      BY <2>2, <3>1, ValueInTable
    <3>3. QED
      BY <2>2, <3>2 DEF PreimageOfBucket, PreimageOfValue
  <2>3. QED
    BY <2>1, <2>2
<1>2. ASSUME NEW m \in cnf, NEW k \in DOMAIN buckets, NEW l \in DOMAIN buckets,
             InputOf(m) \in PreimageOfBucket(k), InputOf(m) \in PreimageOfBucket(l)
      PROVE  k = l
  <2>1. CASE mode = "sync"
    <3>1. OutputOf(m) = labels[k].cube /\ OutputOf(m) = labels[l].cube
      BY <1>2, <2>1, InPreimage DEF PreimageOfBucket, TypeInv
    <3>2. k \in DOMAIN labels /\ l \in DOMAIN labels
      BY <2>1 DEF TypeInv, TypeOK, HistogramType, SyncType
    <3>3. QED
      BY <2>1, <3>1, <3>2 DEF HistInv, LabelInv
  <2>2. CASE mode # "sync"
    BY <1>2, <2>2, InPreimage DEF PreimageOfBucket, TypeInv
  <2>3. QED
    BY <2>1, <2>2
<1> DEFINE f == [i \in ProgramInputs |-> CHOOSE k \in DOMAIN buckets : i \in PreimageOfBucket(k)]
<1>3. ASSUME NEW i \in ProgramInputs
      PROVE  /\ f[i] \in DOMAIN buckets
             /\ \A k \in DOMAIN buckets : i \in PreimageOfBucket(k) <=> f[i] = k
  <2>1. PICK m \in cnf : i = InputOf(m)
    BY DEF ProgramInputs
  <2>2. PICK k \in DOMAIN buckets : i \in PreimageOfBucket(k)
    BY <1>1, <2>1
  <2>3. f[i] \in DOMAIN buckets /\ i \in PreimageOfBucket(f[i])
    <3>1. f[i] = CHOOSE j \in DOMAIN buckets : i \in PreimageOfBucket(j)
      OBVIOUS
    <3> HIDE DEF f
    <3>2. QED
      BY <2>2, <3>1, Zenon
  <2> HIDE DEF f
  <2>4. QED
    BY <1>2, <2>1, <2>3
<1>4. f \in [ProgramInputs -> DOMAIN buckets]
  <2>1. f = [i \in ProgramInputs |-> f[i]]
    OBVIOUS
  <2> HIDE DEF f
  <2>2. QED
    BY <1>3, <2>1
<1>5. ASSUME NEW k \in DOMAIN buckets PROVE PreimageOfBucket(k) = {i \in ProgramInputs : f[i] = k}
  <2>1. PreimageOfBucket(k) \subseteq ProgramInputs
    BY DEF PreimageOfBucket, Preimage, PreimageOfValue, ProgramInputs
  <2> HIDE DEF f
  <2>2. QED
    BY <1>3, <2>1
<1> HIDE DEF f
<1>6. QED
  BY <1>4, <1>5

(* Then something is counted, so that max_id is assigned.                  *)
LEMMA SomethingIsCounted ==
    ASSUME AnswerInv, pc = "check"
    PROVE  \E k \in DOMAIN buckets : buckets[k].size > 0
<1> USE DEF AnswerInv, IInv
<1>1. blockedIn # {}
  <2>1. CASE mode = "sync"
    <3>1. cursor <= Len(labels) /\ cursor \in 1 .. Len(labels) + 1 /\ labels \in Seq(Labels)
      BY <2>1 DEF TypeInv, PcInv, TypeOK, SyncType
    <3>2. Len(labels) \in Nat /\ DOMAIN labels = 1 .. Len(labels)
      BY <3>1
    <3>3. cursor \in DOMAIN labels
      BY <3>1, <3>2
    <3>4. QED
      BY <2>1, <3>3 DEF NamedInv
  <2>2. CASE mode # "sync"
    BY <2>2 DEF TableInv
  <2>3. QED
    BY <2>1, <2>2
<1>2. PICK m \in cnf : InputOf(m) \in blockedIn
  BY <1>1 DEF EndInv, ProgramInputs
<1>3. PICK k \in DOMAIN buckets : InputOf(m) \in PreimageOfBucket(k)
  BY <1>2, HasBucket
<1>4. PICK C : C = blockedIn \cap PreimageOfBucket(k)
  OBVIOUS
<1>5. IsFiniteSet(C) /\ C # {}
  BY <1>2, <1>3, <1>4, FS_Subset DEF HistInv
<1>6. Cardinality(C) \in Nat /\ Cardinality(C) # 0
  BY <1>5, FS_CardinalityType, FS_EmptySet
<1>7. buckets[k].size = Cardinality(C)
  BY <1>4 DEF HistInv, HistogramIsOfCounted
<1>8. QED
  BY <1>6, <1>7

Sizes == [k \in DOMAIN buckets |-> buckets[k].size]

(* The histogram so far, the program's, and their sums.                    *)
LEMMA SizesAndFinalSizes ==
    ASSUME AnswerInv, pc = "check"
    PROVE  /\ IsFiniteSet(DOMAIN buckets)
           /\ Sizes \in [DOMAIN buckets -> Nat] /\ FinalSizes \in [DOMAIN buckets -> Nat]
           /\ \A k \in DOMAIN buckets : Sizes[k] <= FinalSizes[k]
           /\ \E su, sv :
                 /\ IsSum(su, Sizes, DOMAIN buckets) /\ IsSum(sv, FinalSizes, DOMAIN buckets)
                 /\ sum_buckets(buckets) = su[DOMAIN buckets]
                 /\ su[DOMAIN buckets] \in Nat /\ sv[DOMAIN buckets] \in Nat
                 /\ sv[DOMAIN buckets] <= Cardinality(Inputs)
<1> USE DEF AnswerInv, IInv
<1>1. IsFiniteSet(DOMAIN buckets) /\ \A k \in DOMAIN buckets : buckets[k].size \in Nat
  BY FiniteHistogram
<1>2. ProgramInputs \subseteq Inputs
  BY ModelType DEF ProgramInputs
<1>3. IsFiniteSet(ProgramInputs) /\ Cardinality(ProgramInputs) <= Cardinality(Inputs)
  BY <1>2, InputsAreFew, FS_Subset
<1>4. ASSUME NEW k \in DOMAIN buckets
      PROVE  /\ Cardinality(PreimageOfBucket(k)) \in Nat
             /\ buckets[k].size <= Cardinality(PreimageOfBucket(k))
  <2>1. PreimageOfBucket(k) \subseteq ProgramInputs
    BY DEF PreimageOfBucket, Preimage, PreimageOfValue, ProgramInputs
  <2>2. PICK P, C : P = PreimageOfBucket(k) /\ C = blockedIn \cap PreimageOfBucket(k) /\ C \subseteq P
    OBVIOUS
  <2>3. IsFiniteSet(P)
    BY <1>3, <2>1, <2>2, FS_Subset
  <2>4. Cardinality(P) \in Nat /\ Cardinality(C) <= Cardinality(P)
    BY <2>2, <2>3, FS_Subset, FS_CardinalityType
  <2>5. buckets[k].size = Cardinality(C)
    BY <2>2 DEF HistInv, HistogramIsOfCounted
  <2>6. QED
    BY <2>2, <2>4, <2>5
<1>5. Sizes \in [DOMAIN buckets -> Nat] /\ FinalSizes \in [DOMAIN buckets -> Nat]
  BY <1>1, <1>4 DEF Sizes, FinalSizes
<1>6. \A k \in DOMAIN buckets : Sizes[k] <= FinalSizes[k]
  BY <1>4 DEF Sizes, FinalSizes
<1>7. PICK su : IsSum(su, Sizes, DOMAIN buckets)
  BY <1>1, <1>5, SumExists
<1>8. PICK sv : IsSum(sv, FinalSizes, DOMAIN buckets)
  BY <1>1, <1>5, SumExists
<1>9. sum_buckets(buckets) = su[DOMAIN buckets]
  <2>1. \A k \in DOMAIN buckets : Sizes[k] = buckets[k].size
    BY DEF Sizes
  <2>2. QED
    BY <1>1, <1>7, <2>1, SumOfBuckets
<1>10. sv[DOMAIN buckets] = Cardinality(ProgramInputs)
  <2>1. PICK f \in [ProgramInputs -> DOMAIN buckets] : \A k \in DOMAIN buckets :
           PreimageOfBucket(k) = {i \in ProgramInputs : f[i] = k}
    BY EachInputHasItsBucket
  <2>2. PICK full : full = [k \in DOMAIN buckets |-> [size |-> FinalSizes[k], closed |-> FALSE]]
    OBVIOUS
  <2>3. DOMAIN full = DOMAIN buckets /\ \A k \in DOMAIN full : FinalSizes[k] = full[k].size
    BY <2>2
  <2>4. sum_buckets(full) = sv[DOMAIN full]
    BY <1>1, <1>8, <2>3, SumOfBuckets
  <2>5. \A k \in DOMAIN buckets : full[k].size = Cardinality({i \in ProgramInputs : f[i] = k})
    <3>1. SUFFICES ASSUME NEW k \in DOMAIN buckets
                   PROVE  full[k].size = Cardinality({i \in ProgramInputs : f[i] = k})
      OBVIOUS
    <3>2. full[k].size = Cardinality(PreimageOfBucket(k))
      BY <2>3, <3>1 DEF FinalSizes
    <3>3. QED
      BY <2>1, <3>1, <3>2
  <2>6. sum_buckets(full) = Cardinality(ProgramInputs)
    BY <1>1, <1>3, <2>1, <2>3, <2>5, SumOfClasses
  <2>7. QED
    BY <2>3, <2>4, <2>6
<1>11. su[DOMAIN buckets] \in Nat /\ sv[DOMAIN buckets] \in Nat
  BY <1>7, <1>8 DEF IsSum
<1>12. QED
  BY <1>1, <1>3, <1>5, <1>6, <1>7, <1>8, <1>9, <1>10, <1>11

(* The bounds that tolerance_met computes.                                 *)
LEMMA BoundsBracket == AnswerInv => BoundsBracketTheEntropy
<1> SUFFICES ASSUME AnswerInv, pc = "check"
             PROVE  LET found == sum_buckets(buckets)
                        final == shannon_entropy(FinalSizes)
                    IN  /\ \E k \in DOMAIN buckets : buckets[k].size > 0
                        /\ shannon_entropy_lower_bound(buckets, allpreimages, found) <= final
                        /\ final <= shannon_entropy_upper_bound(buckets, allpreimages, found)
  BY DEF BoundsBracketTheEntropy
<1> DEFINE D == DOMAIN buckets
           found == sum_buckets(buckets)
           top == LargestBucket(buckets)
           residum == allpreimages - found
           worst == [k \in D |-> buckets[k].size + (IF k = top THEN residum ELSE 0)]
<1>1. PICK low \in D : buckets[low].size > 0
  BY SomethingIsCounted
<1>2. /\ IsFiniteSet(D) /\ Sizes \in [D -> Nat] /\ FinalSizes \in [D -> Nat]
      /\ \A k \in D : Sizes[k] <= FinalSizes[k] /\ Sizes[k] = buckets[k].size
  BY SizesAndFinalSizes DEF Sizes
<1>3. PICK su, sv :
         /\ IsSum(su, Sizes, D) /\ IsSum(sv, FinalSizes, D)
         /\ found = su[D] /\ su[D] \in Nat /\ sv[D] \in Nat
         /\ sv[D] <= Cardinality(Inputs)
  BY SizesAndFinalSizes
<1>4. su[D] <= sv[D] /\ \A k \in D : Sizes[k] <= su[D] /\ FinalSizes[k] <= sv[D]
  <2>1. su[D] <= sv[D] /\ \A k \in D : Sizes[k] <= su[D]
    BY <1>2, <1>3, SumsGrow
  <2>2. \A k \in D : FinalSizes[k] <= FinalSizes[k]
    BY <1>2
  <2>3. \A k \in D : FinalSizes[k] <= sv[D]
    BY <1>2, <1>3, <2>2, SumsGrow
  <2>4. QED
    BY <2>1, <2>3
<1>5. D \in SUBSET Nat
  <2>1. CASE mode = "sync"
    BY <2>1 DEF AnswerInv, IInv, TypeInv, TypeOK, HistogramType
  <2>2. CASE mode # "sync"
    <3>1. D = 0 .. space_size(Len(OutputLits)) - 1
      BY <2>2 DEF AnswerInv, IInv, TypeInv, TypeOK, HistogramType
    <3>2. QED
      BY <3>1
  <2>3. QED
    BY <2>1, <2>2
<1>6. top \in D /\ \A k \in D : Sizes[k] <= Sizes[top]
  <2>1. \A k \in DOMAIN buckets : buckets[k].size \in Nat
    BY <1>2
  <2>2. top \in D /\ \A k \in D : buckets[k].size <= buckets[top].size
    BY <1>1, <1>2, <1>5, <2>1, LargestBucketIs
  <2> HIDE DEF top
  <2>3. QED
    BY <1>2, <2>2
<1>7. /\ shannon_entropy_lower_bound(buckets, allpreimages, found) = shannon_entropy(Sizes)
      /\ shannon_entropy_upper_bound(buckets, allpreimages, found) = shannon_entropy(worst)
  BY Zenon DEF shannon_entropy_lower_bound, shannon_entropy_upper_bound, Sizes
<1>8. shannon_entropy(Sizes) <= shannon_entropy(FinalSizes)
  BY <1>2, EntropyGrows
<1>9. PICK n \in Nat, all \in Nat, few \in Nat :
         /\ n = Len(InputLits) /\ all = allpreimages /\ few = Cardinality(Inputs)
         /\ n = 0 => all = 0 /\ few <= 1
         /\ n # 0 => few <= all
  <2>1. Len(InputLits) \in Nat
    BY LitsAssumption
  <2>2. twoTo[Len(InputLits)] \in Nat /\ twoTo[0] = 1
    BY <2>1, TwoTo
  <2>3. Cardinality(Inputs) \in Nat /\ Cardinality(Inputs) <= twoTo[Len(InputLits)]
    BY InputsAreFew
  <2>4. QED
    BY <2>1, <2>2, <2>3 DEF allpreimages, space_size
<1>10. shannon_entropy(FinalSizes) <= shannon_entropy(worst)
  <2>1. CASE n # 0
    <3>1. PICK r \in Nat : r = residum /\ sv[D] <= su[D] + r
      <4>1. PICK i \in Nat, j \in Nat : i = su[D] /\ j = sv[D]
        BY <1>3
      <4>2. i <= j /\ j <= all /\ residum = all - i
        BY <1>3, <1>4, <1>9, <2>1, <4>1
      <4>3. all - i \in Nat /\ j <= i + (all - i)
        BY <4>2
      <4>4. QED
        BY <4>1, <4>2, <4>3
    <3>2. worst = [k \in D |-> Sizes[k] + (IF k = top THEN r ELSE 0)]
      <4>1. \A k \in D : Sizes[k] = buckets[k].size
        BY <1>2
      <4> HIDE DEF top, residum
      <4>2. QED
        BY <3>1, <4>1
    <3> HIDE DEF top, D, worst
    <3>3. shannon_entropy(FinalSizes)
            <= shannon_entropy([k \in D |-> Sizes[k] + (IF k = top THEN r ELSE 0)])
      BY <1>2, <1>3, <1>6, <3>1, LargestTakesAll
    <3>4. QED
      BY <3>2, <3>3
  <2>2. CASE n = 0
    <3>1. PICK i \in Nat, j \in Nat : i = su[D] /\ j = sv[D] /\ i <= j /\ j <= 1
      BY <1>3, <1>4, <1>9, <2>2
    <3>2. \A k \in D : Sizes[k] \in {0, 1} /\ FinalSizes[k] \in {0, 1}
      BY <1>2, <1>4, <3>1
    <3>3. Sizes[low] = 1 /\ i = 1
      BY <1>1, <1>2, <1>4, <3>1, <3>2
    <3>4. residum = -1 /\ Sizes[top] = 1
      <4>1. residum = -1
        BY <1>3, <1>9, <2>2, <3>1, <3>3
      <4>2. Sizes[top] = 1
        BY <1>6, <3>2, <3>3
      <4>3. QED
        BY <4>1, <4>2
    <3>5. worst \in [D -> {0, 1}]
      <4>1. ASSUME NEW k \in D
            PROVE  buckets[k].size + (IF k = top THEN residum ELSE 0) \in {0, 1}
        <5>1. buckets[k].size \in {0, 1} /\ (k = top => buckets[k].size = 1)
          BY <1>2, <3>2, <3>4
        <5> HIDE DEF top, residum
        <5>2. QED
          BY <3>4, <5>1
      <4>2. QED
        BY <4>1
    <3>6. FinalSizes \in [D -> {0, 1}]
      BY <1>2, <3>2
    <3> HIDE DEF worst, D
    <3>7. shannon_entropy(FinalSizes) = 1 /\ shannon_entropy(worst) = 1
      BY <1>2, <3>5, <3>6, SingletonsWeighNothing
    <3>8. QED
      BY <3>7
  <2>3. QED
    BY <2>1, <2>2
<1> HIDE DEF worst
<1>11. QED
  BY <1>1, <1>7, <1>8, <1>10

(* Whenever a run asks for the tolerance, the entropy of the program lies  *)
(* between the two bounds, whatever is still to be counted, and there is a *)
(* largest bucket to put the missing inputs into.                          *)
THEOREM BoundsCorrect == Spec => []BoundsBracketTheEntropy
  BY AnswerInductive, BoundsBracket, PTL

-----------------------------------------------------------------------------
(* The refinement. The abstract histogram is a function of what is counted:*)
(* each output value has the number of its counted inputs.                 *)
HistIsOfCounted ==
    \A value \in OutputValues :
        HistOf(value) = Cardinality(blockedIn \cap PreimageOfValue(value))

(* The bucket of an output value holds the counted inputs with that value, *)
(* and if it has none, no such input is counted.                           *)
LEMMA HistCounts == AnswerInv => HistIsOfCounted
<1> SUFFICES ASSUME AnswerInv, NEW value \in OutputValues
             PROVE  HistOf(value) = Cardinality(blockedIn \cap PreimageOfValue(value))
  BY DEF HistIsOfCounted
<1> USE DEF AnswerInv, IInv
<1>1. PICK o \in Outputs : value = OutputValue(o)
  BY DEF OutputValues
<1>2. CASE BucketsOf(value) = {}
  <2>1. SUFFICES ASSUME NEW m \in cnf, InputOf(m) \in blockedIn, OutputValue(OutputOf(m)) = value
                 PROVE  FALSE
    <3>1. SUFFICES blockedIn \cap PreimageOfValue(value) = {}
      BY <1>2, FS_EmptySet DEF HistOf
    <3>2. QED
      BY <2>1 DEF PreimageOfValue
  <2>2. CASE mode = "sync"
    <3>1. PICK k \in DOMAIN labels : labels[k].cube = OutputOf(m)
      BY <2>1, <2>2 DEF HistInv, LabelInv, Labelled
    <3>2. k \in DOMAIN buckets /\ labels[k].output = value
      BY <2>1, <2>2, <3>1 DEF NamedInv, TypeInv, TypeOK, HistogramType, SyncType
    <3>3. QED
      BY <1>2, <2>2, <3>2 DEF BucketsOf
  <2>3. CASE mode # "sync"
    <3>1. value \in DOMAIN buckets
      BY <1>1, <2>1, <2>3, ValueInTable DEF TableInv
    <3>2. QED
      BY <1>2, <2>3, <3>1 DEF BucketsOf
  <2>4. QED
    BY <2>2, <2>3
<1>3. CASE BucketsOf(value) # {}
  <2>1. PICK k \in BucketsOf(value) : HistOf(value) = buckets[k].size
    BY <1>3 DEF HistOf
  <2>2. k \in DOMAIN buckets
    BY <2>1 DEF BucketsOf
  <2>3. PreimageOfBucket(k) = PreimageOfValue(value)
    <3>1. CASE mode = "sync"
      <4>1. k \in DOMAIN labels /\ labels[k].output = value
        BY <2>1, <2>2, <3>1 DEF BucketsOf, TypeInv, TypeOK, HistogramType, SyncType
      <4>2. labels[k].cube \in Outputs /\ OutputValue(labels[k].cube) = value
        BY <3>1, <4>1, ModelType DEF NamedInv
      <4>3. \A m \in cnf : OutputOf(m) = labels[k].cube <=> OutputValue(OutputOf(m)) = value
        BY <4>2, ModelType, ValueNamesOutput
      <4>4. QED
        BY <3>1, <4>3 DEF PreimageOfBucket, Preimage, PreimageOfValue
    <3>2. CASE mode # "sync"
      BY <2>1, <3>2 DEF BucketsOf, PreimageOfBucket
    <3>3. QED
      BY <3>1, <3>2
  <2>4. QED
    BY <2>1, <2>2, <2>3 DEF HistInv, HistogramIsOfCounted
<1>4. QED
  BY <1>2, <1>3

Hist == [value \in OutputValues |-> HistOf(value)]

(* The abstract program: pairs of an input and the value of its output.    *)
LEMMA RelationIsProgram == ASSUME TypeInv PROVE Counter!IsProgram(RelationOf(cnf))
<1>1. \A m \in cnf : OutputValue(OutputOf(m)) \in OutputValues
  BY ModelType DEF OutputValues
<1>2. \A m, n \in cnf : InputOf(m) = InputOf(n) => OutputOf(m) = OutputOf(n)
  BY Functional DEF TypeInv
<1> DEFINE r == RelationOf(cnf)
<1>3. ASSUME NEW p \in r
      PROVE  \E m \in cnf : p = <<InputOf(m), OutputValue(OutputOf(m))>>
  BY DEF RelationOf
<1>4. \A p \in r : p[1] = p[1] /\ \E value \in OutputValues : p = <<p[1], value>>
  BY <1>1, <1>3
<1>5. ASSUME NEW p \in r, NEW q \in r, p[1] = q[1] PROVE p = q
  BY <1>2, <1>3, <1>5
<1> HIDE DEF r
<1>6. QED
  BY <1>4, <1>5 DEF Counter!IsProgram, r

(* Counting a model is the abstract step that counts its pair.             *)
LEMMA CountingRefines ==
    ASSUME AnswerInv, HistIsOfCounted, HistIsOfCounted', NEW m \in cnf, Counts(m),
           UNCHANGED <<config, cnf, terminate>>, pc \notin Terminal, pc' \notin Terminal
    PROVE  Counter!Count
<1> USE DEF AnswerInv, IInv
<1> DEFINE x == InputOf(m)
           v == OutputValue(OutputOf(m))
<1>1. <<x, v>> \in RelationOf(cnf) /\ <<x, v>>[1] = x /\ <<x, v>>[2] = v
  BY DEF RelationOf
<1>2. v \in OutputValues
  BY ModelType DEF OutputValues
<1>3. Hist' = [Hist EXCEPT ![v] = @ + 1]
  <2>1. ASSUME NEW value \in OutputValues
        PROVE  HistOf(value)' = HistOf(value) + (IF value = v THEN 1 ELSE 0)
    <3> DEFINE P == PreimageOfValue(value)
    <3>1. HistOf(value) = Cardinality(blockedIn \cap P)
      BY DEF HistIsOfCounted
    <3>2. HistOf(value)' = Cardinality(blockedIn' \cap P')
      <4>1. OutputValues' = OutputValues
        BY DEF OutputValues, Outputs, OutputValue
      <4>2. QED
        BY <4>1 DEF HistIsOfCounted
    <3>3. P' = P
      BY DEF PreimageOfValue
    <3>4. x \in P <=> value = v
      BY InPreimage DEF TypeInv
    <3>5. blockedIn' = blockedIn \cup {x} /\ x \notin blockedIn /\ IsFiniteSet(blockedIn)
      BY DEF Counts, HistInv
    <3> HIDE DEF P, x, v
    <3>6. Cardinality((blockedIn \cup {x}) \cap P) =
              Cardinality(blockedIn \cap P) + (IF x \in P THEN 1 ELSE 0)
      BY <3>5, OneMore
    <3>7. Cardinality(blockedIn' \cap P') = Cardinality((blockedIn \cup {x}) \cap P)
      BY <3>3, <3>5, Zenon
    <3>8. QED
      BY <3>1, <3>2, <3>4, <3>6, <3>7
  <2>2. \A value \in OutputValues : HistOf(value) \in Nat
    <3>1. \A value : IsFiniteSet(blockedIn \cap PreimageOfValue(value))
      BY FS_Subset DEF HistInv
    <3>2. QED
      BY <3>1, FS_CardinalityType DEF HistIsOfCounted
  <2>3. Hist' = [value \in OutputValues |-> HistOf(value)']
    BY DEF Hist, OutputValues, Outputs, OutputValue
  <2> HIDE DEF v
  <2>4. [Hist EXCEPT ![v] = @ + 1] =
            [value \in OutputValues |-> IF value = v THEN HistOf(value) + 1 ELSE HistOf(value)]
    BY DEF Hist
  <2>5. QED
    BY <2>1, <2>2, <2>3, <2>4
<1>4. RelationOf(cnf)' = RelationOf(cnf)
  BY DEF RelationOf
<1> HIDE DEF x, v
<1>5. x \notin blockedIn /\ blockedIn' = blockedIn \cup {x}
  BY DEF Counts, x
<1>6. pc \notin {"done", "sigfpe"} /\ pc' \notin {"done", "sigfpe"}
  BY DEF Terminal
<1>7. (terminate \/ config.tolerance # Off)' = (terminate \/ config.tolerance # Off)
  OBVIOUS
<1>8. (pc \in {"done", "sigfpe"})' = (pc \in {"done", "sigfpe"})
  BY <1>6
<1>9. \E pair \in RelationOf(cnf) :
        /\ pair[1] \notin blockedIn
        /\ blockedIn' = blockedIn \cup {pair[1]}
        /\ Hist' = [Hist EXCEPT ![pair[2]] = @ + 1]
  BY <1>1, <1>3, <1>5
<1>10. QED
  BY <1>4, <1>6, <1>7, <1>8, <1>9, Zenon DEF Counter!Count, Hist

(* A step that counts nothing leaves the abstract histogram as it is.      *)
LEMMA HistStays ==
    ASSUME HistIsOfCounted, HistIsOfCounted', UNCHANGED <<cnf, blockedIn>>
    PROVE  UNCHANGED <<RelationOf(cnf), blockedIn, Hist>>
<1>1. OutputValues' = OutputValues
  BY DEF OutputValues, Outputs, OutputValue
<1>2. \A value : PreimageOfValue(value)' = PreimageOfValue(value)
  BY DEF PreimageOfValue
<1>3. \A value \in OutputValues : HistOf(value)' = HistOf(value)
  BY <1>1, <1>2 DEF HistIsOfCounted
<1>4. Hist' = Hist
  BY <1>1, <1>3 DEF Hist
<1>5. QED
  BY <1>4 DEF RelationOf

(* The report is the abstract answer: it is not early unless that is       *)
(* allowed.                                                                *)
LEMMA ReportRefines ==
    ASSUME AnswerInv, AnswerInv', HistIsOfCounted, HistIsOfCounted', Report
    PROVE  Counter!Answer
<1>1. UNCHANGED <<config, cnf, blockedIn, terminate>> /\ pc = "report" /\ pc' \in {"done", "sigfpe"}
  BY DEF Report
<1>2. UNCHANGED <<RelationOf(cnf), blockedIn, Hist>>
  BY <1>1, HistStays
<1>3. (terminate \/ config.tolerance # Off) \/ blockedIn = Counter!AllInputs
  <2>1. SUFFICES ASSUME ~terminate, config.tolerance = Off PROVE blockedIn = Counter!AllInputs
    OBVIOUS
  <2>2. AllCounted'
    BY <1>1, <2>1 DEF AnswerInv, IInv, CompleteInv, ExhaustInv
  <2>3. ProgramInputs' = ProgramInputs
    BY <1>1 DEF ProgramInputs
  <2>4. blockedIn = ProgramInputs
    BY <1>1, <2>2, <2>3 DEF AllCounted, AnswerInv, EndInv
  <2>5. Counter!AllInputs = ProgramInputs
    <3> DEFINE r == RelationOf(cnf)
    <3>1. \A m \in cnf : <<InputOf(m), OutputValue(OutputOf(m))>> \in r
      BY DEF RelationOf
    <3>2. \A p \in r : \E m \in cnf : p[1] = InputOf(m)
      BY DEF RelationOf
    <3>3. \A m \in cnf : \E p \in r : p[1] = InputOf(m)
      BY <3>1
    <3> HIDE DEF r
    <3>4. {pair[1] : pair \in r} = {InputOf(m) : m \in cnf}
      BY <3>2, <3>3
    <3>5. QED
      BY <3>4 DEF Counter!AllInputs, ProgramInputs, r
  <2>6. QED
    BY <2>4, <2>5
<1>4. (terminate \/ config.tolerance # Off)' = (terminate \/ config.tolerance # Off)
  BY <1>1
<1>5. ~(pc \in {"done", "sigfpe"}) /\ (pc \in {"done", "sigfpe"})' = TRUE
  BY <1>1
<1>6. QED
  BY <1>2, <1>3, <1>4, <1>5, Zenon DEF Counter!Answer, Hist

(* SIGTERM allows an early answer, or kills the run before any.            *)
LEMMA SigtermRefines ==
    ASSUME AnswerInv, HistIsOfCounted, HistIsOfCounted', Sigterm
    PROVE  Counter!AllowStop \/ UNCHANGED Counter!vars
<1>1. UNCHANGED <<config, cnf, blockedIn>> /\ pc \notin {"done", "sigfpe"}
  BY DEF Sigterm, Terminal
<1>2. UNCHANGED <<RelationOf(cnf), blockedIn, Hist>>
  BY <1>1, HistStays
<1>3. CASE config.handler
  <2>1. (terminate \/ config.tolerance # Off)' = TRUE
    BY <1>1, <1>3 DEF Sigterm
  <2>2. (pc \in {"done", "sigfpe"})' = (pc \in {"done", "sigfpe"})
    BY <1>3 DEF Sigterm
  <2>3. QED
    BY <1>1, <1>2, <2>1, <2>2, Zenon DEF Counter!AllowStop, Hist
<1>4. CASE ~config.handler
  <2>1. (terminate \/ config.tolerance # Off)' = (terminate \/ config.tolerance # Off)
    BY <1>1, <1>4 DEF Sigterm
  <2>2. (pc \in {"done", "sigfpe"})' = (pc \in {"done", "sigfpe"})
    <3>1. pc' = "killed"
      BY <1>4 DEF Sigterm
    <3>2. QED
      BY <1>1, <3>1
  <2>3. QED
    BY <1>2, <2>1, <2>2, Zenon DEF Counter!vars, Hist
<1>5. QED
  BY <1>3, <1>4

(* The other steps are invisible.                                          *)
LEMMA OthersStutter ==
    ASSUME HistIsOfCounted, HistIsOfCounted', UNCHANGED <<config, cnf, blockedIn, terminate>>,
           pc \in {"done", "sigfpe"} <=> pc' \in {"done", "sigfpe"}
    PROVE  UNCHANGED Counter!vars
<1>1. UNCHANGED <<RelationOf(cnf), blockedIn, Hist>>
  BY HistStays
<1>2. (terminate \/ config.tolerance # Off)' = (terminate \/ config.tolerance # Off)
  OBVIOUS
<1>3. (pc \in {"done", "sigfpe"})' = (pc \in {"done", "sigfpe"})
  OBVIOUS
<1>4. QED
  BY <1>1, <1>2, <1>3, Zenon DEF Counter!vars, Hist

(* Every mode implements PreimageCount: whatever its strategy, a run       *)
(* counts each input once, for the output it has; it answers when all are  *)
(* counted, or earlier if a tolerance or a request to stop allows it; a    *)
(* run that fails or is killed gives no answer.                            *)
THEOREM RefinementCorrect == Spec => ImplementsPreimageCount
<1>1. Init /\ AnswerInv /\ HistIsOfCounted => Counter!Init
  <2> SUFFICES ASSUME Init, AnswerInv, HistIsOfCounted PROVE Counter!Init
    OBVIOUS
  <2>1. blockedIn = {} /\ cnf \in CNFs /\ pc \notin {"done", "sigfpe"}
    BY DEF Init, PICounterInit
  <2>2. RelationOf(cnf) \in {RelationOf(clauses) : clauses \in CNFs}
    BY <2>1
  <2>3. Counter!IsProgram(RelationOf(cnf))
    BY RelationIsProgram DEF AnswerInv, IInv
  <2>4. \A value \in OutputValues : HistOf(value) = 0
    BY <2>1, FS_EmptySet DEF HistIsOfCounted
  <2>5. Hist = [value \in OutputValues |-> 0]
    BY <2>4 DEF Hist
  <2>6. (terminate \/ config.tolerance # Off) \in BOOLEAN
    BY DEF Init, PICounterInit
  <2>7. (pc \in {"done", "sigfpe"}) = FALSE
    BY <2>1
  <2>8. QED
    BY <2>1, <2>2, <2>3, <2>5, <2>6, <2>7, Zenon DEF Counter!Init, Hist
<1>2. /\ AnswerInv /\ HistIsOfCounted
      /\ AnswerInv' /\ HistIsOfCounted'
      /\ [Next]_vars
      => [Counter!Next]_(Counter!vars)
  <2> SUFFICES ASSUME AnswerInv, HistIsOfCounted, AnswerInv', HistIsOfCounted', [Next]_vars
               PROVE  Counter!Next \/ UNCHANGED Counter!vars
    OBVIOUS
  <2>1. CASE BookPreimage \/ CountUnstructuredOne \/ PrepareOutput \/ VisitOpen
    <3>1. /\ \E m \in cnf : Counts(m)
          /\ UNCHANGED <<config, cnf, terminate>>
          /\ pc \notin Terminal /\ pc' \notin Terminal
      BY <2>1, CountingStep DEF AnswerInv, IInv
    <3>2. Counter!Count
      BY <3>1, CountingRefines
    <3>3. QED
      BY <3>2 DEF Counter!Next
  <2>2. CASE /\ BucketNext \/ UnguidedNext \/ SyncNext \/ AbortInToleranceMet
             /\ ~(BookPreimage \/ CountUnstructuredOne \/ PrepareOutput \/ VisitOpen)
    <3>1. /\ UNCHANGED <<config, cnf, blockedIn, terminate>>
          /\ pc \notin Terminal /\ pc' \notin {"done", "sigfpe"}
      BY <2>2, OtherStep DEF AnswerInv, IInv
    <3>2. pc \in {"done", "sigfpe"} <=> pc' \in {"done", "sigfpe"}
      BY <3>1 DEF Terminal
    <3>3. QED
      BY <3>1, <3>2, OthersStutter
  <2>3. CASE Report
    BY <2>3, ReportRefines DEF Counter!Next
  <2>4. CASE Sigterm
    BY <2>4, SigtermRefines DEF Counter!Next
  <2>5. CASE UNCHANGED vars
    <3>1. UNCHANGED <<config, cnf, blockedIn, terminate, pc>>
      BY <2>5 DEF vars, picVars
    <3>2. QED
      BY <3>1, OthersStutter
  <2>6. QED
    BY <2>1, <2>2, <2>3, <2>4, <2>5, StepKinds
<1>3. QED
  BY <1>1, <1>2, AnswerInductive, HistCounts, PTL DEF Spec, ImplementsPreimageCount, Counter!Spec

=============================================================================
