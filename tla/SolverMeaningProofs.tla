------------------------ MODULE SolverMeaningProofs -------------------------
(***************************************************************************)
(* What the solver's clauses say, what is propagated, and that the answers *)
(* are right, for every number of variables, all clauses and all questions *)
(* the caller may have.                                                    *)
(*                                                                         *)
(* MeaningInv compares the models of all that was added with those of the  *)
(* clauses and assignments kept, over total assignments of all variables   *)
(* there can be; on top of BaseInv (SolverProofs) it is inductive. The     *)
(* hard step is the learnt clause: in every model of the clauses, the walk *)
(* of analyze() always has seen an assignment that the model does not      *)
(* share.                                                                  *)
(*                                                                         *)
(* PropagatedInv says of every clause with a false watch that propagate()  *)
(* has been past that it is true, and was before the level of that watch   *)
(* ended: the blockers and the lazy watches forget nothing.                *)
(*                                                                         *)
(* The rest shows that every step of the solver is a step or a stutter of  *)
(* SatOracle:                                                              *)
(*   MentionedInv  what the client mentions is among OracleVars            *)
(*   OriginInv     a clause kept is part of one that was added             *)
(*   PendingInv    an answer is pending while the solver works             *)
(*   AssumedInv    the first levels of the trail are the assumptions'      *)
(* "sat" is right because no clause stays open when all decision variables *)
(* are assigned; "unsat" because the variables that analyzeFinal has seen  *)
(* are closed: a model that does not share one of their assignments does   *)
(* not share one of the assumptions reported.                              *)
(*                                                                         *)
(* At the end, the DIMACS file written for a question: numbering variables *)
(* as they are met renames the models of a formula one to one, and between *)
(* two questions the clauses left out are those the root level satisfies.  *)
(***************************************************************************)
EXTENDS SolverProofs

(* Upwards from 0.                                                         *)
LEMMA Ascent ==
    ASSUME NEW n \in Nat, NEW G, 0 \in G, \A i \in 0 .. n - 1 : i \in G => i + 1 \in G
    PROVE  \A i \in 0 .. n : i \in G
<1> DEFINE Bad == {i \in 0 .. n : i \notin G}
<1>1. SUFFICES ASSUME Bad # {} PROVE FALSE
  OBVIOUS
<1>2. Bad \in SUBSET Nat
  OBVIOUS
<1>3. PICK k \in Bad : \A j \in Bad : k <= j
  BY <1>1, <1>2, Least
<1>4. k \in 0 .. n /\ k \notin G /\ k # 0
  OBVIOUS
<1>5. k - 1 \in 0 .. n - 1 /\ k - 1 \in 0 .. n /\ ~(k <= k - 1) /\ (k - 1) + 1 = k
  BY <1>4
<1>6. k - 1 \in G
  BY <1>3, <1>5
<1>7. QED
  BY <1>4, <1>5, <1>6

(* The position i leads only to S, if f tells which earlier ones do.       *)
CoveredAt(i, S, f) ==
    LET v == var(trail[i])
    IN  \/ level(v) = 0
        \/ v \in S
        \/ db.reason[v] # CRef_Undef /\ \A q \in Antecedents(v) :
             \E j \in 1 .. (i - 1) : trail[j] = neg(q) /\ f[j]

(* The fold that litRedundant's search is modelled by does what its body   *)
(* says at every position of the trail.                                    *)
LEMMA CoveredIs ==
    ASSUME Len(trail) \in Nat, DOMAIN trail = 1 .. Len(trail), NEW S
    PROVE  \A i \in 1 .. Len(trail) : Covered(S)[i] <=> CoveredAt(i, S, Covered(S))
<1> DEFINE n == Len(trail)
           F(f) == [i \in DOMAIN trail |-> CoveredAt(i, S, f)]
           Partial(i, f) == /\ f = [j \in 1 .. i |-> f[j]]
                            /\ \A j \in 1 .. i : f[j] = CoveredAt(j, S, f)
           G == {i \in 0 .. n : \E f : Partial(i, f)}
           c == Covered(S)
<1>1. c = CHOOSE f : f = F(f)
  BY Zenon DEF Covered, CoveredAt
<1>2. ASSUME NEW f, NEW g, NEW i \in 1 .. n, \A j \in 1 .. i - 1 : f[j] = g[j]
      PROVE  CoveredAt(i, S, f) = CoveredAt(i, S, g)
  BY <1>2 DEF CoveredAt
<1>3. \E f : f = F(f)
  <2>1. 0 \in G
    <3> DEFINE f == [j \in 1 .. 0 |-> FALSE]
    <3>1. Partial(0, f)
      OBVIOUS
    <3>2. \E h : Partial(0, h)
      BY <3>1
    <3> HIDE DEF Partial
    <3>3. QED
      BY <3>2
  <2>2. ASSUME NEW i \in 0 .. n - 1, i \in G PROVE i + 1 \in G
    <3>1. PICK f : Partial(i, f)
      BY <2>2
    <3> DEFINE e == CoveredAt(i + 1, S, f)
               h == [j \in 1 .. i + 1 |-> IF j = i + 1 THEN e ELSE f[j]]
    <3> HIDE DEF e
    <3>2. DOMAIN h = 1 .. i + 1 /\ h[i + 1] = e /\ \A j \in 1 .. i : h[j] = f[j]
      OBVIOUS
    <3>3. h = [j \in 1 .. i + 1 |-> h[j]]
      OBVIOUS
    <3> HIDE DEF h
    <3>4. ASSUME NEW j \in 1 .. i + 1 PROVE h[j] = CoveredAt(j, S, h)
      <4>1. j \in 1 .. n /\ \A k \in 1 .. j - 1 : k \in 1 .. i
        OBVIOUS
      <4>2. CoveredAt(j, S, h) = CoveredAt(j, S, f)
        BY <1>2, <3>2, <4>1
      <4>3. CASE j = i + 1
        BY <3>2, <4>2, <4>3 DEF e
      <4>4. CASE j # i + 1
        <5>1. j \in 1 .. i
          BY <4>4
        <5>2. f[j] = CoveredAt(j, S, f) /\ h[j] = f[j]
          BY <3>1, <3>2, <5>1
        <5>3. QED
          BY <4>2, <5>2
      <4>5. QED
        BY <4>3, <4>4
    <3>5. Partial(i + 1, h)
      BY <3>3, <3>4
    <3>6. i + 1 \in 0 .. n
      OBVIOUS
    <3> HIDE DEF Partial
    <3>7. QED
      BY <3>5, <3>6
  <2> HIDE DEF Partial, G
  <2>3. n \in G
    <3>1. n \in 0 .. n
      OBVIOUS
    <3>2. QED
      BY <2>1, <2>2, <3>1, Ascent
  <2>4. PICK f : Partial(n, f)
    BY <2>3 DEF G
  <2>5. f = F(f)
    <3>1. f = [j \in 1 .. n |-> f[j]] /\ \A j \in 1 .. n : f[j] = CoveredAt(j, S, f)
      BY <2>4, Zenon DEF Partial
    <3>2. [j \in 1 .. n |-> f[j]] = F(f)
      BY <3>1
    <3> HIDE DEF F
    <3>3. QED
      BY <3>1, <3>2, Zenon
  <2>6. QED
    BY <2>5
<1> HIDE DEF F, c
<1>4. c = F(c)
  BY <1>1, <1>3
<1>5. c = [i \in DOMAIN trail |-> CoveredAt(i, S, c)]
  BY <1>4, Zenon DEF F
<1>6. ASSUME NEW i \in 1 .. n PROVE c[i] <=> CoveredAt(i, S, c)
  <2> DEFINE body(j) == CoveredAt(j, S, c)
  <2> HIDE DEF body
  <2>1. c = [j \in DOMAIN trail |-> body(j)]
    BY <1>5 DEF body
  <2>2. c[i] = body(i)
    BY <2>1
  <2>3. QED
    BY <2>2 DEF body
<1>7. QED
  BY <1>6 DEF c

-----------------------------------------------------------------------------
(* A total assignment of all variables there can be.                       *)
Total(m) == m \in SUBSET Nat /\ \A p \in Nat : p \in m <=> neg(p) \notin m

(* The clauses R of d hold in m.                                           *)
HoldIn(m, d, R) == \A cr \in R : \E q \in ToSet(lits(d, cr)) : q \in m

(* The assignments of the root level.                                      *)
RootLen(t, lim) == IF Len(lim) = 0 THEN Len(t) ELSE lim[1]
RootsIn(m, t, lim) == \A i \in 1 .. RootLen(t, lim) : t[i] \in m

(* m satisfies everything that was added exactly if it satisfies what is   *)
(* kept of it; then it satisfies what was learnt, too.                     *)
MeaningAt(m) ==
    /\ Satisfies(m, added) <=>
         ok /\ HoldIn(m, db, db.clauses) /\ RootsIn(m, trail, trail_lim)
    /\ Satisfies(m, added) => HoldIn(m, db, db.learnts)
MeaningInv == \A m : Total(m) => MeaningAt(m)

(* m falsifies an assignment of a variable in S.                           *)
Broken(m, S) == \E j \in 1 .. Len(trail) : var(trail[j]) \in S /\ trail[j] \notin m

(* m is a model of all there is.                                           *)
Model(m) == Total(m) /\ HoldIn(m, db, live(db)) /\ RootsIn(m, trail, trail_lim)

(* An assignment that a model does not share is above the root level.      *)
LEMMA ModelIs ==
    ASSUME NEW m, Model(m), Len(trail_lim) >= 1, NEW j \in 1 .. Len(trail), trail[j] \notin m,
           j \in Nat, Len(trail_lim) \in Nat, trail_lim[1] \in Nat
    PROVE  AboveRoot(j)
<1>1. \A i \in 1 .. trail_lim[1] : trail[i] \in m
  BY DEF Model, RootsIn, RootLen
<1>2. QED
  BY <1>1 DEF AboveRoot

(* The conflicting clause has a true literal, its assignment is above the  *)
(* root level.                                                             *)
LEMMA StartBroken ==
    ASSUME NEW V, CanAnalyze(V), NEW m, Model(m)
    PROVE  Broken(m, WalkStart)
<1>1. /\ V \in SUBSET Nat /\ DbType(db, V) /\ TrailType(trail, trail_lim, V)
      /\ Len(trail_lim) >= 1 /\ Len(trail_lim) \in Nat /\ Len(trail) \in Nat
      /\ \A j \in 1 .. Len(trail) : j \in Nat /\ trail[j] \in Nat
  BY AnalyzeIs
<1>2. confl \in live(db) /\ \A q \in ToSet(lits(db, confl)) : IsFalse(q)
  BY DEF CanAnalyze, ConflictInv
<1>3. PICK q \in ToSet(lits(db, confl)) : q \in m
  BY <1>2 DEF Model, HoldIn
<1>4. q \in Nat /\ m \in SUBSET Nat /\ neg(q) \notin m
  BY <1>3 DEF Model, Total
<1>5. PICK j \in 1 .. Len(trail) : trail[j] = neg(q)
  <2>1. neg(q) \in ToSet(trail)
    BY <1>2, <1>3 DEF IsFalse
  <2>2. QED
    BY <1>1, <2>1, TrailIs
<1>6. AboveRoot(j)
  <2>1. 1 \in 1 .. Len(trail_lim)
    BY <1>1
  <2>2. trail_lim[1] \in Nat
    BY <2>1, AnalyzeIs
  <2>3. QED
    BY <1>1, <1>4, <1>5, <2>2, ModelIs
<1>7. var(trail[j]) = var(q)
  BY <1>4, <1>5, Negation DEF Literal
<1>8. level(var(q)) > 0
  BY <1>1, <1>6, <1>7, LevelsAre
<1>9. var(q) \in WalkStart
  BY <1>3, <1>8 DEF WalkStart, VarsOf
<1>10. QED
  BY <1>4, <1>5, <1>7, <1>9 DEF Broken

(* An assignment that is false has a false one before it among its         *)
(* antecedents.                                                            *)
LEMMA BrokenReason ==
    ASSUME NEW V, TrailType(trail, trail_lim, V), Len(trail_lim) >= 1,
           NEW m, Model(m), NEW i \in 1 .. Len(trail), trail[i] \notin m, NEW r, ReasonOf(i, r)
    PROVE  \E q \in Antecedents(var(trail[i])) : \E j \in 1 .. i - 1 :
             trail[j] = neg(q) /\ trail[j] \notin m /\ var(trail[j]) = var(q)
<1>1. /\ Len(trail_lim) \in Nat /\ Len(trail) \in Nat
      /\ \A k \in 1 .. Len(trail_lim) : trail_lim[k] \in Nat
  BY TrailIs
<1>2. /\ r \in live(db)
      /\ \A q : q \in ToSet(lits(db, r)) <=> q = trail[i] \/ q \in ToSet(Tail(lits(db, r)))
      /\ \A q \in ToSet(Tail(lits(db, r))) : q \in Nat /\ \E j \in 1 .. i - 1 : trail[j] = neg(q)
      /\ \A q : q \in Antecedents(var(trail[i])) <=>
           q \in ToSet(Tail(lits(db, r))) /\ \E j \in 1 .. i - 1 : trail[j] = neg(q) /\ AboveRoot(j)
  BY DEF ReasonOf
<1>3. PICK q \in ToSet(lits(db, r)) : q \in m
  BY <1>2 DEF Model, HoldIn
<1>4. q \in ToSet(Tail(lits(db, r))) /\ q \in Nat
  BY <1>2, <1>3
<1>5. PICK j \in 1 .. i - 1 : trail[j] = neg(q)
  BY <1>2, <1>4
<1>6. trail[j] \notin m /\ var(trail[j]) = var(q)
  <2>1. neg(q) \notin m
    BY <1>3, <1>4 DEF Model, Total
  <2>2. QED
    BY <1>4, <1>5, <2>1, Negation DEF Literal
<1>7. AboveRoot(j)
  <2>1. 1 \in 1 .. Len(trail_lim) /\ j \in 1 .. Len(trail) /\ j \in Nat
    BY <1>1
  <2>2. trail_lim[1] \in Nat
    BY <1>1, <2>1
  <2>3. QED
    BY <1>1, <1>6, <2>1, <2>2, ModelIs
<1>8. q \in Antecedents(var(trail[i]))
  BY <1>2, <1>4, <1>5, <1>7
<1>9. QED
  BY <1>5, <1>6, <1>8

(* A step of the walk keeps a false assignment among those seen.           *)
LEMMA StepBroken ==
    ASSUME NEW V, CanAnalyze(V), NEW m, Model(m), NEW i \in 1 .. Len(trail), NEW S, SeenOK(i, S),
           Broken(m, S)
    PROVE  Broken(m, WalkStep(i, S))
<1> DEFINE v == var(trail[i])
<1>1. Len(trail) \in Nat /\ \A j, k \in 1 .. Len(trail) : var(trail[j]) = var(trail[k]) => j = k
  BY AnalyzeIs
<1>2. PICK h \in 1 .. Len(trail) : var(trail[h]) \in S /\ trail[h] \notin m
  BY DEF Broken
<1>3. CASE v \in S /\ TwoOpen(S)
  <2>1. WalkStep(i, S) = (S \ {v}) \cup VarsOf(Antecedents(v))
    BY <1>3, StepIs
  <2>2. CASE h = i
    <3>1. ReasonOf(i, db.reason[v])
      BY <1>3, Replaced
    <3>2. PICK q \in Antecedents(v), j \in 1 .. i - 1 :
            trail[j] = neg(q) /\ trail[j] \notin m /\ var(trail[j]) = var(q)
      BY <1>2, <2>2, <3>1, AnalyzeIs, BrokenReason
    <3>3. var(q) \in VarsOf(Antecedents(v)) /\ j \in 1 .. Len(trail)
      BY <1>1 DEF VarsOf
    <3>4. QED
      BY <2>1, <3>2, <3>3 DEF Broken
  <2>3. CASE h # i
    <3>1. var(trail[h]) # v
      BY <1>1, <2>3
    <3>2. var(trail[h]) \in WalkStep(i, S)
      BY <1>2, <2>1, <3>1
    <3>3. QED
      BY <1>2, <3>2 DEF Broken
  <2>4. QED
    BY <2>2, <2>3
<1>4. CASE ~(v \in S /\ TwoOpen(S))
  <2>1. WalkStep(i, S) = S
    BY <1>4, StepIs
  <2>2. QED
    BY <2>1
<1>5. QED
  BY <1>3, <1>4

(* ... to the end.                                                         *)
LEMMA SeenBroken ==
    ASSUME NEW V, CanAnalyze(V), NEW m, Model(m)
    PROVE  Broken(m, Seen[0])
<1> DEFINE n == Len(trail)
           Good == {i \in 0 .. n : SeenOK(i, Seen[i]) /\ Broken(m, Seen[i])}
<1>1. n \in Nat
  BY AnalyzeIs
<1>2. Seen[n] = WalkStart /\ \A i \in 0 .. n - 1 : Seen[i] = WalkStep(i + 1, Seen[i + 1])
  BY <1>1, SeenIs
<1>3. n \in Good
  <2>1. SeenOK(n, Seen[n]) /\ Broken(m, Seen[n])
    BY <1>2, WalkStarts, StartBroken
  <2>2. n \in 0 .. n
    BY <1>1
  <2>3. QED
    BY <2>1, <2>2
<1>4. ASSUME NEW i \in 0 .. n - 1, i + 1 \in Good PROVE i \in Good
  <2>1. SeenOK(i + 1, Seen[i + 1]) /\ Broken(m, Seen[i + 1])
    BY <1>4
  <2>2. i + 1 \in 1 .. n /\ (i + 1) - 1 = i /\ i \in 0 .. n
    BY <1>1
  <2>3. SeenOK((i + 1) - 1, WalkStep(i + 1, Seen[i + 1])) /\ Broken(m, WalkStep(i + 1, Seen[i + 1]))
    BY <2>1, <2>2, WalkKeeps, StepBroken
  <2>4. SeenOK(i, Seen[i]) /\ Broken(m, Seen[i])
    BY <1>2, <2>2, <2>3
  <2>5. QED
    BY <2>2, <2>4
<1> HIDE DEF Good
<1>5. 0 \in Good
  <2>1. 0 \in 0 .. n
    BY <1>1
  <2>2. QED
    BY <1>1, <1>3, <1>4, <2>1, Descent
<1>6. QED
  BY <1>5 DEF Good

(* Minimisation keeps one too: if m made all that is left true, it would   *)
(* make everything true that leads only to S.                              *)
LEMMA MinimisedBroken ==
    ASSUME NEW V, CanAnalyze(V), NEW m, Model(m), NEW S, Broken(m, S)
    PROVE  Broken(m, S \ Redundant(S))
<1> DEFINE n == Len(trail)
           c == Covered(S)
<1>1. SUFFICES ASSUME ~Broken(m, S \ Redundant(S)) PROVE FALSE
  OBVIOUS
<1>2. /\ V \in SUBSET Nat /\ DbType(db, V) /\ TrailType(trail, trail_lim, V)
      /\ ReasonInv(db, trail) /\ Len(trail_lim) >= 1 /\ Len(trail_lim) \in Nat /\ n \in Nat
      /\ \A j, k \in 1 .. n : var(trail[j]) = var(trail[k]) => j = k
      /\ \A j \in 1 .. n : j \in Nat /\ trail[j] \in Nat
  BY AnalyzeIs
<1>3. DOMAIN trail = 1 .. n
  BY <1>2, TrailIs
<1>4. \A i \in 1 .. n : c[i] <=> CoveredAt(i, S, c)
  BY <1>2, <1>3, CoveredIs
<1>5. \A v \in S : v \in Redundant(S) =>
         /\ db.reason[v] # CRef_Undef
         /\ \A q \in Antecedents(v) : \E j \in 1 .. n : trail[j] = neg(q) /\ c[j]
  BY <1>3 DEF Redundant
<1> HIDE DEF c
<1> DEFINE Bad == {i \in 1 .. n : c[i] /\ trail[i] \notin m}
<1>6. Bad = {}
  <2>1. SUFFICES ASSUME Bad # {} PROVE FALSE
    OBVIOUS
  <2>2. Bad \in SUBSET Nat
    BY <1>2
  <2>3. PICK i \in Bad : \A j \in Bad : i <= j
    BY <2>1, <2>2, Least
  <2>4. i \in 1 .. n /\ c[i] /\ trail[i] \notin m /\ i \in Nat
    BY <1>2
  <2> DEFINE v == var(trail[i])
  <2>5. \A j \in 1 .. i - 1 : c[j] => trail[j] \in m
    <3>1. ASSUME NEW j \in 1 .. i - 1, c[j], trail[j] \notin m PROVE FALSE
      <4>1. j \in 1 .. n /\ ~(i <= j)
        BY <1>2, <2>4
      <4>2. QED
        BY <2>3, <3>1, <4>1
    <3>2. QED
      BY <3>1
  <2>6. AboveRoot(i)
    <3>1. 1 \in 1 .. Len(trail_lim)
      BY <1>2
    <3>2. trail_lim[1] \in Nat
      BY <3>1, AnalyzeIs
    <3>3. QED
      BY <1>2, <2>4, <3>2, ModelIs
  <2>7. ~(level(v) = 0)
    <3>1. level(v) > 0 /\ level(v) \in 0 .. decisionLevel
      BY <1>2, <2>4, <2>6, LevelsAre
    <3>2. QED
      BY <3>1
  <2>8. db.reason[v] # CRef_Undef /\ \A q \in Antecedents(v) : \E j \in 1 .. n : trail[j] = neg(q) /\ c[j]
    <3>1. CASE v \in S
      <4>1. v \in Redundant(S)
        BY <1>1, <2>4, <3>1 DEF Broken
      <4>2. QED
        BY <1>5, <3>1, <4>1
    <3>2. CASE v \notin S
      <4>1. db.reason[v] # CRef_Undef /\ \A q \in Antecedents(v) :
               \E j \in 1 .. (i - 1) : trail[j] = neg(q) /\ c[j]
        BY <1>4, <2>4, <2>7, <3>2 DEF CoveredAt
      <4>2. \A j \in 1 .. (i - 1) : j \in 1 .. n
        BY <1>2, <2>4
      <4>3. QED
        BY <4>1, <4>2
    <3>3. QED
      BY <3>1, <3>2
  <2>9. ReasonOf(i, db.reason[v])
    BY <1>2, <2>4, <2>8, ReasonIsOne
  <2>10. PICK q \in Antecedents(v), j \in 1 .. i - 1 :
            trail[j] = neg(q) /\ trail[j] \notin m /\ var(trail[j]) = var(q)
    BY <2>4, <2>9, AnalyzeIs, BrokenReason
  <2>11. PICK k \in 1 .. n : trail[k] = neg(q) /\ c[k]
    BY <2>8
  <2>12. j \in 1 .. n /\ k = j
    BY <1>2, <2>4, <2>10, <2>11
  <2>13. QED
    BY <2>5, <2>10, <2>11, <2>12
<1>7. PICK i \in 1 .. n : var(trail[i]) \in S /\ trail[i] \notin m
  BY DEF Broken
<1>8. c[i]
  BY <1>4, <1>7 DEF CoveredAt
<1>9. QED
  BY <1>6, <1>7, <1>8

(* Every clause that analyze() may learn holds wherever the clauses and    *)
(* the facts do.                                                           *)
LEMMA LearnableHolds ==
    ASSUME NEW V, CanAnalyze(V), NEW m, Model(m), NEW c \in Learnable
    PROVE  \E q \in ToSet(c) : q \in m
<1> DEFINE W == Seen[0] \ Redundant(Seen[0])
<1>1. Broken(m, W)
  BY SeenBroken, MinimisedBroken
<1>2. Blocking(W) \subseteq ToSet(c)
  BY LearnableIs DEF Learned
<1>3. PICK j \in 1 .. Len(trail) : var(trail[j]) \in W /\ trail[j] \notin m
  BY <1>1 DEF Broken
<1>4. TrailType(trail, trail_lim, V) /\ trail[j] \in Nat
  BY AnalyzeIs
<1>5. trail[j] \in ToSet(trail)
  BY <1>4, TrailIs
<1>6. neg(trail[j]) \in Blocking(W)
  BY <1>3, <1>5 DEF Blocking
<1>7. neg(trail[j]) \in m
  BY <1>3, <1>4 DEF Model, Total
<1>8. QED
  BY <1>2, <1>6, <1>7

-----------------------------------------------------------------------------
(* What is kept of the clauses that were added.                            *)
Facts(m) == HoldIn(m, db, db.clauses) /\ RootsIn(m, trail, trail_lim)

(* The live clauses are the original ones and the learnt ones.             *)
LEMMA ModelSplit ==
    ASSUME BaseInv, NEW m
    PROVE  Model(m) <=> Total(m) /\ Facts(m) /\ HoldIn(m, db, db.learnts)
<1>1. live(db) = db.clauses \cup db.learnts
  BY DEF BaseInv, DbInv, DbType
<1>2. HoldIn(m, db, live(db)) <=> HoldIn(m, db, db.clauses) /\ HoldIn(m, db, db.learnts)
  BY <1>1 DEF HoldIn
<1>3. QED
  BY <1>2 DEF Model, Facts

(* What the invariant says of a total assignment.                          *)
LEMMA MeaningIs ==
    ASSUME MeaningInv, NEW m, Total(m)
    PROVE  /\ Satisfies(m, added) <=> ok /\ Facts(m)
           /\ Satisfies(m, added) => HoldIn(m, db, db.learnts)
  BY DEF MeaningInv, MeaningAt, Facts

(* The parts of MeaningInv after a step.                                   *)
LEMMA MeaningAfter ==
    ASSUME \A m : Total(m) => /\ (Satisfies(m, added') <=> ok' /\ Facts(m)')
                              /\ (Satisfies(m, added') => HoldIn(m, db', db'.learnts))
    PROVE  MeaningInv'
  BY DEF MeaningInv, MeaningAt, Facts

(* A step that adds no clause and finds no contradiction: the models stay, *)
(* and what is kept afterwards is not weaker.                              *)
LEMMA MeaningStep ==
    ASSUME BaseInv, BaseInv', MeaningInv, added' = added, ok' = ok,
           \A m : ok /\ Model(m) => Model(m)',
           \A m : Total(m) /\ Facts(m)' => Facts(m)
    PROVE  MeaningInv'
<1>1. ASSUME NEW m, Total(m)
      PROVE  /\ (Satisfies(m, added') <=> ok' /\ Facts(m)')
             /\ (Satisfies(m, added') => HoldIn(m, db', db'.learnts))
  <2>1. /\ Satisfies(m, added) <=> ok /\ Facts(m)
        /\ Satisfies(m, added) => HoldIn(m, db, db.learnts)
    BY <1>1, MeaningIs
  <2>2. Model(m) <=> Total(m) /\ Facts(m) /\ HoldIn(m, db, db.learnts)
    BY ModelSplit
  <2>3. Model(m)' <=> Total(m) /\ Facts(m)' /\ HoldIn(m, db', db'.learnts)
    <3>1. live(db') = db'.clauses \cup db'.learnts
      BY DEF BaseInv, DbInv, DbType
    <3>2. HoldIn(m, db', live(db')) <=> HoldIn(m, db', db'.clauses) /\ HoldIn(m, db', db'.learnts)
      BY <3>1 DEF HoldIn
    <3>3. QED
      BY <3>2 DEF Model, Facts
  <2>4. (ok /\ Model(m) => Model(m)') /\ (Facts(m)' => Facts(m))
    BY <1>1
  <2>5. QED
    BY <1>1, <2>1, <2>2, <2>3, <2>4
<1>2. QED
  BY <1>1, MeaningAfter

(* e has the clauses of d.                                                 *)
SameClauses(d, e) ==
    /\ e.clauses = d.clauses
    /\ e.learnts = d.learnts
    /\ \A r \in live(d) : ToSet(lits(e, r)) = ToSet(lits(d, r))

SameRoots(t, lim, s, k) ==
    /\ RootLen(s, k) = RootLen(t, lim)
    /\ \A i \in 1 .. RootLen(t, lim) : s[i] = t[i]

(* The same root level says the same.                                      *)
LEMMA RootsAre ==
    ASSUME NEW t, NEW lim, NEW s, NEW k, SameRoots(t, lim, s, k), NEW m
    PROVE  RootsIn(m, s, k) <=> RootsIn(m, t, lim)
  BY DEF SameRoots, RootsIn

(* The same clauses say the same.                                          *)
LEMMA HoldsSame ==
    ASSUME NEW d, NEW e, SameClauses(d, e), NEW R, R \subseteq live(d), NEW m
    PROVE  HoldIn(m, e, R) <=> HoldIn(m, d, R)
<1>1. \A r \in R : ToSet(lits(e, r)) = ToSet(lits(d, r))
  BY DEF SameClauses
<1>2. QED
  BY <1>1 DEF HoldIn

(* Nothing changes but the order of literals and what is above the root.   *)
LEMMA SameMeaning ==
    ASSUME BaseInv, BaseInv', MeaningInv, added' = added, ok' = ok,
           SameClauses(db, db'), SameRoots(trail, trail_lim, trail', trail_lim')
    PROVE  MeaningInv'
<1>1. db.clauses \subseteq live(db) /\ db.learnts \subseteq live(db) /\ live(db) \subseteq live(db)
      /\ live(db') = live(db)
  BY DEF BaseInv, DbInv, DbType, SameClauses
<1>2. db'.clauses = db.clauses
  BY DEF SameClauses
<1>3. ASSUME NEW m
      PROVE  (Model(m) => Model(m)') /\ (Facts(m)' => Facts(m))
  <2>1. RootsIn(m, trail', trail_lim') <=> RootsIn(m, trail, trail_lim)
    BY RootsAre
  <2>2. HoldIn(m, db', live(db)) <=> HoldIn(m, db, live(db))
    BY <1>1, HoldsSame
  <2>3. HoldIn(m, db', db.clauses) <=> HoldIn(m, db, db.clauses)
    BY <1>1, HoldsSame
  <2>4. Model(m) => Model(m)'
    BY <1>1, <2>1, <2>2 DEF Model
  <2>5. Facts(m)' => Facts(m)
    BY <1>2, <2>1, <2>3 DEF Facts
  <2>6. QED
    BY <2>4, <2>5
<1>4. QED
  BY <1>3, MeaningStep

(* The same trail, the same clauses in the same place.                     *)
LEMMA SameRootsAgain ==
    ASSUME NEW t, NEW lim
    PROVE  SameRoots(t, lim, t, lim)
  BY DEF SameRoots

(* The clauses are read from ca, clauses and learnts only.                 *)
LEMMA SameStoreAgain ==
    ASSUME NEW d, NEW e, e.ca = d.ca, e.clauses = d.clauses, e.learnts = d.learnts
    PROVE  SameClauses(d, e)
  BY DEF SameClauses, lits

(* The clause cr has its literals in another order.                        *)
LEMMA ShuffledSame ==
    ASSUME NEW V, NEW d, DbType(d, V), NEW e, NEW cr, NEW c, Shuffled(d, e, V, cr, c),
           ToSet(c) = ToSet(lits(d, cr))
    PROVE  SameClauses(d, e)
<1>1. live(d) \subseteq 1 .. Len(d.ca)
  BY LiveIs
<1>2. /\ lits(e, cr) = c /\ e.clauses = d.clauses /\ e.learnts = d.learnts
      /\ \A r \in 1 .. Len(d.ca) : r # cr => lits(e, r) = lits(d, r)
  BY DEF Shuffled
<1>3. \A r \in live(d) : ToSet(lits(e, r)) = ToSet(lits(d, r))
  BY <1>1, <1>2
<1>4. QED
  BY <1>2, <1>3 DEF SameClauses

(* Undoing a level above the root leaves the root.                         *)
LEMMA UndoneRoots ==
    ASSUME TrailOK, NEW l \in 0 .. Len(trail_lim), NEW s, NEW k, Undone(l, s, k)
    PROVE  SameRoots(trail, trail_lim, s, k)
<1>1. TrailType(trail, trail_lim, AllVars)
  BY DEF TrailOK
<1>2. /\ Len(trail) \in Nat /\ Len(trail_lim) \in Nat
      /\ \A j \in 1 .. Len(trail_lim) : trail_lim[j] \in Nat /\ trail_lim[j] <= Len(trail)
      /\ \A i, j \in 1 .. Len(trail_lim) : i <= j => trail_lim[i] <= trail_lim[j]
  BY <1>1, TrailIs
<1>3. CASE ~(Len(trail_lim) > l)
  <2>1. s = trail /\ k = trail_lim
    BY <1>3 DEF Undone
  <2>2. QED
    BY <2>1, SameRootsAgain
<1>4. CASE Len(trail_lim) > l
  <2>1. /\ Len(s) = trail_lim[l + 1] /\ Len(k) = l
        /\ \A i \in 1 .. Len(s) : s[i] = trail[i]
        /\ \A i \in 1 .. Len(k) : k[i] = trail_lim[i]
    BY <1>4 DEF Undone, Begins
  <2>2. 1 \in 1 .. Len(trail_lim) /\ l + 1 \in 1 .. Len(trail_lim) /\ Len(trail_lim) # 0
    BY <1>2, <1>4
  <2>3. RootLen(trail, trail_lim) = trail_lim[1]
    BY <2>2 DEF RootLen
  <2>4. trail_lim[1] <= Len(s) /\ trail_lim[1] \in Nat /\ Len(s) \in Nat
    BY <1>2, <2>1, <2>2
  <2>5. RootLen(s, k) = trail_lim[1]
    <3>1. CASE l = 0
      BY <2>1, <3>1 DEF RootLen
    <3>2. CASE l # 0
      <4>1. 1 \in 1 .. Len(k)
        BY <2>1, <3>2
      <4>2. QED
        BY <2>1, <3>2, <4>1 DEF RootLen
    <3>3. QED
      BY <3>1, <3>2
  <2>6. \A i \in 1 .. trail_lim[1] : s[i] = trail[i]
    BY <2>1, <2>4
  <2>7. QED
    BY <2>3, <2>5, <2>6 DEF SameRoots
<1>5. QED
  BY <1>3, <1>4

(* One more assignment above the root, or a new level, does too.           *)
LEMMA AboveRoots ==
    ASSUME NEW V, NEW t, NEW lim, TrailType(t, lim, V), NEW s, Begins(t, s), NEW k,
           \/ Len(lim) >= 1 /\ k = lim
           \/ k = Append(lim, Len(t))
    PROVE  SameRoots(t, lim, s, k)
<1>1. /\ Len(t) \in Nat /\ Len(lim) \in Nat /\ lim \in Seq(Nat)
      /\ \A j \in 1 .. Len(lim) : lim[j] \in Nat /\ lim[j] <= Len(t)
  BY TrailIs
<1>2. RootLen(s, k) = RootLen(t, lim)
  <2>1. CASE Len(lim) >= 1 /\ k = lim
    BY <1>1, <2>1 DEF RootLen
  <2>2. CASE k = Append(lim, Len(t)) /\ Len(lim) = 0
    <3>1. Len(k) = 1 /\ k[1] = Len(t)
      BY <1>1, <2>2
    <3>2. QED
      BY <2>2, <3>1 DEF RootLen
  <2>3. CASE k = Append(lim, Len(t)) /\ Len(lim) # 0
    <3>1. Len(k) # 0 /\ k[1] = lim[1]
      BY <1>1, <2>3
    <3>2. QED
      BY <2>3, <3>1 DEF RootLen
  <2>4. QED
    BY <2>1, <2>2, <2>3
<1>3. RootLen(t, lim) \in Nat /\ RootLen(t, lim) <= Len(t)
  BY <1>1 DEF RootLen
<1>4. \A i \in 1 .. RootLen(t, lim) : s[i] = t[i]
  BY <1>1, <1>3 DEF Begins
<1>5. QED
  BY <1>2, <1>4 DEF SameRoots

-----------------------------------------------------------------------------
(* A trail begins its extension.                                           *)
LEMMA BeginsAppend ==
    ASSUME NEW T, NEW t \in Seq(T), NEW p, NEW s, s = Append(t, p)
    PROVE  Begins(t, s)
<1>1. Len(t) \in Nat /\ Len(s) = Len(t) + 1 /\ \A i \in 1 .. Len(t) : s[i] = t[i]
  OBVIOUS
<1>2. QED
  BY <1>1 DEF Begins

(* The steps of propagate() that assign nothing.                           *)
LEMMA PropagateMeaning ==
    ASSUME BaseInv, BaseInv', MeaningInv, PropagateUnchanged, trail' = trail,
           SameClauses(db, db')
    PROVE  MeaningInv'
<1>1. ok' = ok /\ trail_lim' = trail_lim /\ added' = added
  BY DEF PropagateUnchanged, clientVars
<1>2. SameRoots(trail, trail_lim, trail', trail_lim')
  BY <1>1, SameRootsAgain
<1>3. QED
  BY <1>1, <1>2, SameMeaning

(* propagate goes on to the next fact, or is done.                         *)
LEMMA CleaningMeaning ==
    ASSUME BaseInv, BaseInv', MeaningInv, NextFact \/ PropagateDone
    PROVE  MeaningInv'
<1>1. db' = cleanAll(db) /\ trail' = trail /\ PropagateUnchanged
  BY DEF NextFact, PropagateDone
<1>2. AllVars \in SUBSET Nat /\ DbInv(db, AllVars)
  BY DEF BaseInv, VarsInv
<1>3. Cleaned(db, db', AllVars)
  BY <1>1, <1>2, CleanIs
<1>4. SameClauses(db, db')
  BY <1>3, SameStoreAgain DEF Cleaned
<1>5. QED
  BY <1>1, <1>4, PropagateMeaning

(* A visit shuffles the clause visited at most.                            *)
LEMMA VisitMeaning ==
    ASSUME BaseInv, BaseInv', MeaningInv, BlockerTrue \/ FirstTrue \/ Conflicting
    PROVE  MeaningInv'
<1>1. Visiting /\ trail' = trail /\ PropagateUnchanged /\ (db' = db \/ db' = KeepWatch(Turned))
  BY DEF BlockerTrue, FirstTrue, Conflicting
<1>2. DbType(db, AllVars)
  BY DEF BaseInv, DbInv
<1>3. CASE db' = db
  BY <1>1, <1>3, SameStoreAgain, PropagateMeaning
<1>4. CASE db' = KeepWatch(Turned)
  <2> DEFINE cr == Watched.cref
             b == Turned
  <2>1. VisitedWatcher(p0, cr, b)
    BY <1>1, VisitIs
  <2>2. db' = KeepWatch(b)
    BY <1>4
  <2> HIDE DEF b
  <2>3. Shuffled(db, db', AllVars, cr, b)
    BY <2>1, <2>2, KeptIsShuffled
  <2>4. ToSet(b) = ToSet(lits(db, cr))
    BY <2>1 DEF VisitedWatcher, Permuted
  <2>5. SameClauses(db, db')
    BY <1>2, <2>3, <2>4, ShuffledSame
  <2>6. QED
    BY <1>1, <2>5, PropagateMeaning
<1>5. QED
  BY <1>1, <1>3, <1>4

(* A watch that moves turns a clause around and changes no set of          *)
(* literals.                                                               *)
LEMMA MoveWatchMeaning ==
    ASSUME BaseInv, BaseInv', MeaningInv, MoveWatch
    PROVE  MeaningInv'
<1>1. Visiting /\ trail' = trail /\ PropagateUnchanged
  BY DEF MoveWatch
<1> DEFINE cr == Watched.cref
           b == Turned
           k == Min(NewWatches(b))
           c == Swap(b, 2, k)
<1>2. VisitedWatcher(p0, cr, b)
  BY <1>1, VisitIs
<1> HIDE DEF b, k, c
<1>3. Shuffled(db, db', AllVars, cr, c) /\ k \in 3 .. Len(b)
  BY <1>2, MoveWatchIsShuffled DEF b, k, c
<1>4. ToSet(c) = ToSet(lits(db, cr))
  <2>1. IsLits(b, AllVars) /\ ToSet(b) = ToSet(lits(db, cr))
    BY <1>2 DEF VisitedWatcher, Permuted
  <2>2. Len(b) \in Nat
    BY <2>1 DEF IsLits
  <2>3. 2 \in 1 .. Len(b) /\ k \in 1 .. Len(b) /\ 2 # k
    BY <1>3, <2>2
  <2>4. SwapOf(b, c, AllVars, 2, k)
    BY <2>1, <2>3, SwapIs DEF c
  <2>5. QED
    BY <2>1, <2>4 DEF SwapOf, Permuted
<1>5. DbType(db, AllVars)
  BY DEF BaseInv, DbInv
<1>6. SameClauses(db, db')
  BY <1>3, <1>4, <1>5, ShuffledSame
<1>7. QED
  BY <1>1, <1>6, PropagateMeaning

(* A decision, or a level without one.                                     *)
LEMMA DecisionMeaning ==
    ASSUME BaseInv, BaseInv', MeaningInv, DummyLevel \/ Assume \/ pickBranchLit
    PROVE  MeaningInv'
<1>1. TrailType(trail, trail_lim, AllVars)
  BY DEF BaseInv, TrailOK
<1>2. trail \in Seq(Lits(AllVars)) /\ Len(trail) \in Nat
  BY <1>1, TrailIs
<1>3. /\ ok' = ok /\ added' = added /\ trail_lim' = Append(trail_lim, Len(trail))
      /\ \/ trail' = trail /\ db' = db
         \/ \E p : trail' = Append(trail, p) /\ db' = [db EXCEPT !.reason[var(p)] = CRef_Undef]
  BY Zenon DEF DummyLevel, Assume, pickBranchLit, Decide, Enqueue, clientVars
<1>4. SameClauses(db, db')
  <2>1. CASE db' = db
    BY <2>1, SameStoreAgain
  <2>2. ASSUME NEW p, db' = [db EXCEPT !.reason[var(p)] = CRef_Undef] PROVE SameClauses(db, db')
    <3>1. DOMAIN db = {"ca", "clauses", "learnts", "dirties", "watches", "reason"}
      BY DEF BaseInv, DbInv, DbType
    <3>2. db'.ca = db.ca /\ db'.clauses = db.clauses /\ db'.learnts = db.learnts
      BY <2>2, <3>1
    <3>3. QED
      BY <3>2, SameStoreAgain
  <2>3. QED
    BY <1>3, <2>1, <2>2
<1>5. Begins(trail, trail')
  <2>1. Begins(trail, trail)
    BY <1>2 DEF Begins
  <2>2. QED
    BY <1>2, <1>3, <2>1, BeginsAppend
<1>6. SameRoots(trail, trail_lim, trail', trail_lim')
  BY <1>1, <1>3, <1>5, AboveRoots
<1>7. QED
  BY <1>3, <1>4, <1>6, SameMeaning

(* Undoing everything but the root level.                                  *)
LEMMA RewindMeaning ==
    ASSUME BaseInv, BaseInv', MeaningInv, pc # "propagate", NEW heap,
           cancelUntil(0, <<>>, heap), db' = db, added' = added, ok' = ok
    PROVE  MeaningInv'
<1> DEFINE s == KeptTrail(0)
           k == KeptLevels(0)
<1>1. TrailOK /\ TrailType(trail, trail_lim, AllVars)
  BY DEF BaseInv, TrailOK
<1>2. 0 \in 0 .. Len(trail_lim) /\ Len(trail_lim) \in Nat
  BY <1>1, TrailIs
<1>3. Cancelled(0, s, k)
  BY <1>2, CancelIs
<1>4. trail' = s \o <<>>
  BY DEF cancelUntil
<1> HIDE DEF s, k
<1>5. Undone(0, s, k) /\ trail_lim' = k
  BY <1>3 DEF Cancelled
<1>6. trail' = s
  <2>1. TrailType(s, k, AllVars)
    BY <1>5 DEF Undone
  <2>2. s \in Seq(Lits(AllVars))
    BY <2>1, TrailIs
  <2>3. QED
    BY <1>4, <2>2
<1>7. SameRoots(trail, trail_lim, trail', trail_lim')
  BY <1>1, <1>2, <1>5, <1>6, UndoneRoots
<1>8. SameClauses(db, db')
  BY SameStoreAgain
<1>9. QED
  BY <1>7, <1>8, SameMeaning

(* A restart undoes assumptions and decisions, never facts.                *)
LEMMA RestartMeaning ==
    ASSUME BaseInv, BaseInv', MeaningInv, Restart
    PROVE  MeaningInv'
<1>1. /\ pc = "search" /\ cancelUntil(0, <<>>, order_heap) /\ db' = db /\ added' = added
      /\ ok' = ok
  BY DEF Restart, clientVars
<1>2. QED
  BY <1>1, RewindMeaning

(* The literals that are assigned at the root level, when there is no      *)
(* other level.                                                            *)
LEMMA RootIs ==
    ASSUME NEW V, TrailType(trail, trail_lim, V), Len(trail_lim) = 0, NEW m,
           RootsIn(m, trail, trail_lim)
    PROVE  \A p : IsTrue(p) => p \in m
<1>1. \A i \in 1 .. Len(trail) : trail[i] \in m
  BY DEF RootsIn, RootLen
<1>2. \A p : p \in ToSet(trail) <=> \E i \in 1 .. Len(trail) : trail[i] = p
  BY TrailIs
<1>3. QED
  BY <1>1, <1>2 DEF IsTrue

(* A conflict at the root level: the clauses have no model.                *)
LEMMA RootConflict ==
    ASSUME BaseInv, MeaningInv, confl # CRef_Undef, Len(trail_lim) = 0, NEW m, Total(m)
    PROVE  ~Satisfies(m, added)
<1>1. SUFFICES ASSUME Satisfies(m, added) PROVE FALSE
  OBVIOUS
<1>2. Facts(m) /\ HoldIn(m, db, db.learnts)
  BY <1>1, MeaningIs
<1>3. Model(m)
  BY <1>2, ModelSplit
<1>4. confl \in live(db) /\ \A q \in ToSet(lits(db, confl)) : IsFalse(q)
  BY DEF BaseInv, ConflInv, ConflictInv
<1>5. PICK q \in ToSet(lits(db, confl)) : q \in m
  BY <1>3, <1>4 DEF Model, HoldIn
<1>6. q \in Nat /\ neg(q) \notin m
  BY <1>3, <1>5 DEF Model, Total
<1>7. neg(q) \in m
  <2>1. TrailType(trail, trail_lim, AllVars)
    BY DEF BaseInv, TrailOK
  <2>2. IsTrue(neg(q))
    BY <1>4, <1>5 DEF IsFalse, IsTrue
  <2>3. QED
    BY <1>3, <2>1, <2>2, RootIs DEF Model
<1>8. QED
  BY <1>6, <1>7

(* The clauses are known to be contradictory.                              *)
LEMMA Contradiction ==
    ASSUME added' = added, ~ok', \A m : Total(m) => ~Satisfies(m, added)
    PROVE  MeaningInv'
BY MeaningAfter

(* addClause_ after its propagation: a conflict at the root level          *)
(* contradicts what was added.                                             *)
LEMMA AddPropagatedMeaning ==
    ASSUME BaseInv, BaseInv', MeaningInv, AddPropagated
    PROVE  MeaningInv'
<1>1. /\ pc = "add" /\ ok' = (confl = CRef_Undef) /\ db' = db /\ trail' = trail
      /\ trail_lim' = trail_lim /\ added' = added
  BY DEF AddPropagated, trailVars, clientVars
<1>2. ok /\ Len(trail_lim) = 0 /\ ok \in BOOLEAN
  BY <1>1 DEF BaseInv, FlowInv, VarsInv
<1>3. CASE confl = CRef_Undef
  <2>1. SameClauses(db, db') /\ SameRoots(trail, trail_lim, trail', trail_lim')
    BY <1>1, SameStoreAgain, SameRootsAgain
  <2>2. ok' = ok
    BY <1>1, <1>2, <1>3
  <2>3. QED
    BY <1>1, <2>1, <2>2, SameMeaning
<1>4. CASE confl # CRef_Undef
  BY <1>1, <1>2, <1>4, RootConflict, Contradiction
<1>5. QED
  BY <1>3, <1>4

(* The four answers.                                                       *)
LEMMA AnswersMeaning ==
    ASSUME BaseInv, BaseInv', MeaningInv, Refuse \/ ConflictAtRoot \/ AssumptionFails \/ ModelFound
    PROVE  MeaningInv'
<1>1. PICK heap, status : Return(status, heap)
  BY DEF Refuse, ConflictAtRoot, AssumptionFails, ModelFound
<1>2. /\ cancelUntil(0, <<>>, heap) /\ db' = db /\ added' = added
  BY <1>1 DEF Return, clientVars
<1>3. VarsInv /\ FlowInv /\ ok \in BOOLEAN
  BY DEF BaseInv, VarsInv
<1>4. CASE ConflictAtRoot
  <2>1. confl # CRef_Undef /\ Len(trail_lim) = 0 /\ ~ok'
    BY <1>4 DEF ConflictAtRoot, Return, decisionLevel
  <2>2. QED
    BY <1>2, <2>1, RootConflict, Contradiction
<1>5. CASE Refuse \/ AssumptionFails \/ ModelFound
  <2>1. pc \in {"refuse", "decide"}
    BY <1>5 DEF Refuse, AssumptionFails, ModelFound, Pending, Branching
  <2>2. ok' = ok
    <3>1. CASE Refuse
      BY <1>3, <3>1 DEF Refuse, Return, FlowInv
    <3>2. CASE AssumptionFails
      <4>1. analyzeFinal(neg(Assumed)) # {}
        BY Zenon DEF analyzeFinal
      <4>2. QED
        BY <1>3, <3>2, <4>1 DEF AssumptionFails, Pending, Return, FlowInv
    <3>3. CASE ModelFound
      BY <1>3, <3>3 DEF ModelFound, Branching, Return, FlowInv
    <3>4. QED
      BY <1>5, <3>1, <3>2, <3>3
  <2>3. QED
    BY <1>2, <2>1, <2>2, RewindMeaning
<1>6. QED
  BY <1>4, <1>5

-----------------------------------------------------------------------------
(* A true clause whose literals but the first are false among true ones    *)
(* has its first literal true.                                             *)
LEMMA FirstHolds ==
    ASSUME NEW m, Total(m), NEW V \in SUBSET Nat, NEW c \in Seq(Lits(V)),
           \E q \in ToSet(c) : q \in m,
           NEW S, S \subseteq m, \A k \in 2 .. Len(c) : neg(c[k]) \in S
    PROVE  c[1] \in m
<1>1. PICK k \in 1 .. Len(c) : c[k] \in m
  BY ToSetIs
<1>2. c[k] \in Nat
  <2>1. c[k] \in Lits(V)
    OBVIOUS
  <2>2. QED
    BY <2>1, LitsAre
<1>3. neg(c[k]) \notin m
  BY <1>1, <1>2 DEF Total
<1>4. k \notin 2 .. Len(c)
  BY <1>3
<1>5. Len(c) \in Nat
  OBVIOUS
<1>6. k = 1
  BY <1>4, <1>5
<1>7. QED
  BY <1>1, <1>6

(* One more assignment at the root level.                                  *)
LEMMA RootsPushed ==
    ASSUME NEW T, NEW t \in Seq(T), NEW p, NEW s, s = Append(t, p), NEW lim, Len(lim) = 0, NEW m
    PROVE  RootsIn(m, s, lim) <=> RootsIn(m, t, lim) /\ p \in m
<1>1. Len(t) \in Nat /\ Len(s) = Len(t) + 1 /\ (\A i \in 1 .. Len(t) : s[i] = t[i])
      /\ s[Len(t) + 1] = p
  OBVIOUS
<1>2. RootLen(s, lim) = Len(t) + 1 /\ RootLen(t, lim) = Len(t)
  BY <1>1 DEF RootLen
<1>3. ASSUME RootsIn(m, s, lim) PROVE RootsIn(m, t, lim) /\ p \in m
  <2>1. \A i \in 1 .. Len(t) + 1 : s[i] \in m
    BY <1>2, <1>3 DEF RootsIn
  <2>2. Len(t) + 1 \in 1 .. Len(t) + 1 /\ \A i \in 1 .. Len(t) : i \in 1 .. Len(t) + 1
    BY <1>1
  <2>3. p \in m /\ \A i \in 1 .. Len(t) : t[i] \in m
    BY <1>1, <2>1, <2>2
  <2>4. QED
    BY <1>2, <2>3 DEF RootsIn
<1>4. ASSUME RootsIn(m, t, lim), p \in m PROVE RootsIn(m, s, lim)
  <2>1. \A i \in 1 .. Len(t) : t[i] \in m
    BY <1>2, <1>4 DEF RootsIn
  <2>2. \A i \in 1 .. Len(t) + 1 : i \in 1 .. Len(t) \/ i = Len(t) + 1
    BY <1>1
  <2>3. \A i \in 1 .. Len(t) + 1 : s[i] \in m
    BY <1>1, <1>4, <2>1, <2>2
  <2>4. QED
    BY <1>2, <2>3 DEF RootsIn
<1>5. QED
  BY <1>3, <1>4

(* The clauses stay and a fact is added that every model has.              *)
LEMMA FactMeaning ==
    ASSUME BaseInv, BaseInv', MeaningInv, added' = added, ok' = ok, SameClauses(db, db'),
           NEW p, trail' = Append(trail, p), trail_lim' = trail_lim,
           Len(trail_lim) = 0 => \A m : Model(m) => p \in m
    PROVE  MeaningInv'
<1>1. TrailType(trail, trail_lim, AllVars)
  BY DEF BaseInv, TrailOK
<1>2. trail \in Seq(Lits(AllVars)) /\ Len(trail_lim) \in Nat
  BY <1>1, TrailIs
<1>3. CASE Len(trail_lim) >= 1
  <2>1. Begins(trail, trail')
    BY <1>2, BeginsAppend
  <2>2. SameRoots(trail, trail_lim, trail', trail_lim')
    BY <1>1, <1>3, <2>1, AboveRoots
  <2>3. QED
    BY <2>2, SameMeaning
<1>4. CASE Len(trail_lim) = 0
  <2>1. db.clauses \subseteq live(db) /\ live(db) \subseteq live(db) /\ live(db') = live(db)
    BY DEF BaseInv, DbInv, DbType, SameClauses
  <2>2. db'.clauses = db.clauses
    BY DEF SameClauses
  <2>3. ASSUME NEW m PROVE (Model(m) => Model(m)') /\ (Facts(m)' => Facts(m))
    <3>1. RootsIn(m, trail', trail_lim') <=> RootsIn(m, trail, trail_lim) /\ p \in m
      BY <1>2, <1>4, RootsPushed
    <3>2. HoldIn(m, db', live(db)) <=> HoldIn(m, db, live(db))
      BY <2>1, HoldsSame
    <3>3. HoldIn(m, db', db.clauses) <=> HoldIn(m, db, db.clauses)
      BY <2>1, HoldsSame
    <3>4. Model(m) => p \in m
      BY <1>4
    <3>5. Model(m) => Model(m)'
      BY <2>1, <3>1, <3>2, <3>4 DEF Model
    <3>6. Facts(m)' => Facts(m)
      BY <2>2, <3>1, <3>3 DEF Facts
    <3>7. QED
      BY <3>5, <3>6
  <2>4. QED
    BY <2>3, MeaningStep
<1>5. QED
  BY <1>2, <1>3, <1>4

(* The first literal of a clause whose others are false.                   *)
LEMMA UnitMeaning ==
    ASSUME BaseInv, BaseInv', MeaningInv, Unit
    PROVE  MeaningInv'
<1> DEFINE p == p0
           cr == Watched.cref
           b == Turned
           V == AllVars
           d == KeepWatch(b)
<1>1. /\ Visiting /\ NewWatches(b) = {}
      /\ trail' = Append(trail, b[1]) /\ db' = [d EXCEPT !.reason[var(b[1])] = cr]
      /\ PropagateUnchanged
  BY DEF Unit, Enqueue
<1>2. VisitedWatcher(p, cr, b)
  BY <1>1, VisitIs
<1> HIDE DEF b, d, p, V
<1>3. /\ V \in SUBSET Nat /\ TrailType(trail, trail_lim, V) /\ DbType(db, V) /\ V = AllVars
  BY DEF BaseInv, VarsInv, TrailOK, DbInv, V
<1>4. Shuffled(db, d, V, cr, b)
  BY <1>2, KeptIsShuffled DEF d, V
<1>5. cr \in live(db) /\ ToSet(b) = ToSet(lits(db, cr)) /\ b \in Seq(Lits(V))
  BY <1>2, <1>3 DEF VisitedWatcher, Permuted, IsLits
<1>6. SameClauses(db, d)
  BY <1>3, <1>4, <1>5, ShuffledSame
<1>7. SameClauses(db, db')
  <2>1. DOMAIN d = {"ca", "clauses", "learnts", "dirties", "watches", "reason"}
    BY <1>4 DEF Shuffled, DbInv, DbType
  <2>2. db'.ca = d.ca /\ db'.clauses = d.clauses /\ db'.learnts = d.learnts
    BY <1>1, <2>1
  <2>3. QED
    BY <1>6, <2>2 DEF SameClauses, lits
<1>8. ASSUME Len(trail_lim) = 0, NEW m, Model(m) PROVE b[1] \in m
  <2>1. \A k \in 2 .. Len(b) : IsFalse(b[k])
    BY <1>1, <1>2, OthersFalse
  <2>2. \A q : IsTrue(q) => q \in m
    BY <1>3, <1>8, RootIs DEF Model
  <2>3. \A k \in 2 .. Len(b) : neg(b[k]) \in ToSet(trail)
    BY <2>1 DEF IsFalse
  <2>4. ToSet(trail) \subseteq m
    BY <2>2 DEF IsTrue
  <2>5. \E q \in ToSet(b) : q \in m
    BY <1>5, <1>8 DEF Model, HoldIn
  <2>6. Total(m)
    BY <1>8 DEF Model
  <2>7. QED
    BY <1>3, <1>5, <2>3, <2>4, <2>5, <2>6, FirstHolds
<1>9. /\ ok' = ok /\ trail_lim' = trail_lim /\ added' = added
  BY <1>1 DEF PropagateUnchanged, clientVars
<1>10. QED
  BY <1>1, <1>7, <1>8, <1>9, FactMeaning

(* The collection of garbage loses no clause and invents none.             *)
LEMMA GarbageHolds ==
    ASSUME NEW V \in SUBSET Nat, NEW d, DbInv(d, V), NEW e, e = checkGarbage(d), NEW m
    PROVE  /\ HoldIn(m, e, e.clauses) <=> HoldIn(m, d, d.clauses)
           /\ HoldIn(m, e, e.learnts) <=> HoldIn(m, d, d.learnts)
<1>1. e = d \/ e = garbageCollect(d)
  BY DEF checkGarbage
<1>2. CASE e = d
  BY <1>2
<1>3. CASE e = garbageCollect(d)
  <2>1. Collected(d, e, V)
    BY <1>3, CollectIs
  <2>2. PICK g : Moved(d, e, g)
    BY <2>1 DEF Collected
  <2>3. /\ g \in [1 .. Len(e.ca) -> live(d)]
        /\ \A r \in live(d) : \E i \in 1 .. Len(e.ca) : g[i] = r
        /\ \A i \in 1 .. Len(e.ca) : e.ca[i] = d.ca[g[i]]
        /\ e.clauses = {i \in 1 .. Len(e.ca) : g[i] \in d.clauses}
        /\ e.learnts = {i \in 1 .. Len(e.ca) : g[i] \in d.learnts}
    BY <2>2 DEF Moved
  <2>4. \A i \in 1 .. Len(e.ca) : lits(e, i) = lits(d, g[i])
    BY <2>3 DEF lits
  <2>5. d.clauses \subseteq live(d) /\ d.learnts \subseteq live(d)
    BY DEF DbInv, DbType
  <2>6. HoldIn(m, e, e.clauses) <=> HoldIn(m, d, d.clauses)
    <3>1. ASSUME HoldIn(m, e, e.clauses), NEW cr \in d.clauses
          PROVE  \E q \in ToSet(lits(d, cr)) : q \in m
      <4>1. PICK i \in 1 .. Len(e.ca) : g[i] = cr
        BY <2>3, <2>5
      <4>2. i \in e.clauses /\ lits(e, i) = lits(d, cr)
        BY <2>3, <2>4, <4>1
      <4>3. QED
        BY <3>1, <4>2 DEF HoldIn
    <3>2. ASSUME HoldIn(m, d, d.clauses), NEW i \in e.clauses
          PROVE  \E q \in ToSet(lits(e, i)) : q \in m
      BY <2>3, <2>4, <3>2 DEF HoldIn
    <3>3. QED
      BY <3>1, <3>2 DEF HoldIn
  <2>7. HoldIn(m, e, e.learnts) <=> HoldIn(m, d, d.learnts)
    <3>1. ASSUME HoldIn(m, e, e.learnts), NEW cr \in d.learnts
          PROVE  \E q \in ToSet(lits(d, cr)) : q \in m
      <4>1. PICK i \in 1 .. Len(e.ca) : g[i] = cr
        BY <2>3, <2>5
      <4>2. i \in e.learnts /\ lits(e, i) = lits(d, cr)
        BY <2>3, <2>4, <4>1
      <4>3. QED
        BY <3>1, <4>2 DEF HoldIn
    <3>2. ASSUME HoldIn(m, d, d.learnts), NEW i \in e.learnts
          PROVE  \E q \in ToSet(lits(e, i)) : q \in m
      BY <2>3, <2>4, <3>2 DEF HoldIn
    <3>3. QED
      BY <3>1, <3>2 DEF HoldIn
  <2>8. QED
    BY <2>6, <2>7
<1>4. QED
  BY <1>1, <1>2, <1>3

(* What holds of the clauses that stay.                                    *)
LEMMA RemovedHolds ==
    ASSUME NEW V, NEW d, DbType(d, V), NEW R, NEW e, Removed(d, e, V, R), NEW m
    PROVE  /\ HoldIn(m, d, d.clauses) => HoldIn(m, e, e.clauses)
           /\ HoldIn(m, d, d.learnts) => HoldIn(m, e, e.learnts)
           /\ HoldIn(m, e, e.clauses) => HoldIn(m, d, d.clauses \ R)
<1>1. d.clauses \cup d.learnts = live(d) /\ live(d) \subseteq 1 .. Len(d.ca)
  BY LiveIs DEF DbType
<1>2. /\ \A r \in 1 .. Len(d.ca) : lits(e, r) = lits(d, r)
      /\ e.clauses = d.clauses \ R /\ e.learnts = d.learnts \ R
  BY DEF Removed
<1>3. QED
  BY <1>1, <1>2 DEF HoldIn

(* The clauses that go were learnt, or each is true at the root level.     *)
LEMMA CleanupMeaning ==
    ASSUME BaseInv, BaseInv', MeaningInv, NEW R \in SUBSET live(db),
           NEW d, d = removeClauses(db, R), db' = checkGarbage(d),
           ok' = ok, added' = added, trail' = trail, trail_lim' = trail_lim,
           \/ R \subseteq db.learnts
           \/ Len(trail_lim) = 0 /\ \A cr \in R : satisfied(db, cr)
    PROVE  MeaningInv'
<1>1. /\ DbInv(db, AllVars) /\ DbType(db, AllVars) /\ TrailType(trail, trail_lim, AllVars)
      /\ AllVars \in SUBSET Nat
  BY DEF BaseInv, VarsInv, TrailOK, DbInv
<1>2. Removed(db, d, AllVars, R)
  BY <1>1, RemoveIs
<1>3. DbInv(d, AllVars)
  BY <1>2 DEF Removed
<1>4. ASSUME NEW m, Model(m) PROVE Model(m)'
  <2>1. Total(m) /\ Facts(m) /\ HoldIn(m, db, db.learnts)
    BY <1>4, ModelSplit
  <2>2. HoldIn(m, db, db.clauses) /\ RootsIn(m, trail, trail_lim)
    BY <2>1 DEF Facts
  <2>3. HoldIn(m, d, d.clauses) /\ HoldIn(m, d, d.learnts)
    BY <1>1, <1>2, <2>1, <2>2, RemovedHolds
  <2>4. HoldIn(m, db', db'.clauses) /\ HoldIn(m, db', db'.learnts)
    BY <1>1, <1>3, <2>3, GarbageHolds
  <2>5. live(db') = db'.clauses \cup db'.learnts
    BY DEF BaseInv, DbInv, DbType
  <2>6. HoldIn(m, db', live(db'))
    BY <2>4, <2>5 DEF HoldIn
  <2>7. QED
    BY <2>1, <2>2, <2>6 DEF Model
<1>5. ASSUME NEW m, Facts(m)' PROVE Facts(m)
  <2>1. HoldIn(m, db', db'.clauses) /\ RootsIn(m, trail, trail_lim)
    BY <1>5 DEF Facts
  <2>2. HoldIn(m, d, d.clauses)
    BY <1>1, <1>3, <2>1, GarbageHolds
  <2>3. HoldIn(m, db, db.clauses \ R)
    BY <1>1, <1>2, <2>2, RemovedHolds
  <2>4. ASSUME NEW cr \in db.clauses PROVE \E q \in ToSet(lits(db, cr)) : q \in m
    <3>1. CASE cr \notin R
      BY <2>3, <3>1 DEF HoldIn
    <3>2. CASE cr \in R
      <4>1. db.clauses \cap db.learnts = {}
        BY <1>1 DEF DbType
      <4>2. Len(trail_lim) = 0 /\ satisfied(db, cr)
        BY <3>2, <4>1
      <4>3. PICK q \in ToSet(lits(db, cr)) : IsTrue(q)
        BY <4>2 DEF satisfied
      <4>4. q \in m
        BY <1>1, <2>1, <4>2, <4>3, RootIs
      <4>5. QED
        BY <4>4
    <3>3. QED
      BY <3>1, <3>2
  <2>5. QED
    BY <2>1, <2>4 DEF Facts, HoldIn
<1>6. QED
  BY <1>4, <1>5, MeaningStep

(* simplify removes only clauses that the root level satisfies.            *)
LEMMA SimplifyMeaning ==
    ASSUME BaseInv, BaseInv', MeaningInv, simplify
    PROVE  MeaningInv'
<1> DEFINE R == {cr \in live(db) : satisfied(db, cr)}
<1>1. /\ Len(trail_lim) = 0 /\ db' = checkGarbage(removeClauses(db, R))
      /\ ok' = ok /\ trail' = trail /\ trail_lim' = trail_lim /\ added' = added
  BY DEF simplify, decisionLevel, trailVars, clientVars
<1>2. R \in SUBSET live(db) /\ \A cr \in R : satisfied(db, cr)
  OBVIOUS
<1> HIDE DEF R
<1>3. QED
  BY <1>1, <1>2, CleanupMeaning

(* reduceDB removes only learnt clauses.                                   *)
LEMMA ReduceMeaning ==
    ASSUME BaseInv, BaseInv', MeaningInv, Reduce
    PROVE  MeaningInv'
<1>1. ok' = ok /\ trail' = trail /\ trail_lim' = trail_lim /\ added' = added
  BY DEF Reduce, trailVars, clientVars
<1>2. \/ db' = db
      \/ \E R \in SUBSET db.learnts : db' = checkGarbage(removeClauses(db, R))
  <2> DEFINE big == {cr \in db.learnts : Len(lits(db, cr)) > 2}
             free == {cr \in big : ~locked(db, cr)}
  <2>1. free \subseteq db.learnts
    OBVIOUS
  <2>2. db' = db \/ \E R \in SUBSET free : db' = checkGarbage(removeClauses(db, R))
    BY Zenon DEF Reduce, reduceDB
  <2> HIDE DEF free
  <2>3. QED
    BY <2>1, <2>2
<1>3. CASE db' = db
  BY <1>1, <1>3, SameStoreAgain, SameRootsAgain, SameMeaning
<1>4. ASSUME NEW R \in SUBSET db.learnts, db' = checkGarbage(removeClauses(db, R))
      PROVE  MeaningInv'
  <2>1. R \in SUBSET live(db)
    BY DEF BaseInv, DbInv, DbType
  <2>2. QED
    BY <1>1, <1>4, <2>1, CleanupMeaning
<1>5. QED
  BY <1>2, <1>3, <1>4

(* search goes on although the root level has nothing new to simplify by.  *)
LEMMA KeepAsItIsMeaning ==
    ASSUME BaseInv, BaseInv', MeaningInv, KeepAsItIs
    PROVE  MeaningInv'
<1>1. ok' = ok /\ trail' = trail /\ trail_lim' = trail_lim /\ added' = added /\ db' = db
  BY DEF KeepAsItIs, trailVars, clientVars
<1>2. QED
  BY <1>1, SameStoreAgain, SameRootsAgain, SameMeaning

-----------------------------------------------------------------------------
(* Where the new clause belongs.                                           *)
IsLearnt(d, e, learnt, cr) ==
    /\ learnt => e.clauses = d.clauses
    /\ ~learnt => e.clauses = d.clauses \cup {cr} /\ e.learnts = d.learnts

(* A new clause goes to clauses or to learnts.                             *)
LEMMA NewClauseKind ==
    ASSUME NEW V \in SUBSET Nat, NEW d, DbType(d, V), NEW c, IsLits(c, V), NEW learnt \in BOOLEAN,
           NEW e, e = newClause(d, c, learnt)
    PROVE  IsLearnt(d, e, learnt, NextCRef(d))
<1> DEFINE cr == NextCRef(d)
<1> HIDE DEF cr
<1>1. ClauseAdded(d, e, V, cr, c, learnt)
  BY NewClauseFields DEF cr
<1>2. /\ e.clauses = IF learnt THEN d.clauses ELSE d.clauses \cup {cr}
      /\ e.learnts = IF learnt THEN d.learnts \cup {cr} ELSE d.learnts
  BY <1>1 DEF ClauseAdded
<1>3. IsLearnt(d, e, learnt, cr)
  BY <1>2 DEF IsLearnt
<1>4. QED
  BY <1>3 DEF cr

(* The learnt clause is a clause among others, or a fact.                  *)
LEMMA LearntHolds ==
    ASSUME NEW V \in SUBSET Nat, DbInv(db, V), NEW c, Len(c) = 1 \/ IsLits(c, V),
           NEW d, d = (IF Len(c) = 1 THEN db ELSE newClause(db, c, TRUE)),
           NEW m
    PROVE  /\ d.clauses = db.clauses
           /\ HoldIn(m, d, d.clauses) <=> HoldIn(m, db, db.clauses)
           /\ HoldIn(m, db, live(db)) /\ (\E q \in ToSet(c) : q \in m) => HoldIn(m, d, live(d))
<1>1. CASE Len(c) = 1
  <2>1. d = db
    BY <1>1
  <2>2. QED
    BY <2>1
<1>2. CASE Len(c) # 1
  <2>1. d = newClause(db, c, TRUE) /\ IsLits(c, V)
    BY <1>2
  <2> DEFINE cr == NextCRef(db)
  <2>2. Added(db, d, V, cr, c) /\ d.clauses = db.clauses
    <3>1. Added(db, d, V, cr, c)
      BY <2>1, NewClauseInv
    <3>2. IsLearnt(db, d, TRUE, cr)
      BY <2>1, NewClauseKind DEF DbInv
    <3>3. QED
      BY <3>1, <3>2 DEF IsLearnt
  <2>3. /\ live(d) = live(db) \cup {cr} /\ lits(d, cr) = c
        /\ \A r \in 1 .. Len(db.ca) : lits(d, r) = lits(db, r)
    BY <2>2 DEF Added, SameClause
  <2>4. live(db) \subseteq 1 .. Len(db.ca) /\ db.clauses \subseteq live(db)
    BY LiveIs DEF DbInv, DbType
  <2> HIDE DEF cr
  <2>5. \A r \in live(db) : lits(d, r) = lits(db, r)
    BY <2>3, <2>4
  <2>6. HoldIn(m, d, d.clauses) <=> HoldIn(m, db, db.clauses)
    <3>1. \A r \in db.clauses : lits(d, r) = lits(db, r)
      BY <2>4, <2>5
    <3>2. d.clauses = db.clauses
      BY <2>2
    <3>3. QED
      BY <3>1, <3>2 DEF HoldIn
  <2>7. ASSUME HoldIn(m, db, live(db)), \E q \in ToSet(c) : q \in m PROVE HoldIn(m, d, live(d))
    <3>1. ASSUME NEW r \in live(d) PROVE \E q \in ToSet(lits(d, r)) : q \in m
      <4>1. CASE r = cr
        BY <2>3, <2>7, <4>1
      <4>2. CASE r # cr
        <5>1. r \in live(db)
          BY <2>3, <4>2
        <5>2. QED
          BY <2>5, <2>7, <5>1 DEF HoldIn
      <4>3. QED
        BY <4>1, <4>2
    <3>2. QED
      BY <3>1 DEF HoldIn
  <2>8. QED
    BY <2>2, <2>6, <2>7
<1>3. QED
  BY <1>1, <1>2

(* A learnt clause is added, its first literal is assigned.                *)
LEMMA LearnMeaning ==
    ASSUME BaseInv, BaseInv', MeaningInv, Learn
    PROVE  MeaningInv'
<1> DEFINE V == AllVars
<1>1. PICK c \in Learnable : LearnStep(c, newClause(db, c, TRUE))
  BY DEF Learn, LearnStep
<1>2. /\ pc = "search" /\ confl # CRef_Undef /\ decisionLevel > 0
      /\ ok' = ok /\ added' = added
  BY DEF Learn, clientVars
<1>3. /\ ConflInv /\ TrailOK /\ DbInv(db, V) /\ DbType(db, V)
      /\ TrailType(trail, trail_lim, V) /\ ReasonInv(db, trail)
      /\ DecisionInv(db, trail, trail_lim) /\ V \in SUBSET Nat
  BY DEF BaseInv, VarsInv, TrailOK, DbInv
<1>4. CanAnalyze(V)
  <2>1. Len(trail_lim) \in Nat /\ Len(trail_lim) > 0
    BY <1>2, <1>3, TrailIs DEF decisionLevel
  <2>2. QED
    BY <1>2, <1>3, <2>1 DEF CanAnalyze, ConflInv
<1> DEFINE b == btlevel(c)
           s == KeptTrail(b)
           k == KeptLevels(b)
           d == IF Len(c) = 1 THEN db ELSE newClause(db, c, TRUE)
           r == IF Len(c) = 1 THEN CRef_Undef ELSE NextCRef(db)
<1> HIDE DEF V
<1>5. Learned(V, c, b)
  BY <1>4, LearnableIs
<1>6. /\ cancelUntil(b, <<c[1]>>, order_heap)
      /\ db' = [d EXCEPT !.reason[var(c[1])] = r]
  BY <1>1 DEF LearnStep
<1> HIDE DEF b, s, k, d, r
<1>7. b \in 0 .. Len(trail_lim)
  BY <1>3, <1>5, TrailIs DEF Learned
<1>8. Cancelled(b, s, k)
  BY <1>2, <1>6, <1>7, CancelIs DEF s, k
<1>9. Undone(b, s, k) /\ s = KeptTrail(b) /\ trail_lim' = k
  BY <1>8 DEF Cancelled
<1>10. LearntDb(c, d, s, k, V, b, r)
  BY <1>3, <1>5, <1>9, LearntIs DEF d, r, V
<1>11. /\ DbInv(d, V) /\ TrailType(s, k, V) /\ DbType(d, V)
       /\ c[1] \in Lits(V) /\ \A i \in 1 .. Len(s) : var(s[i]) # var(c[1])
       /\ r # CRef_Undef => IsReason(d, s, c[1], r)
  BY <1>10 DEF LearntDb, DbInv
<1>12. s \in Seq(Lits(V)) /\ Len(k) \in Nat
  BY <1>11, TrailIs
<1>13. trail' = Append(s, c[1])
  <2>1. trail' = s \o <<c[1]>>
    BY <1>6 DEF cancelUntil, s
  <2>2. s \o <<c[1]>> = Append(s, c[1])
    BY <1>11, <1>12, AppendIsConcat
  <2>3. QED
    BY <2>1, <2>2
<1>14. db'.ca = d.ca /\ db'.clauses = d.clauses /\ db'.learnts = d.learnts
  <2>1. DOMAIN d = {"ca", "clauses", "learnts", "dirties", "watches", "reason"}
    BY <1>11 DEF DbType
  <2>2. QED
    BY <1>6, <2>1
<1>15. live(db') = live(d) /\ \A x : lits(db', x) = lits(d, x)
  BY <1>14 DEF live, lits
<1>16. Len(c) = 1 \/ IsLits(c, V)
  BY <1>5 DEF Learned
<1>17. ASSUME NEW m
       PROVE  /\ HoldIn(m, db', db'.clauses) <=> HoldIn(m, db, db.clauses)
              /\ HoldIn(m, db, live(db)) /\ (\E q \in ToSet(c) : q \in m) => HoldIn(m, db', live(db'))
  <2>1. /\ HoldIn(m, d, d.clauses) <=> HoldIn(m, db, db.clauses)
        /\ HoldIn(m, db, live(db)) /\ (\E q \in ToSet(c) : q \in m) => HoldIn(m, d, live(d))
    BY <1>3, <1>16, LearntHolds DEF d
  <2>2. \A R : HoldIn(m, db', R) <=> HoldIn(m, d, R)
    BY <1>15 DEF HoldIn
  <2>3. QED
    BY <1>14, <1>15, <2>1, <2>2
<1>18. SameRoots(trail, trail_lim, s, k)
  BY <1>3, <1>7, <1>9, UndoneRoots
<1>19. ASSUME NEW m
       PROVE  /\ RootsIn(m, trail', trail_lim') => RootsIn(m, trail, trail_lim)
              /\ Model(m) => RootsIn(m, trail', trail_lim')
  <2>1. RootsIn(m, s, k) <=> RootsIn(m, trail, trail_lim)
    BY <1>18, RootsAre
  <2>2. CASE Len(k) >= 1
    <3>1. Begins(s, trail')
      BY <1>12, <1>13, BeginsAppend
    <3>2. SameRoots(s, k, trail', trail_lim')
      BY <1>9, <1>11, <2>2, <3>1, AboveRoots
    <3>3. RootsIn(m, trail', trail_lim') <=> RootsIn(m, s, k)
      BY <3>2, RootsAre
    <3>4. QED
      BY <2>1, <3>3 DEF Model
  <2>3. CASE Len(k) = 0
    <3>1. RootsIn(m, trail', k) <=> RootsIn(m, s, k) /\ c[1] \in m
      <4>1. PICK t : t = trail'
        OBVIOUS
      <4>2. PICK p : p = c[1]
        OBVIOUS
      <4>3. t = Append(s, p)
        BY <1>13, <4>1, <4>2
      <4>4. RootsIn(m, t, k) <=> RootsIn(m, s, k) /\ p \in m
        BY <1>12, <2>3, <4>3, RootsPushed
      <4>5. QED
        BY <4>1, <4>2, <4>4
    <3>2. ASSUME Model(m) PROVE c[1] \in m
      <4>1. \E q \in ToSet(c) : q \in m
        BY <1>4, <3>2, LearnableHolds
      <4>2. Total(m) /\ RootsIn(m, s, k)
        BY <2>1, <3>2 DEF Model
      <4>3. CASE Len(c) = 1
        <5>1. ToSet(c) \subseteq {c[1]}
          BY <1>5, <4>3 DEF Learned
        <5>2. QED
          BY <4>1, <5>1
      <4>4. CASE Len(c) # 1
        <5>1. r # CRef_Undef
          BY <1>3, <4>4 DEF r, NextCRef, CRef_Undef, DbType
        <5>2. IsReason(d, s, c[1], r)
          BY <1>11, <5>1
        <5>3. d = newClause(db, c, TRUE) /\ r = NextCRef(db) /\ IsLits(c, V)
          BY <1>16, <4>4 DEF d, r
        <5>4. lits(d, r) = c
          <6>1. Added(db, d, V, NextCRef(db), c)
            BY <1>3, <5>3, NewClauseInv
          <6>2. QED
            BY <5>3, <6>1 DEF Added
        <5>5. \A j \in 2 .. Len(c) : neg(c[j]) \in ToSet(s)
          BY <5>2, <5>4 DEF IsReason
        <5>6. ToSet(s) \subseteq m
          <6>1. \A i \in 1 .. Len(s) : s[i] \in m
            BY <2>3, <4>2 DEF RootsIn, RootLen
          <6>2. QED
            BY <1>12, <6>1, ToSetIs
        <5>7. c \in Seq(Lits(V))
          BY <5>3 DEF IsLits
        <5>8. QED
          BY <1>3, <4>1, <4>2, <5>5, <5>6, <5>7, FirstHolds
      <4>5. QED
        BY <4>3, <4>4
    <3>3. Model(m) => RootsIn(m, trail, trail_lim)
      BY DEF Model
    <3>4. QED
      BY <1>9, <2>1, <3>1, <3>2, <3>3
  <2>4. QED
    BY <1>12, <2>2, <2>3
<1>20. ASSUME NEW m PROVE (Model(m) => Model(m)') /\ (Facts(m)' => Facts(m))
  <2>1. Model(m) => \E q \in ToSet(c) : q \in m
    BY <1>4, LearnableHolds
  <2>2. Model(m) => Model(m)'
    BY <1>17, <1>19, <2>1 DEF Model
  <2>3. Facts(m)' => Facts(m)
    BY <1>17, <1>19 DEF Facts
  <2>4. QED
    BY <2>2, <2>3
<1>21. QED
  BY <1>2, <1>20, MeaningStep

-----------------------------------------------------------------------------
(* A clause more: the models are those that satisfy it, too.               *)
LEMMA AddedMeaning ==
    ASSUME MeaningInv, NEW C, added' = added \cup {C},
           \A m : Total(m) => (ok' /\ Facts(m)' <=> ok /\ Facts(m) /\ C \cap m # {}),
           \A m : HoldIn(m, db, db.learnts) => HoldIn(m, db', db'.learnts)
    PROVE  MeaningInv'
<1>1. ASSUME NEW m, Total(m)
      PROVE  /\ (Satisfies(m, added') <=> ok' /\ Facts(m)')
             /\ (Satisfies(m, added') => HoldIn(m, db', db'.learnts))
  <2>1. /\ Satisfies(m, added) <=> ok /\ Facts(m)
        /\ Satisfies(m, added) => HoldIn(m, db, db.learnts)
    BY <1>1, MeaningIs
  <2>2. Satisfies(m, added') <=> Satisfies(m, added) /\ C \cap m # {}
    BY DEF Satisfies
  <2>3. ok' /\ Facts(m)' <=> ok /\ Facts(m) /\ C \cap m # {}
    BY <1>1
  <2>4. HoldIn(m, db, db.learnts) => HoldIn(m, db', db'.learnts)
    OBVIOUS
  <2>5. QED
    BY <2>1, <2>2, <2>3, <2>4
<1>2. QED
  BY <1>1, MeaningAfter

(* What the root level makes of a clause that is added.                    *)
LEMMA RootsFalsify ==
    ASSUME NEW V, TrailType(trail, trail_lim, V), Len(trail_lim) = 0, NEW C, C \subseteq Nat, NEW m,
           Total(m), Facts(m)
    PROVE  /\ Holds(C) => C \cap m # {}
           /\ C \cap m # {} <=> \E q \in Unfalsified(C) : q \in m
<1>1. \A p : IsTrue(p) => p \in m
  BY RootIs DEF Facts
<1>2. \A p \in Nat : p \in m <=> neg(p) \notin m
  BY DEF Total
<1>3. \A p \in C : p \in m => ~IsFalse(p)
  BY <1>1, <1>2 DEF IsFalse, IsTrue
<1>4. Holds(C) => C \cap m # {}
  BY <1>1, <1>2 DEF Holds
<1>5. QED
  BY <1>3, <1>4 DEF Unfalsified

(* The databases have the same clauses, of the same literals.              *)
LEMMA SameStoreHolds ==
    ASSUME NEW d, NEW e, SameStore(d, e), NEW m
    PROVE  /\ HoldIn(m, e, e.clauses) <=> HoldIn(m, d, d.clauses)
           /\ HoldIn(m, e, e.learnts) <=> HoldIn(m, d, d.learnts)
  BY DEF SameStore, HoldIn, lits

(* A new clause among those of the client.                                 *)
LEMMA NewClauseHolds ==
    ASSUME NEW W \in SUBSET Nat, NEW d, DbInv(d, W), NEW c, IsLits(c, W),
           NEW e, e = newClause(d, c, FALSE), NEW m
    PROVE  /\ HoldIn(m, e, e.clauses) <=> HoldIn(m, d, d.clauses) /\ \E q \in ToSet(c) : q \in m
           /\ HoldIn(m, d, d.learnts) => HoldIn(m, e, e.learnts)
<1> DEFINE cr == NextCRef(d)
<1>1. Added(d, e, W, cr, c)
  BY NewClauseInv
<1>2. IsLearnt(d, e, FALSE, cr)
  BY NewClauseKind DEF DbInv
<1>3. /\ lits(e, cr) = c
      /\ \A r \in 1 .. Len(d.ca) : lits(e, r) = lits(d, r)
  BY <1>1 DEF Added, SameClause
<1>4. live(d) \subseteq 1 .. Len(d.ca) /\ d.clauses \subseteq live(d) /\ d.learnts \subseteq live(d)
  BY LiveIs DEF DbInv, DbType
<1> HIDE DEF cr
<1>5. \A r \in live(d) : lits(e, r) = lits(d, r)
  BY <1>3, <1>4
<1>6. e.clauses = d.clauses \cup {cr} /\ e.learnts = d.learnts
  BY <1>2 DEF IsLearnt
<1>7. HoldIn(m, d, d.learnts) => HoldIn(m, e, e.learnts)
  <2>1. \A r \in d.learnts : lits(e, r) = lits(d, r)
    BY <1>4, <1>5
  <2>2. QED
    BY <1>6, <2>1 DEF HoldIn
<1>8. HoldIn(m, e, e.clauses) <=> HoldIn(m, e, d.clauses) /\ \E q \in ToSet(c) : q \in m
  <2>1. HoldIn(m, e, d.clauses \cup {cr}) <=>
          HoldIn(m, e, d.clauses) /\ \E q \in ToSet(lits(e, cr)) : q \in m
    BY DEF HoldIn
  <2>2. QED
    BY <1>3, <1>6, <2>1
<1>9. HoldIn(m, e, d.clauses) <=> HoldIn(m, d, d.clauses)
  <2>1. \A r \in d.clauses : lits(e, r) = lits(d, r)
    BY <1>4, <1>5
  <2>2. QED
    BY <2>1 DEF HoldIn
<1>10. QED
  BY <1>7, <1>8, <1>9

(* What addClause_ keeps of a clause says what the clause says.            *)
LEMMA AddClauseMeaning ==
    ASSUME BaseInv, MeaningInv, pc = "idle", NEW C, IsClause(C), add_clause(C)
    PROVE  MeaningInv'
<1> DEFINE T == VarsOf(C) \cup {0}
           W == AllVars \cup 0 .. Max(T)
           nv == newVars(Max(T), FALSE)
           c == Sorted(Unfalsified(C))
           d == nv.db
<1>1. VarsInv /\ AllVars \subseteq Nat /\ ok \in BOOLEAN
  BY DEF BaseInv, VarsInv
<1>2. AddOutcome(C, nv, c) /\ added' = added \cup {C} /\ trail_lim' = trail_lim
  BY <1>1, AddIs
<1>3. Covering(W, C)
  BY <1>1, CoveringIs
<1>4. NewState(nv, W)
  BY NewStateIs
<1> HIDE DEF T, W, nv, c, d
<1>5. VarsGrown(nv, W)
  BY <1>3, <1>4, VarsGrownIs
<1>6. /\ W \in SUBSET Nat /\ \A p \in C : var(p) \in W
  BY <1>3 DEF Covering
<1>7. /\ DbInv(d, W) /\ TrailType(trail, trail_lim, W) /\ SameStore(db, d)
  BY <1>5 DEF VarsGrown, d
<1>8. Len(trail_lim) = 0
  BY IdleIs
<1>9. trail \in Seq(Lits(W))
  BY <1>7, TrailIs
<1>10. C \subseteq Nat
  BY DEF IsClause
<1>11. \A m : /\ HoldIn(m, d, d.clauses) <=> HoldIn(m, db, db.clauses)
              /\ HoldIn(m, d, d.learnts) <=> HoldIn(m, db, db.learnts)
  BY <1>7, SameStoreHolds
<1>12. ASSUME NEW m, Total(m), Facts(m)
       PROVE  /\ Holds(C) => C \cap m # {}
              /\ C \cap m # {} <=> \E q \in Unfalsified(C) : q \in m
  BY <1>7, <1>8, <1>10, <1>12, RootsFalsify
<1>13. CASE db' = d /\ trail' = trail /\ ((~ok \/ Holds(C)) /\ ok' = ok)
  <2>1. ASSUME NEW m PROVE Facts(m)' <=> Facts(m)
    BY <1>2, <1>11, <1>13 DEF Facts
  <2>2. ASSUME NEW m, Total(m) PROVE ok' /\ Facts(m)' <=> ok /\ Facts(m) /\ C \cap m # {}
    BY <1>12, <1>13, <2>1, <2>2
  <2>3. \A m : HoldIn(m, db, db.learnts) => HoldIn(m, db', db'.learnts)
    BY <1>11, <1>13
  <2>4. QED
    BY <1>2, <2>2, <2>3, AddedMeaning
<1>14. CASE db' = d /\ trail' = trail /\ (ok /\ ~Holds(C) /\ Len(c) = 0 /\ ok' = FALSE)
  <2>1. Unfalsified(C) = {}
    <3>1. c \in Seq(Lits(W)) /\ ToSet(c) = Unfalsified(C)
      BY <1>6, <1>14, UnfalsifiedIs DEF c
    <3>2. \A x : x \in ToSet(c) <=> \E i \in 1 .. Len(c) : c[i] = x
      BY <3>1, ToSetIs
    <3>3. QED
      BY <1>14, <3>1, <3>2
  <2>2. ASSUME NEW m, Total(m) PROVE ok' /\ Facts(m)' <=> ok /\ Facts(m) /\ C \cap m # {}
    BY <1>12, <1>14, <2>1, <2>2
  <2>3. \A m : HoldIn(m, db, db.learnts) => HoldIn(m, db', db'.learnts)
    BY <1>11, <1>14
  <2>4. QED
    BY <1>2, <2>2, <2>3, AddedMeaning
<1>15. CASE /\ ok /\ ~Holds(C) /\ Len(c) = 1
            /\ trail' = Append(trail, c[1])
            /\ db' = [d EXCEPT !.reason[var(c[1])] = CRef_Undef]
            /\ ok' = ok
  <2>1. /\ c \in Seq(Lits(W)) /\ ToSet(c) = Unfalsified(C)
    BY <1>6, <1>15, UnfalsifiedIs DEF c
  <2>2. \A x : x \in ToSet(c) <=> \E i \in 1 .. Len(c) : c[i] = x
    BY <2>1, ToSetIs
  <2>3. Unfalsified(C) = {c[1]}
    BY <1>15, <2>1, <2>2
  <2>4. db'.ca = d.ca /\ db'.clauses = d.clauses /\ db'.learnts = d.learnts /\ db'.dirties = d.dirties
    <3>1. DOMAIN d = {"ca", "clauses", "learnts", "dirties", "watches", "reason"}
      BY <1>7 DEF DbInv, DbType
    <3>2. QED
      BY <1>15, <3>1
  <2>5. SameStore(d, db')
    BY <2>4 DEF SameStore
  <2>6. ASSUME NEW m PROVE Facts(m)' <=> Facts(m) /\ c[1] \in m
    <3>1. RootsIn(m, trail', trail_lim) <=> RootsIn(m, trail, trail_lim) /\ c[1] \in m
      <4>1. PICK t : t = trail'
        OBVIOUS
      <4>2. PICK p : p = c[1]
        OBVIOUS
      <4>3. t = Append(trail, p)
        BY <1>15, <4>1, <4>2
      <4>4. RootsIn(m, t, trail_lim) <=> RootsIn(m, trail, trail_lim) /\ p \in m
        BY <1>8, <1>9, <4>3, RootsPushed
      <4>5. QED
        BY <4>1, <4>2, <4>4
    <3>2. HoldIn(m, db', db'.clauses) <=> HoldIn(m, d, d.clauses)
      BY <2>5, SameStoreHolds
    <3>3. QED
      BY <1>2, <1>11, <3>1, <3>2 DEF Facts
  <2>7. ASSUME NEW m, Total(m) PROVE ok' /\ Facts(m)' <=> ok /\ Facts(m) /\ C \cap m # {}
    BY <1>12, <1>15, <2>3, <2>6, <2>7
  <2>8. ASSUME NEW m, HoldIn(m, db, db.learnts) PROVE HoldIn(m, db', db'.learnts)
    BY <1>11, <2>5, <2>8, SameStoreHolds
  <2>9. QED
    BY <1>2, <2>7, <2>8, AddedMeaning
<1>16. CASE /\ ok /\ ~Holds(C) /\ Len(c) # 0 /\ Len(c) # 1
            /\ db' = newClause(d, c, FALSE)
            /\ trail' = trail /\ ok' = ok
  <2>1. ToSet(c) = Unfalsified(C) /\ Len(c) \in Nat /\ (Len(c) >= 2 => IsLits(c, W))
    BY <1>6, <1>16, UnfalsifiedIs DEF c
  <2>2. IsLits(c, W)
    <3>1. \A n \in Nat : n # 0 /\ n # 1 => n >= 2
      OBVIOUS
    <3>2. QED
      BY <1>16, <2>1, <3>1
  <2>3. ASSUME NEW m
        PROVE  /\ HoldIn(m, db', db'.clauses) <=> HoldIn(m, d, d.clauses) /\ \E q \in ToSet(c) : q \in m
               /\ HoldIn(m, d, d.learnts) => HoldIn(m, db', db'.learnts)
    BY <1>6, <1>7, <1>16, <2>2, NewClauseHolds
  <2>4. ASSUME NEW m PROVE Facts(m)' <=> Facts(m) /\ \E q \in Unfalsified(C) : q \in m
    BY <1>2, <1>11, <1>16, <2>1, <2>3 DEF Facts
  <2>5. ASSUME NEW m, Total(m) PROVE ok' /\ Facts(m)' <=> ok /\ Facts(m) /\ C \cap m # {}
    BY <1>12, <1>16, <2>4, <2>5
  <2>6. ASSUME NEW m, HoldIn(m, db, db.learnts) PROVE HoldIn(m, db', db'.learnts)
    BY <1>11, <2>3, <2>6
  <2>7. QED
    BY <1>2, <2>5, <2>6, AddedMeaning
<1>17. QED
  BY <1>2, <1>13, <1>14, <1>15, <1>16 DEF AddOutcome, d

(* The caller adds a clause, before the first question or later.           *)
LEMMA AddingMeaning ==
    ASSUME SolverAssumption, BaseInv, MeaningInv, AddFirst \/ AddLater
    PROVE  MeaningInv'
<1>1. CASE AddFirst
  <2>1. pc = "idle" /\ toAdd # <<>> /\ add_clause(Head(toAdd))
    BY <1>1 DEF AddFirst
  <2>2. toAdd \in Seq(SUBSET Nat) /\ \A i \in 1 .. Len(toAdd) : IsClause(toAdd[i])
    BY DEF BaseInv, ClientInv
  <2>3. Len(toAdd) >= 1 /\ Head(toAdd) = toAdd[1]
    BY <2>1, <2>2
  <2>4. IsClause(Head(toAdd))
    BY <2>2, <2>3
  <2>5. QED
    BY <2>1, <2>4, AddClauseMeaning
<1>2. CASE AddLater
  <2>1. pc = "idle" /\ \E C \in Extra : add_clause(C)
    BY <1>2 DEF AddLater
  <2>2. \A C \in Extra : IsClause(C)
    BY SolverAssumption
  <2>3. QED
    BY <2>1, <2>2, AddClauseMeaning
<1>3. QED
  BY <1>1, <1>2

(* A question creates variables and touches no clause.                     *)
LEMMA SolveMeaning ==
    ASSUME SolverAssumption, BaseInv, BaseInv', MeaningInv, solve
    PROVE  MeaningInv'
<1>1. PICK as \in Questions : Ask(as)
  BY DEF solve
<1>2. /\ ok' = ok /\ trail' = trail /\ trail_lim' = trail_lim /\ added' = added
  BY <1>1 DEF Ask, solve, trailVars
<1>3. db' = newVars(Max({var(p) : p \in ToSet(as)} \cup {0}), FALSE).db
  BY <1>1, Zenon DEF Ask
<1> DEFINE n == Max({var(p) : p \in ToSet(as)} \cup {0})
           W == AllVars \cup 0 .. n
           nv == newVars(n, FALSE)
<1>4. NewState(nv, W)
  BY NewStateIs
<1> HIDE DEF n, W, nv
<1>5. db' = Grew(db, AllVars, W)
  BY <1>3, <1>4 DEF NewState, nv, n
<1>6. SameClauses(db, db')
  <2>1. DOMAIN db = {"ca", "clauses", "learnts", "dirties", "watches", "reason"}
    BY DEF BaseInv, DbInv, DbType
  <2>2. db'.ca = db.ca /\ db'.clauses = db.clauses /\ db'.learnts = db.learnts
    BY <1>5, <2>1 DEF Grew
  <2>3. QED
    BY <2>2, SameStoreAgain
<1>7. QED
  BY <1>2, <1>6, SameRootsAgain, SameMeaning

-----------------------------------------------------------------------------
(* Nothing was added, nothing is kept.                                     *)
LEMMA InitMeaning ==
    ASSUME Init
    PROVE  MeaningInv
<1>1. /\ ok = TRUE /\ added = {} /\ trail = <<>> /\ trail_lim = <<>>
      /\ db.clauses = {} /\ db.learnts = {}
  BY DEF Init
<1>2. ASSUME NEW m PROVE MeaningAt(m)
  <2>1. Satisfies(m, added) /\ HoldIn(m, db, db.clauses) /\ HoldIn(m, db, db.learnts)
    BY <1>1 DEF Satisfies, HoldIn
  <2>2. RootsIn(m, trail, trail_lim)
    BY <1>1 DEF RootsIn, RootLen
  <2>3. QED
    BY <1>1, <2>1, <2>2 DEF MeaningAt
<1>3. QED
  BY <1>2 DEF MeaningInv

(* Nothing happens.                                                        *)
LEMMA StutterMeaning ==
    ASSUME BaseInv, BaseInv', MeaningInv, UNCHANGED vars
    PROVE  MeaningInv'
<1>1. ok' = ok /\ db' = db /\ trail' = trail /\ trail_lim' = trail_lim /\ added' = added
  BY DEF vars, trailVars, clientVars
<1>2. SameClauses(db, db')
  BY <1>1, SameStoreAgain
<1>3. QED
  BY <1>1, <1>2, SameRootsAgain, SameMeaning

(* Every step keeps the meaning of what is stored.                         *)
LEMMA MeaningInductive ==
    ASSUME SolverAssumption, BaseInv, BaseInv', MeaningInv, [Next]_vars
    PROVE  MeaningInv'
<1>1. CASE Client
  <2>1. CASE AddFirst \/ AddLater
    BY <2>1, AddingMeaning
  <2>2. CASE solve
    BY <2>2, SolveMeaning
  <2>3. CASE Idle
    BY <2>3, StutterMeaning DEF Idle
  <2>4. QED
    BY <1>1, <2>1, <2>2, <2>3 DEF Client
<1>2. CASE Propagation
  <2>1. CASE NextFact \/ PropagateDone
    BY <2>1, CleaningMeaning
  <2>2. CASE BlockerTrue \/ FirstTrue \/ Conflicting
    BY <2>2, VisitMeaning
  <2>3. CASE MoveWatch
    BY <2>3, MoveWatchMeaning
  <2>4. CASE Unit
    BY <2>4, UnitMeaning
  <2>5. QED
    BY <1>2, <2>1, <2>2, <2>3, <2>4 DEF Propagation
<1>3. CASE Search
  <2>1. CASE AddPropagated
    BY <2>1, AddPropagatedMeaning
  <2>2. CASE Refuse \/ ConflictAtRoot \/ AssumptionFails \/ ModelFound
    BY <2>2, AnswersMeaning
  <2>3. CASE Learn
    BY <2>3, LearnMeaning
  <2>4. CASE Restart
    BY <2>4, RestartMeaning
  <2>5. CASE KeepAsItIs
    BY <2>5, KeepAsItIsMeaning
  <2>6. CASE simplify
    BY <2>6, SimplifyMeaning
  <2>7. CASE Reduce
    BY <2>7, ReduceMeaning
  <2>8. CASE DummyLevel \/ Assume \/ pickBranchLit
    BY <2>8, DecisionMeaning
  <2>9. QED
    BY <1>3, <2>1, <2>2, <2>3, <2>4, <2>5, <2>6, <2>7, <2>8 DEF Search
<1>4. CASE UNCHANGED vars
  BY <1>4, StutterMeaning
<1>5. QED
  BY <1>1, <1>2, <1>3, <1>4 DEF Next, Work

(* In every state the clauses and the assignments of the root level have   *)
(* the models of all that was added, and learnt clauses exclude none.      *)
THEOREM MeaningInvariant == Spec => []MeaningInv
<1>1. Init => MeaningInv
  BY InitMeaning
<1>2. BaseInv /\ BaseInv' /\ MeaningInv /\ [Next]_vars => MeaningInv'
  BY SolverAssumption, MeaningInductive
<1>3. QED
  BY <1>1, <1>2, BaseInvariant, PTL DEF Spec

(* A total assignment of the variables V, extended to all there can be.    *)
Extended(m, V) == m \cup {p \in Nat : var(p) \notin V /\ ~sign(p)}

(* The extension is total and agrees with the assignment on V.             *)
LEMMA ExtendedIs ==
    ASSUME NEW V \in SUBSET Nat, NEW m \in TotalOver(V)
    PROVE  /\ Total(Extended(m, V))
           /\ \A p \in Nat : var(p) \in V => (p \in Extended(m, V) <=> p \in m)
<1> DEFINE M == Extended(m, V)
<1>1. /\ m \subseteq Nat
      /\ \A p \in Nat : p \in m => var(p) \in V /\ neg(p) \notin m
      /\ \A p \in Nat : var(p) \in V => p \in m \/ neg(p) \in m
  BY TotalAssignment DEF Literal
<1>2. \A p : p \in M <=> p \in m \/ (p \in Nat /\ var(p) \notin V /\ ~sign(p))
  BY DEF Extended
<1> HIDE DEF M
<1>3. \A p \in Nat : var(p) \in V => (p \in M <=> p \in m)
  BY <1>2
<1>4. ASSUME NEW p \in Nat PROVE p \in M <=> neg(p) \notin M
  <2>1. neg(p) \in Nat /\ var(neg(p)) = var(p) /\ neg(neg(p)) = p
    BY Negation DEF Literal
  <2>2. CASE var(p) \in V
    BY <1>1, <1>3, <2>1, <2>2
  <2>3. CASE var(p) \notin V
    <3>1. sign(neg(p)) <=> ~sign(p)
      BY DEF neg, sign
    <3>2. p \notin m /\ neg(p) \notin m
      BY <1>1, <2>1, <2>3
    <3>3. QED
      BY <1>2, <2>1, <2>3, <3>1, <3>2
  <2>4. QED
    BY <2>2, <2>3
<1>5. M \in SUBSET Nat
  BY <1>1, <1>2
<1>6. QED
  BY <1>3, <1>4, <1>5 DEF M, Total

(* Clauses over V do not tell the extension from the assignment.           *)
LEMMA ExtendedSatisfies ==
    ASSUME NEW V \in SUBSET Nat, NEW m \in TotalOver(V), NEW F,
           \A C \in F : \A p \in C : p \in Nat /\ var(p) \in V
    PROVE  Satisfies(Extended(m, V), F) <=> Satisfies(m, F)
<1>1. \A p \in Nat : var(p) \in V => (p \in Extended(m, V) <=> p \in m)
  BY ExtendedIs
<1>2. \A C \in F : C \cap Extended(m, V) # {} <=> C \cap m # {}
  BY <1>1
<1>3. QED
  BY <1>2 DEF Satisfies

(* The literals of every clause are those of known variables.              *)
LEMMA ClauseSetOver ==
    ASSUME BaseInv, NEW R, R \subseteq live(db)
    PROVE  /\ \A C \in ClauseSet(R) : \A p \in C : p \in Nat /\ var(p) \in AllVars
           /\ \A m : Satisfies(m, ClauseSet(R)) <=> HoldIn(m, db, R)
<1>1. DbType(db, AllVars) /\ AllVars \in SUBSET Nat
  BY DEF BaseInv, DbInv, VarsInv
<1>2. ASSUME NEW r \in R, NEW p \in ToSet(lits(db, r)) PROVE p \in Nat /\ var(p) \in AllVars
  <2>1. r \in 1 .. Len(db.ca)
    BY <1>1, LiveIs
  <2>2. lits(db, r) \in Seq(Lits(AllVars))
    BY <1>1, <2>1, ClauseIs
  <2>3. PICK i \in 1 .. Len(lits(db, r)) : lits(db, r)[i] = p
    BY <2>2, ToSetIs
  <2>4. p \in Lits(AllVars)
    BY <2>2, <2>3, ElementOfSeq
  <2>5. QED
    BY <1>1, <2>4, LitsAre
<1>3. ASSUME NEW m PROVE Satisfies(m, ClauseSet(R)) <=> HoldIn(m, db, R)
  BY DEF Satisfies, ClauseSet, HoldIn
<1>4. QED
  BY <1>2, <1>3 DEF ClauseSet

(* The root assignments are units.                                         *)
LEMMA RootTrailIs ==
    ASSUME BaseInv
    PROVE  /\ \A C \in Units(ToSet(RootTrail)) : \A p \in C : p \in Nat /\ var(p) \in AllVars
           /\ \A m : Satisfies(m, Units(ToSet(RootTrail))) <=> RootsIn(m, trail, trail_lim)
<1> DEFINE k == RootLen(trail, trail_lim)
           s == RootTrail
<1>1. TrailType(trail, trail_lim, AllVars) /\ AllVars \in SUBSET Nat
  BY DEF BaseInv, TrailOK, VarsInv
<1>2. /\ trail \in Seq(Lits(AllVars)) /\ Len(trail) \in Nat
      /\ \A i \in 1 .. Len(trail) : trail[i] \in Lits(AllVars)
      /\ trail_lim \in Seq(Nat) /\ Len(trail_lim) \in Nat
      /\ \A j \in 1 .. Len(trail_lim) : trail_lim[j] \in Nat /\ trail_lim[j] <= Len(trail)
  BY <1>1, TrailIs
<1>3. k \in Nat /\ k <= Len(trail) /\ Len(s) = k /\ s \in Seq(Lits(AllVars))
      /\ \A i \in 1 .. k : s[i] = trail[i]
  <2>1. CASE trail_lim = <<>>
    BY <1>2, <2>1 DEF RootLen, RootTrail
  <2>2. CASE trail_lim # <<>>
    <3>1. 1 \in 1 .. Len(trail_lim) /\ Len(trail_lim) # 0
      BY <1>2, <2>2
    <3>2. trail_lim[1] \in Nat /\ trail_lim[1] <= Len(trail)
      BY <1>2, <3>1
    <3>3. s = SubSeq(trail, 1, trail_lim[1]) /\ k = trail_lim[1]
      BY <2>2, <3>1 DEF RootLen, RootTrail
    <3>4. QED
      BY <1>2, <3>2, <3>3
  <2>3. QED
    BY <2>1, <2>2
<1> HIDE DEF k, s
<1>4. \A p : p \in ToSet(s) <=> \E i \in 1 .. k : s[i] = p
  BY <1>3, ToSetIs
<1>5. \A C : C \in Units(ToSet(s)) <=> \E i \in 1 .. k : C = {trail[i]}
  BY <1>3, <1>4 DEF Units
<1>6. \A i \in 1 .. k : trail[i] \in Nat /\ var(trail[i]) \in AllVars
  <2>1. \A i \in 1 .. k : i \in 1 .. Len(trail)
    BY <1>2, <1>3
  <2>2. QED
    BY <1>1, <1>2, <2>1, LitsAre
<1>7. ASSUME NEW m PROVE Satisfies(m, Units(ToSet(s))) <=> \A i \in 1 .. k : trail[i] \in m
  <2>1. ASSUME NEW i PROVE {trail[i]} \cap m # {} <=> trail[i] \in m
    OBVIOUS
  <2>2. QED
    BY <1>5, <2>1 DEF Satisfies
<1>8. QED
  BY <1>5, <1>6, <1>7 DEF k, s, RootsIn

(* Nothing that was added is lost: what the clauses and the root level say *)
(* is what all the clauses added say (SolverProps' NothingLost).           *)
THEOREM NothingLostHolds == Spec => []NothingLost
<1>1. BaseInv /\ MeaningInv => NothingLost
  <2> SUFFICES ASSUME BaseInv, MeaningInv PROVE NothingLost
    OBVIOUS
  <2> DEFINE K == ClauseSet(db.clauses) \cup Units(ToSet(RootTrail))
  <2>1. /\ AllVars \in SUBSET Nat /\ ok \in BOOLEAN
        /\ \A C \in added : \A p \in C : p \in Nat /\ var(p) \in AllVars
        /\ db.clauses \subseteq live(db)
    BY DEF BaseInv, VarsInv, ClientInv, IsClause, DbInv, DbType
  <2>2. \A C \in K : \A p \in C : p \in Nat /\ var(p) \in AllVars
    BY <2>1, ClauseSetOver, RootTrailIs
  <2>3. \A m : Satisfies(m, K) <=> Facts(m)
    <3>1. ASSUME NEW m
          PROVE  Satisfies(m, K) <=> Satisfies(m, ClauseSet(db.clauses)) /\ Satisfies(m, Units(ToSet(RootTrail)))
      BY DEF Satisfies
    <3>2. QED
      BY <2>1, <3>1, ClauseSetOver, RootTrailIs DEF Facts
  <2> HIDE DEF K
  <2>4. ASSUME NEW m \in TotalOver(AllVars)
        PROVE  Satisfies(m, added) <=> ok /\ Satisfies(m, K)
    <3> DEFINE M == Extended(m, AllVars)
    <3>1. Total(M)
      BY <2>1, ExtendedIs
    <3>2. Satisfies(M, added) <=> Satisfies(m, added)
      BY <2>1, ExtendedSatisfies
    <3>3. Satisfies(M, K) <=> Satisfies(m, K)
      BY <2>1, <2>2, ExtendedSatisfies
    <3> HIDE DEF M
    <3>4. Satisfies(M, added) <=> ok /\ Facts(M)
      BY <3>1, MeaningIs
    <3>5. QED
      BY <2>3, <3>2, <3>3, <3>4
  <2>5. ModelsOf(added, AllVars) = IF ok THEN ModelsOf(K, AllVars) ELSE {}
    BY <2>1, <2>4 DEF ModelsOf
  <2>6. QED
    BY <2>5 DEF K, NothingLost
<1>2. QED
  BY <1>1, BaseInvariant, MeaningInvariant, PTL

(* What was learnt holds in every model of the clauses added, whatever was *)
(* assumed when it was learnt (SolverProps' LearntsAreImplied).            *)
THEOREM LearntsAreImpliedHolds == Spec => []LearntsAreImplied
<1>1. BaseInv /\ MeaningInv => LearntsAreImplied
  <2> SUFFICES ASSUME BaseInv, MeaningInv, NEW m \in ModelsOf(added, AllVars)
               PROVE  Satisfies(m, ClauseSet(db.learnts))
    BY DEF LearntsAreImplied
  <2>1. /\ AllVars \in SUBSET Nat
        /\ \A C \in added : \A p \in C : p \in Nat /\ var(p) \in AllVars
        /\ db.learnts \subseteq live(db)
    BY DEF BaseInv, VarsInv, ClientInv, IsClause, DbInv, DbType
  <2>2. m \in TotalOver(AllVars) /\ Satisfies(m, added)
    BY DEF ModelsOf
  <2> DEFINE M == Extended(m, AllVars)
             L == ClauseSet(db.learnts)
  <2>3. Total(M) /\ Satisfies(M, added)
    BY <2>1, <2>2, ExtendedIs, ExtendedSatisfies
  <2>4. /\ \A C \in L : \A p \in C : p \in Nat /\ var(p) \in AllVars
        /\ \A k : Satisfies(k, L) <=> HoldIn(k, db, db.learnts)
    BY <2>1, ClauseSetOver
  <2> HIDE DEF L
  <2>5. Satisfies(M, L) <=> Satisfies(m, L)
    BY <2>1, <2>2, <2>4, ExtendedSatisfies
  <2> HIDE DEF M
  <2>6. Satisfies(M, L)
    BY <2>3, <2>4, MeaningIs
  <2>7. QED
    BY <2>5, <2>6 DEF L
<1>2. QED
  BY <1>1, BaseInvariant, MeaningInvariant, PTL

-----------------------------------------------------------------------------
(* No level begins between the positions j and i, j coming first or not.   *)
NotAbove(lim, j, i) == \A k \in 1 .. Len(lim) : lim[k] < j => lim[k] < i

(* c has a literal that was true at the level of the position i.           *)
Settled(t, lim, i, c) ==
    \E j \in 1 .. Len(t) : t[j] \in ToSet(c) /\ NotAbove(lim, j, i)

(* propagate() is done with the clause cr in the list of the i-th          *)
(* assignment.                                                             *)
Visited(i, cr) ==
    \/ i < qhead
    \/ i = qhead /\ (wi = 0 \/ \E j \in 1 .. wi - 1 : db.watches[trail[i]][j].cref = cr)

(* A conflict leaves the level unfinished.                                 *)
Finished(i, cr) ==
    IF confl = CRef_Undef THEN Visited(i, cr)
    ELSE \E k \in 1 .. Len(trail_lim) : i <= trail_lim[k]

(* The i-th assignment makes a watched literal of the clause cr false.     *)
Falsifies(p, d, cr) == neg(p) \in {lits(d, cr)[1], lits(d, cr)[2]}

(* Where propagate() is done, a clause with a false watch is true.         *)
PropagatedInv ==
    ok => \A cr \in live(db) : \A i \in 1 .. Len(trail) :
        Falsifies(trail[i], db, cr) /\ Finished(i, cr) =>
            Settled(trail, trail_lim, i, lits(db, cr))

(* What a step has to show.                                                *)
LEMMA PropagatedAfter ==
    ASSUME ASSUME ok', NEW cr \in live(db'), NEW i \in 1 .. Len(trail'),
                  Falsifies(trail'[i], db', cr), Finished(i, cr)'
           PROVE  Settled(trail', trail_lim', i, lits(db', cr))
    PROVE  PropagatedInv'
  BY DEF PropagatedInv

(* A clause stays true as long as its level does.                          *)
LEMMA SettledStays ==
    ASSUME NEW t, NEW lim, NEW s, NEW k, NEW i, NEW c, NEW b, Settled(t, lim, i, c),
           ToSet(b) = ToSet(c),
           \A j \in 1 .. Len(t) : NotAbove(lim, j, i) =>
               j \in 1 .. Len(s) /\ s[j] = t[j] /\ NotAbove(k, j, i)
    PROVE  Settled(s, k, i, b)
  BY DEF Settled

(* A step that visits nothing, and keeps the levels of what was visited.   *)
LEMMA NothingVisited ==
    ASSUME PropagatedInv, ok' => ok, live(db') \subseteq live(db),
           \A cr \in live(db') : lits(db', cr) = lits(db, cr),
           \A cr \in live(db') : \A i \in 1 .. Len(trail') :
               Falsifies(trail'[i], db', cr) /\ Finished(i, cr)' =>
                   /\ i \in 1 .. Len(trail) /\ trail'[i] = trail[i] /\ Finished(i, cr)
                   /\ \A j \in 1 .. Len(trail) : NotAbove(trail_lim, j, i) =>
                         j \in 1 .. Len(trail') /\ trail'[j] = trail[j] /\ NotAbove(trail_lim', j, i)
    PROVE  PropagatedInv'
<1>1. ASSUME ok', NEW cr \in live(db'), NEW i \in 1 .. Len(trail'),
             Falsifies(trail'[i], db', cr), Finished(i, cr)'
      PROVE  Settled(trail', trail_lim', i, lits(db', cr))
  <2>1. /\ i \in 1 .. Len(trail) /\ trail'[i] = trail[i] /\ Finished(i, cr)
        /\ \A j \in 1 .. Len(trail) : NotAbove(trail_lim, j, i) =>
              j \in 1 .. Len(trail') /\ trail'[j] = trail[j] /\ NotAbove(trail_lim', j, i)
    BY <1>1
  <2>2. cr \in live(db) /\ lits(db', cr) = lits(db, cr)
    BY <1>1
  <2>3. Falsifies(trail[i], db, cr)
    BY <1>1, <2>1, <2>2 DEF Falsifies
  <2>4. Settled(trail, trail_lim, i, lits(db, cr))
    BY <1>1, <2>1, <2>2, <2>3 DEF PropagatedInv
  <2>5. QED
    BY <2>1, <2>2, <2>4, SettledStays
<1>2. QED
  BY <1>1, PropagatedAfter

(* A step that leaves trail, levels and lists alone.                       *)
LEMMA StillPropagated ==
    ASSUME PropagatedInv, ok' => ok, live(db') \subseteq live(db),
           \A cr \in live(db') : lits(db', cr) = lits(db, cr),
           trail' = trail, trail_lim' = trail_lim,
           \A cr \in live(db') : \A i \in 1 .. Len(trail) :
               Falsifies(trail[i], db, cr) /\ Finished(i, cr)' => Finished(i, cr)
    PROVE  PropagatedInv'
<1>1. ASSUME NEW cr \in live(db'), NEW i \in 1 .. Len(trail'), Falsifies(trail'[i], db', cr),
             Finished(i, cr)'
      PROVE  /\ i \in 1 .. Len(trail) /\ trail'[i] = trail[i] /\ Finished(i, cr)
             /\ \A j \in 1 .. Len(trail) : NotAbove(trail_lim, j, i) =>
                   j \in 1 .. Len(trail') /\ trail'[j] = trail[j] /\ NotAbove(trail_lim', j, i)
  <2>1. i \in 1 .. Len(trail) /\ trail'[i] = trail[i]
    BY <1>1
  <2>2. Falsifies(trail[i], db, cr)
    BY <1>1, <2>1 DEF Falsifies
  <2>3. Finished(i, cr)
    BY <1>1, <2>1, <2>2
  <2>4. QED
    BY <2>1, <2>3
<1>2. QED
  BY <1>1, NothingVisited

(* No clause, no false watch.                                              *)
LEMMA InitPropagated ==
    ASSUME Init
    PROVE  PropagatedInv
<1>1. db.ca = <<>>
  BY DEF Init
<1>2. live(db) = {}
  BY <1>1 DEF live
<1>3. QED
  BY <1>2 DEF PropagatedInv

(* Without a visit under way and without conflict, everything before the   *)
(* head of the queue is done.                                              *)
LEMMA QueueDone ==
    ASSUME wi = 0, confl = CRef_Undef, qhead \in Nat, NEW i \in Nat, NEW cr
    PROVE  Finished(i, cr) <=> i <= qhead
  BY DEF Finished, Visited

(* Nothing happens to trail and clauses.                                   *)
LEMMA QuietPropagated ==
    ASSUME PropagatedInv, ok' => ok, db' = db, trail' = trail, trail_lim' = trail_lim,
           qhead' = qhead, wi' = wi, confl' = confl
    PROVE  PropagatedInv'
<1>1. \A cr, i : Finished(i, cr)' => Finished(i, cr)
  BY DEF Finished, Visited
<1>2. QED
  BY <1>1, StillPropagated

(* ... as in a stutter, and when simplify() has nothing to do.             *)
LEMMA StutterPropagated ==
    ASSUME PropagatedInv, UNCHANGED vars \/ KeepAsItIs
    PROVE  PropagatedInv'
<1>1. /\ ok' = ok /\ db' = db /\ trail' = trail /\ trail_lim' = trail_lim
      /\ qhead' = qhead /\ wi' = wi /\ confl' = confl
  BY DEF vars, KeepAsItIs, trailVars
<1>2. QED
  BY <1>1, QuietPropagated

(* addClause_ after its propagation.                                       *)
LEMMA AddPropagatedPropagated ==
    ASSUME BaseInv, PropagatedInv, AddPropagated
    PROVE  PropagatedInv'
<1>1. /\ pc = "add" /\ ok' = (confl = CRef_Undef) /\ db' = db /\ trail' = trail
      /\ trail_lim' = trail_lim /\ qhead' = qhead /\ wi' = wi /\ confl' = CRef_Undef
  BY DEF AddPropagated, trailVars
<1>2. ok
  BY <1>1 DEF BaseInv, FlowInv
<1>3. CASE confl = CRef_Undef
  BY <1>1, <1>2, <1>3, QuietPropagated
<1>4. CASE confl # CRef_Undef
  BY <1>1, <1>4 DEF PropagatedInv
<1>5. QED
  BY <1>3, <1>4

(* A question creates variables.                                           *)
LEMMA SolvePropagated ==
    ASSUME SolverAssumption, BaseInv, PropagatedInv, solve
    PROVE  PropagatedInv'
<1>1. PICK as \in Questions : Ask(as)
  BY DEF solve
<1>2. /\ ok' = ok /\ trail' = trail /\ trail_lim' = trail_lim /\ qhead' = qhead
      /\ wi' = wi /\ confl' = confl /\ pc = "idle"
  BY <1>1 DEF Ask, solve, trailVars
<1>3. db' = newVars(Max({var(p) : p \in ToSet(as)} \cup {0}), FALSE).db
  BY <1>1, Zenon DEF Ask
<1> DEFINE n == Max({var(p) : p \in ToSet(as)} \cup {0})
           W == AllVars \cup 0 .. n
           nv == newVars(n, FALSE)
<1>4. NewState(nv, W)
  BY NewStateIs
<1> HIDE DEF n, W, nv
<1>5. db' = Grew(db, AllVars, W)
  BY <1>3, <1>4 DEF NewState, nv, n
<1>6. db'.ca = db.ca
  <2>1. DOMAIN db = {"ca", "clauses", "learnts", "dirties", "watches", "reason"}
    BY DEF BaseInv, DbInv, DbType
  <2>2. QED
    BY <1>5, <2>1 DEF Grew
<1>7. live(db') = live(db) /\ \A cr : lits(db', cr) = lits(db, cr)
  BY <1>6 DEF live, lits
<1>8. wi = 0 /\ confl = CRef_Undef /\ qhead \in Nat
  <2>1. FlowInv /\ WalkInv /\ ConflInv
    BY DEF BaseInv
  <2>2. wi = 0 /\ confl = CRef_Undef
    BY <1>2, <2>1 DEF WalkInv, ConflInv
  <2>3. qhead \in Nat
    <3>1. Len(trail) \in Nat
      BY TrailIs DEF BaseInv, TrailOK
    <3>2. QED
      BY <2>1, <3>1 DEF FlowInv
  <2>4. QED
    BY <2>2, <2>3
<1>9. \A cr, i : Finished(i, cr)' => Finished(i, cr)
  BY <1>2, <1>8 DEF Finished, Visited
<1>10. QED
  BY <1>2, <1>7, <1>9, StillPropagated

-----------------------------------------------------------------------------
(* A clause is in the list of the assignment that makes a watch false.     *)
LEMMA FalsifiedIsWatched ==
    ASSUME BaseInv, NEW cr \in live(db), NEW p \in Lits(AllVars), Falsifies(p, db, cr)
    PROVE  InList(db.watches[p], cr)
<1>1. AllVars \in SUBSET Nat /\ DbType(db, AllVars) /\ BothWatched(db)
  BY DEF BaseInv, VarsInv, DbInv
<1>2. cr \in 1 .. Len(db.ca)
  BY <1>1, LiveIs
<1>3. lits(db, cr)[1] \in Lits(AllVars) /\ lits(db, cr)[2] \in Lits(AllVars) /\ p \in Nat
  BY <1>1, <1>2, ClauseIs, LitsAre
<1>4. neg(neg(p)) = p
  BY <1>3, Negation DEF Literal
<1>5. p = neg(lits(db, cr)[1]) \/ p = neg(lits(db, cr)[2])
  BY <1>4 DEF Falsifies
<1>6. QED
  BY <1>1, <1>5 DEF BothWatched

(* At the end of a list all the clauses in it have been visited.           *)
LEMMA ListDone ==
    ASSUME BaseInv, AtListEnd, NEW cr \in live(db), NEW i \in 1 .. Len(trail), i <= qhead,
           Falsifies(trail[i], db, cr)
    PROVE  Visited(i, cr)
<1>1. /\ trail[i] \in Lits(AllVars) /\ Len(trail) \in Nat
  BY TrailIs DEF BaseInv, TrailOK
<1>2. qhead \in Nat /\ wi \in Nat
  BY <1>1 DEF BaseInv, FlowInv
<1>3. CASE i < qhead \/ wi = 0
  BY <1>2, <1>3 DEF Visited
<1>4. CASE i = qhead /\ wi # 0
  <2>1. PICK j \in 1 .. Len(db.watches[trail[i]]) : db.watches[trail[i]][j].cref = cr
    BY <1>1, FalsifiedIsWatched DEF InList
  <2>2. Len(db.watches[trail[i]]) \in Nat
    <3>1. db.watches[trail[i]] \in Seq(Watcher)
      BY <1>1 DEF BaseInv, DbInv, DbType
    <3>2. QED
      BY <3>1, LenProperties
  <2>3. wi > Len(db.watches[trail[i]])
    BY <1>4 DEF AtListEnd, p0
  <2>4. j \in 1 .. wi - 1
    BY <1>2, <2>1, <2>2, <2>3
  <2>5. QED
    BY <1>4, <2>1, <2>4 DEF Visited
<1>5. QED
  BY <1>2, <1>3, <1>4

(* cleanAll between two lists.                                             *)
LEMMA CleanedPropagated ==
    ASSUME BaseInv, PropagatedInv, db' = cleanAll(db), ok' = ok, trail' = trail,
           trail_lim' = trail_lim,
           \A cr \in live(db) : \A i \in 1 .. Len(trail) :
               Falsifies(trail[i], db, cr) /\ Finished(i, cr)' => Finished(i, cr)
    PROVE  PropagatedInv'
<1>1. AllVars \in SUBSET Nat /\ DbInv(db, AllVars)
  BY DEF BaseInv, VarsInv
<1>2. Cleaned(db, db', AllVars)
  BY <1>1, CleanIs
<1>3. db'.ca = db.ca
  BY <1>2 DEF Cleaned
<1>4. live(db') = live(db) /\ \A cr : lits(db', cr) = lits(db, cr)
  BY <1>3 DEF live, lits
<1>5. QED
  BY <1>4, StillPropagated

(* The next assignment: the one before is done.                            *)
LEMMA NextFactPropagated ==
    ASSUME BaseInv, PropagatedInv, NextFact
    PROVE  PropagatedInv'
<1>1. /\ AtListEnd /\ qhead < Len(trail) /\ qhead' = qhead + 1 /\ wi' = 1 /\ db' = cleanAll(db)
      /\ trail' = trail /\ confl' = confl /\ ok' = ok /\ trail_lim' = trail_lim
  BY DEF NextFact, PropagateUnchanged
<1>2. Len(trail) \in Nat /\ qhead \in Nat
  <2>1. Len(trail) \in Nat
    BY TrailIs DEF BaseInv, TrailOK
  <2>2. QED
    BY <2>1 DEF BaseInv, FlowInv
<1>3. confl = CRef_Undef
  BY <1>1, <1>2 DEF BaseInv, ConflInv
<1>4. ASSUME NEW cr \in live(db), NEW i \in 1 .. Len(trail), Falsifies(trail[i], db, cr),
             Finished(i, cr)'
      PROVE  Finished(i, cr)
  <2>1. Visited(i, cr)'
    BY <1>1, <1>3, <1>4 DEF Finished
  <2>2. i < qhead + 1 \/ (i = qhead + 1 /\ \E j \in 1 .. 0 : db'.watches[trail'[i]][j].cref = cr)
    BY <1>1, <2>1 DEF Visited
  <2>3. i <= qhead
    BY <1>2, <2>2
  <2>4. Visited(i, cr)
    BY <1>1, <1>4, <2>3, ListDone
  <2>5. QED
    BY <1>3, <2>4 DEF Finished
<1>5. QED
  BY <1>1, <1>4, CleanedPropagated

(* The last one is done.                                                   *)
LEMMA PropagateDonePropagated ==
    ASSUME BaseInv, PropagatedInv, PropagateDone
    PROVE  PropagatedInv'
<1>1. /\ AtListEnd /\ qhead = Len(trail) /\ db' = cleanAll(db)
      /\ trail' = trail /\ confl' = confl /\ ok' = ok /\ trail_lim' = trail_lim
  BY DEF PropagateDone, PropagateUnchanged
<1>2. Len(trail) \in Nat
  BY TrailIs DEF BaseInv, TrailOK
<1>3. ASSUME NEW cr \in live(db), NEW i \in 1 .. Len(trail), Falsifies(trail[i], db, cr),
             Finished(i, cr)'
      PROVE  Finished(i, cr)
  <2>1. i <= qhead
    BY <1>1, <1>2
  <2>2. Visited(i, cr)
    BY <1>1, <1>3, <2>1, ListDone
  <2>3. CASE confl = CRef_Undef
    BY <2>2, <2>3 DEF Finished
  <2>4. CASE confl # CRef_Undef
    BY <1>1, <1>3, <2>4 DEF Finished
  <2>5. QED
    BY <2>3, <2>4
<1>4. QED
  BY <1>1, <1>3, CleanedPropagated

-----------------------------------------------------------------------------
(* While a list is visited its assignment is on the last level.            *)
LEMMA OnLastLevel ==
    ASSUME NEW p, NEW cr, NEW b, VisitedWatcher(p, cr, b), NEW j, NEW lim, lim = trail_lim
    PROVE  NotAbove(lim, j, qhead)
  BY DEF NotAbove, VisitedWatcher

(* The visit of a clause: what was visited before was so, or is the clause *)
(* itself, and that is true.                                               *)
LEMMA VisitPropagated ==
    ASSUME BaseInv, PropagatedInv, NEW p, NEW cr, NEW b, VisitedWatcher(p, cr, b),
           Begins(trail, trail'), trail_lim' = trail_lim, live(db') = live(db),
           \A r \in live(db) : r # cr => lits(db', r) = lits(db, r),
           ToSet(lits(db', cr)) = ToSet(lits(db, cr)),
           \A r \in live(db) : \A i \in 1 .. Len(trail') :
               Falsifies(trail'[i], db', r) /\ Finished(i, r)' =>
                   /\ i \in 1 .. Len(trail)
                   /\ \/ Falsifies(trail[i], db, r) /\ Finished(i, r)
                      \/ r = cr /\ i = qhead /\
                           \E j \in 1 .. Len(trail') : trail'[j] \in ToSet(lits(db, cr)),
           Len(trail') \in Nat
    PROVE  PropagatedInv'
<1>1. ok /\ Len(trail) \in Nat
  <2>1. pc = "propagate" /\ FlowInv
    BY DEF VisitedWatcher, BaseInv
  <2>2. Len(trail) \in Nat
    BY TrailIs DEF BaseInv, TrailOK
  <2>3. QED
    BY <2>1, <2>2 DEF FlowInv
<1>2. ASSUME NEW r \in live(db'), NEW i \in 1 .. Len(trail'), Falsifies(trail'[i], db', r),
             Finished(i, r)'
      PROVE  Settled(trail', trail_lim', i, lits(db', r))
  <2>1. r \in live(db) /\ ToSet(lits(db', r)) = ToSet(lits(db, r))
    BY <1>2
  <2>2. i \in 1 .. Len(trail)
    BY <1>2, <2>1
  <2>3. CASE Falsifies(trail[i], db, r) /\ Finished(i, r)
    <3>1. Settled(trail, trail_lim, i, lits(db, r))
      BY <1>1, <2>1, <2>2, <2>3 DEF PropagatedInv
    <3>2. \A j \in 1 .. Len(trail) : j \in 1 .. Len(trail') /\ trail'[j] = trail[j]
      BY <1>1 DEF Begins
    <3>3. QED
      BY <2>1, <3>1, <3>2, SettledStays
  <2>4. CASE r = cr /\ i = qhead /\
               \E j \in 1 .. Len(trail') : trail'[j] \in ToSet(lits(db, cr))
    <3>1. PICK j \in 1 .. Len(trail') : trail'[j] \in ToSet(lits(db, cr))
      BY <2>4
    <3>2. NotAbove(trail_lim', j, i)
      BY <2>4, OnLastLevel
    <3>3. QED
      BY <2>1, <2>4, <3>1, <3>2 DEF Settled
  <2>5. QED
    BY <1>2, <2>1, <2>3, <2>4
<1>3. QED
  BY <1>2, PropagatedAfter

(* What the visit has finished when it has gone on by one watcher.         *)
LEMMA FinishedNext ==
    ASSUME wi \in Nat, wi' = wi + 1, qhead' = qhead, confl' = CRef_Undef,
           NEW i, NEW r, Finished(i, r)'
    PROVE  \/ i < qhead
           \/ (i = qhead /\ \E j \in 1 .. wi : db'.watches[trail'[i]][j].cref = r)
<1>1. Visited(i, r)'
  BY DEF Finished
<1>2. wi' # 0 /\ wi' - 1 = wi
  OBVIOUS
<1>3. \/ i < qhead
      \/ (i = qhead /\ \E j \in 1 .. wi' - 1 : db'.watches[trail'[i]][j].cref = r)
  BY <1>1, <1>2 DEF Visited
<1>4. QED
  BY <1>2, <1>3

(* A position up to one that is inside is inside.                          *)
LEMMA UpToInside ==
    ASSUME NEW n \in Nat, NEW m \in Nat, NEW q \in 1 .. n, NEW i \in 1 .. m, i < q \/ i = q
    PROVE  i \in 1 .. n
OBVIOUS

(* A position is a number.                                                 *)
LEMMA PositionIs ==
    ASSUME NEW n \in Nat, NEW i \in 1 .. n
    PROVE  i \in Nat /\ i # 0
OBVIOUS

(* The visit goes on to the next watcher where the clause is true.         *)
LEMMA GoneOn ==
    ASSUME BaseInv, PropagatedInv, NEW p, NEW cr, NEW b, VisitedWatcher(p, cr, b),
           Begins(trail, trail'), trail_lim' = trail_lim, live(db') = live(db),
           \A r \in live(db) : r # cr => lits(db', r) = lits(db, r),
           ToSet(lits(db', cr)) = ToSet(lits(db, cr)),
           {lits(db', cr)[1], lits(db', cr)[2]} = {lits(db, cr)[1], lits(db, cr)[2]},
           SameCRefs(db, db', AllVars), wi' = wi + 1, qhead' = qhead, confl' = confl,
           \E j \in 1 .. Len(trail') : trail'[j] \in ToSet(lits(db, cr)),
           Len(trail') \in Nat
    PROVE  PropagatedInv'
<1>1. /\ wi \in 1 .. Len(db.watches[p]) /\ qhead \in 1 .. Len(trail) /\ p = trail[qhead]
      /\ p \in Lits(AllVars) /\ cr = db.watches[p][wi].cref /\ confl = CRef_Undef
  BY DEF VisitedWatcher
<1>2. Len(trail) \in Nat /\ wi \in Nat /\ wi # 0 /\ Len(db.watches[p]) \in Nat
  <2>1. Len(trail) \in Nat
    BY TrailIs DEF BaseInv, TrailOK
  <2>2. db.watches[p] \in Seq(Watcher)
    BY <1>1 DEF BaseInv, DbInv, DbType
  <2>3. Len(db.watches[p]) \in Nat
    BY <2>2, LenProperties
  <2>4. wi \in Nat /\ wi # 0
    BY <1>1, <2>3, PositionIs
  <2>5. QED
    BY <2>1, <2>3, <2>4
<1>3. ASSUME NEW r \in live(db), NEW i \in 1 .. Len(trail'), Falsifies(trail'[i], db', r),
             Finished(i, r)'
      PROVE  /\ i \in 1 .. Len(trail)
             /\ \/ Falsifies(trail[i], db, r) /\ Finished(i, r)
                \/ r = cr /\ i = qhead /\
                     \E j \in 1 .. Len(trail') : trail'[j] \in ToSet(lits(db, cr))
  <2>1. \/ i < qhead
        \/ (i = qhead /\ \E j \in 1 .. wi : db'.watches[trail'[i]][j].cref = r)
    <3>1. confl' = CRef_Undef
      BY <1>1
    <3>2. QED
      BY <1>2, <1>3, <3>1, FinishedNext
  <2>2. i \in 1 .. Len(trail)
    <3>1. i < qhead \/ i = qhead
      BY <2>1, Zenon
    <3>2. QED
      BY <1>1, <1>2, <3>1, UpToInside
  <2>3. trail'[i] = trail[i]
    BY <2>2 DEF Begins
  <2>4. Falsifies(trail[i], db, r)
    BY <1>3, <2>3 DEF Falsifies
  <2>5. CASE i < qhead
    BY <1>1, <2>2, <2>4, <2>5 DEF Finished, Visited
  <2>6. CASE i = qhead /\ \E j \in 1 .. wi : db'.watches[trail'[i]][j].cref = r
    <3>1. PICK j \in 1 .. wi : db'.watches[p][j].cref = r
      BY <1>1, <2>3, <2>6
    <3>2. db.watches[p][j].cref = r
      <4>1. j \in 1 .. Len(db.watches[p])
        <5>1. j < wi \/ j = wi
          BY <1>2, <3>1
        <5>2. QED
          BY <1>1, <1>2, <3>1, <5>1, UpToInside
      <4>2. QED
        BY <1>1, <3>1, <4>1 DEF SameCRefs
    <3>3. CASE j = wi
      BY <1>1, <2>2, <2>6, <3>2, <3>3
    <3>4. CASE j # wi
      <4>1. j \in 1 .. wi - 1
        BY <1>2, <3>4
      <4>2. QED
        BY <1>1, <2>2, <2>4, <2>6, <3>2, <4>1 DEF Finished, Visited
    <3>5. QED
      BY <3>3, <3>4
  <2>7. QED
    BY <2>1, <2>5, <2>6
<1>4. QED
  BY <1>3, VisitPropagated

(* The blocker is true.                                                    *)
LEMMA BlockerTruePropagated ==
    ASSUME BaseInv, PropagatedInv, BlockerTrue
    PROVE  PropagatedInv'
<1>1. Visiting /\ IsTrue(Watched.blocker) /\ wi' = wi + 1 /\ db' = db /\ trail' = trail
      /\ qhead' = qhead /\ confl' = confl /\ trail_lim' = trail_lim
  BY DEF BlockerTrue, PropagateUnchanged
<1> DEFINE p == p0
           cr == Watched.cref
           b == Turned
<1>2. VisitedWatcher(p, cr, b)
  BY <1>1, VisitIs
<1> HIDE DEF p, cr, b
<1>3. p \in Lits(AllVars) /\ wi \in 1 .. Len(db.watches[p]) /\ Watched = db.watches[p][wi]
      /\ cr = db.watches[p][wi].cref
  BY <1>2 DEF VisitedWatcher
<1>4. Watched.blocker \in ToSet(lits(db, cr))
  <2>1. GoodList(db, p, db.watches[p])
    BY <1>3 DEF BaseInv, DbInv, WatchInv
  <2>2. GoodWatcher(db, p, db.watches[p][wi])
    BY <1>3, <2>1 DEF GoodList
  <2>3. QED
    BY <1>3, <2>2 DEF GoodWatcher
<1>5. Len(trail) \in Nat /\ \A q : q \in ToSet(trail) <=> \E i \in 1 .. Len(trail) : trail[i] = q
  BY TrailIs DEF BaseInv, TrailOK
<1>6. \E j \in 1 .. Len(trail') : trail'[j] \in ToSet(lits(db, cr))
  BY <1>1, <1>4, <1>5 DEF IsTrue
<1>7. Begins(trail, trail') /\ Len(trail') \in Nat
  BY <1>1, <1>5 DEF Begins
<1>8. SameCRefs(db, db', AllVars)
  BY <1>1 DEF SameCRefs
<1>9. QED
  BY <1>1, <1>2, <1>6, <1>7, <1>8, GoneOn

(* The clause that stays in the list is the same, turned.                  *)
LEMMA KeptAlike ==
    ASSUME BaseInv, NEW p, NEW cr, NEW b, VisitedWatcher(p, cr, b),
           NEW e, Shuffled(db, e, AllVars, cr, b)
    PROVE  /\ live(e) = live(db)
           /\ \A r \in live(db) : r # cr => lits(e, r) = lits(db, r)
           /\ ToSet(lits(e, cr)) = ToSet(lits(db, cr))
           /\ {lits(e, cr)[1], lits(e, cr)[2]} = {lits(db, cr)[1], lits(db, cr)[2]}
<1>1. Permuted(lits(db, cr), b, AllVars) /\ {b[1], b[2]} = {lits(db, cr)[1], lits(db, cr)[2]}
  BY DEF VisitedWatcher
<1>2. live(db) \subseteq 1 .. Len(db.ca)
  BY LiveIs DEF BaseInv, DbInv
<1>3. QED
  BY <1>1, <1>2 DEF Shuffled, Permuted

(* The first literal is true.                                              *)
LEMMA FirstTruePropagated ==
    ASSUME BaseInv, PropagatedInv, FirstTrue
    PROVE  PropagatedInv'
<1>1. Visiting /\ IsTrue(Turned[1]) /\ wi' = wi + 1 /\ db' = KeepWatch(Turned) /\ trail' = trail
      /\ qhead' = qhead /\ confl' = confl /\ trail_lim' = trail_lim
  BY DEF FirstTrue, PropagateUnchanged
<1> DEFINE p == p0
           cr == Watched.cref
           b == Turned
<1>2. VisitedWatcher(p, cr, b)
  BY <1>1, VisitIs
<1>3. db' = KeepWatch(b) /\ IsTrue(b[1]) /\ cr = Watched.cref
  BY <1>1
<1> HIDE DEF p, cr, b
<1>4. Shuffled(db, db', AllVars, cr, b) /\ SameCRefs(db, db', AllVars)
  BY <1>2, <1>3, KeptIsShuffled
<1>5. b[1] \in ToSet(lits(db, cr))
  <2>1. AllVars \subseteq Nat /\ ToSet(b) = ToSet(lits(db, cr))
    BY <1>2 DEF BaseInv, VarsInv, VisitedWatcher, Permuted
  <2>2. b[1] \in ToSet(b)
    BY <1>2, <2>1, VisitedClause
  <2>3. QED
    BY <2>1, <2>2
<1>6. Len(trail) \in Nat /\ \A q : q \in ToSet(trail) <=> \E i \in 1 .. Len(trail) : trail[i] = q
  BY TrailIs DEF BaseInv, TrailOK
<1>7. \E j \in 1 .. Len(trail') : trail'[j] \in ToSet(lits(db, cr))
  BY <1>1, <1>3, <1>5, <1>6 DEF IsTrue
<1>8. Begins(trail, trail') /\ Len(trail') \in Nat
  BY <1>1, <1>6 DEF Begins
<1>9. /\ live(db') = live(db)
      /\ \A r \in live(db) : r # cr => lits(db', r) = lits(db, r)
      /\ ToSet(lits(db', cr)) = ToSet(lits(db, cr))
      /\ {lits(db', cr)[1], lits(db', cr)[2]} = {lits(db, cr)[1], lits(db, cr)[2]}
  BY <1>2, <1>4, KeptAlike
<1>10. QED
  BY <1>1, <1>2, <1>4, <1>7, <1>8, <1>9, GoneOn

-----------------------------------------------------------------------------
(* A unit clause: its last literal becomes true.                           *)
LEMMA UnitPropagated ==
    ASSUME BaseInv, PropagatedInv, Unit
    PROVE  PropagatedInv'
<1> DEFINE p == p0
           cr == Watched.cref
           b == Turned
           d == KeepWatch(b)
<1>1. /\ Visiting /\ trail' = Append(trail, b[1])
      /\ db' = [d EXCEPT !.reason[var(b[1])] = cr]
      /\ wi' = wi + 1 /\ qhead' = qhead /\ confl' = confl /\ trail_lim' = trail_lim
  BY DEF Unit, Enqueue, PropagateUnchanged
<1>2. VisitedWatcher(p, cr, b)
  BY <1>1, VisitIs
<1> HIDE DEF b, d, p
<1>3. Shuffled(db, d, AllVars, cr, b) /\ SameCRefs(db, d, AllVars)
  BY <1>2, KeptIsShuffled DEF d
<1> HIDE DEF cr
<1>4. db'.ca = d.ca /\ db'.watches = d.watches
  <2>1. DOMAIN d = {"ca", "clauses", "learnts", "dirties", "watches", "reason"}
    BY <1>3 DEF Shuffled, DbInv, DbType
  <2>2. QED
    BY <1>1, <2>1
<1>5. live(db') = live(d) /\ \A r : lits(db', r) = lits(d, r)
  BY <1>4 DEF live, lits
<1>6. /\ live(d) = live(db)
      /\ \A r \in live(db) : r # cr => lits(d, r) = lits(db, r)
      /\ ToSet(lits(d, cr)) = ToSet(lits(db, cr))
      /\ {lits(d, cr)[1], lits(d, cr)[2]} = {lits(db, cr)[1], lits(db, cr)[2]}
  BY <1>2, <1>3, KeptAlike
<1>7. SameCRefs(db, db', AllVars)
  BY <1>3, <1>4 DEF SameCRefs
<1>8. b[1] \in ToSet(lits(db, cr)) /\ b[1] \in Lits(AllVars)
  <2>1. AllVars \subseteq Nat /\ ToSet(b) = ToSet(lits(db, cr))
    BY <1>2 DEF BaseInv, VarsInv, VisitedWatcher, Permuted
  <2>2. /\ \A q : q \in ToSet(b) <=> \E k \in 1 .. Len(b) : b[k] = q
        /\ \A k \in 1 .. Len(b) : b[k] \in Lits(AllVars)
        /\ Len(b) \in Nat /\ Len(b) >= 2
    BY <1>2, <2>1, VisitedClause
  <2>3. QED
    BY <2>1, <2>2
<1>9. trail \in Seq(Lits(AllVars)) /\ Len(trail) \in Nat
  BY TrailIs DEF BaseInv, TrailOK
<1>10. /\ Len(trail') = Len(trail) + 1 /\ trail'[Len(trail) + 1] = b[1]
       /\ \A i \in 1 .. Len(trail) : trail'[i] = trail[i]
  BY <1>1, <1>8, <1>9, AppendProperties
<1>11. Begins(trail, trail') /\ Len(trail') \in Nat
  BY <1>9, <1>10 DEF Begins
<1>12. \E j \in 1 .. Len(trail') : trail'[j] \in ToSet(lits(db, cr))
  <2>1. Len(trail) + 1 \in 1 .. Len(trail')
    BY <1>9, <1>10
  <2>2. QED
    BY <1>8, <1>10, <2>1
<1>13. QED
  BY <1>1, <1>2, <1>5, <1>6, <1>7, <1>11, <1>12, GoneOn

(* A conflict: the last level is not finished.                             *)
LEMMA ConflictingPropagated ==
    ASSUME BaseInv, PropagatedInv, Conflicting
    PROVE  PropagatedInv'
<1> DEFINE p == p0
           cr == Watched.cref
           b == Turned
<1>1. /\ Visiting /\ db' = KeepWatch(b) /\ confl' = cr /\ trail' = trail
      /\ trail_lim' = trail_lim
  BY DEF Conflicting, PropagateUnchanged
<1>2. VisitedWatcher(p, cr, b)
  BY <1>1, VisitIs
<1> HIDE DEF p, cr, b
<1>3. Shuffled(db, db', AllVars, cr, b)
  BY <1>1, <1>2, KeptIsShuffled DEF cr
<1>4. /\ live(db') = live(db)
      /\ \A r \in live(db) : r # cr => lits(db', r) = lits(db, r)
      /\ ToSet(lits(db', cr)) = ToSet(lits(db, cr))
      /\ {lits(db', cr)[1], lits(db', cr)[2]} = {lits(db, cr)[1], lits(db, cr)[2]}
  BY <1>2, <1>3, KeptAlike
<1>5. /\ cr # CRef_Undef /\ confl = CRef_Undef /\ qhead \in Nat
      /\ \A k \in 1 .. Len(trail_lim) : trail_lim[k] < qhead
      /\ \A k \in 1 .. Len(trail_lim) : trail_lim[k] \in Nat
      /\ Len(trail) \in Nat
  <2>1. /\ Len(trail) \in Nat
        /\ \A k \in 1 .. Len(trail_lim) : trail_lim[k] \in Nat
    BY TrailIs DEF BaseInv, TrailOK
  <2>2. /\ cr \in 1 .. Len(db.ca) /\ confl = CRef_Undef /\ qhead \in 1 .. Len(trail)
        /\ \A k \in 1 .. Len(trail_lim) : trail_lim[k] < qhead
    BY <1>2 DEF VisitedWatcher
  <2>3. cr # CRef_Undef
    BY <2>2 DEF CRef_Undef
  <2>4. QED
    BY <2>1, <2>2, <2>3
<1>6. ASSUME NEW r \in live(db), NEW i \in 1 .. Len(trail'), Falsifies(trail'[i], db', r),
             Finished(i, r)'
      PROVE  i \in 1 .. Len(trail) /\ Falsifies(trail[i], db, r) /\ Finished(i, r)
  <2>1. \E k \in 1 .. Len(trail_lim) : i <= trail_lim[k]
    BY <1>1, <1>5, <1>6 DEF Finished
  <2>2. i \in 1 .. Len(trail) /\ i < qhead
    BY <1>1, <1>5, <2>1
  <2>3. Finished(i, r)
    BY <1>5, <2>2 DEF Finished, Visited
  <2>4. {lits(db', r)[1], lits(db', r)[2]} = {lits(db, r)[1], lits(db, r)[2]}
    BY <1>4
  <2>5. QED
    BY <1>1, <1>6, <2>2, <2>3, <2>4 DEF Falsifies
<1>7. Begins(trail, trail') /\ Len(trail') \in Nat
  BY <1>1, <1>5 DEF Begins
<1>8. QED
  BY <1>1, <1>2, <1>4, <1>6, <1>7, VisitPropagated

(* A watch that moves was not false, and the clause leaves the list behind *)
(* the position where the visit goes on.                                   *)
LEMMA MoveWatchPropagated ==
    ASSUME BaseInv, PropagatedInv, MoveWatch
    PROVE  PropagatedInv'
<1> DEFINE p == p0
           cr == Watched.cref
           b == Turned
           k == Min(NewWatches(b))
           c == Swap(b, 2, k)
<1>1. /\ Visiting /\ trail' = trail /\ qhead' = qhead /\ confl' = confl /\ wi' = wi
      /\ trail_lim' = trail_lim
  BY DEF MoveWatch, PropagateUnchanged
<1>2. VisitedWatcher(p, cr, b)
  BY <1>1, VisitIs
<1> HIDE DEF p, cr, b, k, c
<1>3. /\ k \in NewWatches(b) /\ k \in 3 .. Len(b)
      /\ Shuffled(db, db', AllVars, cr, c)
      /\ WatchMoved(db, db', AllVars, p, wi, neg(b[k]), NewWatcher(cr, b[1]))
  BY <1>2, MoveWatchIsShuffled DEF cr, b, k, c
<1>4. /\ wi \in 1 .. Len(db.watches[p]) /\ qhead \in 1 .. Len(trail) /\ p = trail[qhead]
      /\ p \in Lits(AllVars) /\ cr = db.watches[p][wi].cref /\ confl = CRef_Undef
      /\ IsLits(b, AllVars) /\ ToSet(b) = ToSet(lits(db, cr))
      /\ {b[1], b[2]} = {lits(db, cr)[1], lits(db, cr)[2]}
  BY <1>2 DEF VisitedWatcher, Permuted
<1>5. /\ Len(trail) \in Nat /\ \A i \in 1 .. Len(trail) : trail[i] \in Lits(AllVars)
      /\ \A q : q \in ToSet(trail) <=> \E i \in 1 .. Len(trail) : trail[i] = q
  BY TrailIs DEF BaseInv, TrailOK
<1>6. /\ db.watches[p] \in Seq(Watcher) /\ GoodList(db, p, db.watches[p])
      /\ Len(db.watches[p]) \in Nat
  <2>1. db.watches[p] \in Seq(Watcher) /\ GoodList(db, p, db.watches[p])
    BY <1>4 DEF BaseInv, DbInv, DbType, WatchInv
  <2>2. QED
    BY <2>1, LenProperties
<1>7. \A j \in 1 .. wi - 1 : db'.watches[p][j] = db.watches[p][j] /\ j \in 1 .. Len(db.watches[p])
  <2> DEFINE t == db'.watches[p]
             s == db.watches[p]
  <2>1. t = RemoveAt(s, wi)
    BY <1>3 DEF WatchMoved
  <2>6. s \in Seq(Watcher) /\ wi \in 1 .. Len(s) /\ Len(s) \in Nat
    BY <1>4, <1>6
  <2> HIDE DEF t, s
  <2>2. \A j \in 1 .. Len(s) - 1 : t[j] = IF j < wi THEN s[j] ELSE s[j + 1]
    BY <2>1, <2>6, RemoveAtIs
  <2>3. \A j \in 1 .. wi - 1 : t[j] = s[j] /\ j \in 1 .. Len(s)
    BY <2>2, <2>6
  <2>4. QED
    BY <2>3 DEF t, s
<1>8. /\ c[1] = b[1] /\ c[2] = b[k] /\ ToSet(c) = ToSet(b)
  <2>1. IsLits(b, AllVars) /\ 2 \in 1 .. Len(b) /\ k \in 1 .. Len(b) /\ 2 # k /\ 1 # k
        /\ 1 \in 1 .. Len(b)
    <3>1. Len(b) \in Nat
      BY <1>4, LenProperties DEF IsLits
    <3>2. k \in 3 .. Len(b) /\ IsLits(b, AllVars)
      BY <1>3, <1>4
    <3> HIDE DEF BaseInv
    <3>3. 2 \in 1 .. Len(b) /\ k \in 1 .. Len(b) /\ 2 # k /\ 1 # k /\ 1 \in 1 .. Len(b)
      BY <3>1, <3>2
    <3>4. QED
      BY <3>2, <3>3
  <2>2. SwapOf(b, c, AllVars, 2, k)
    BY <2>1, SwapIs DEF c
  <2>3. QED
    BY <2>1, <2>2 DEF SwapOf, Permuted
<1>9. /\ live(db') = live(db) /\ lits(db', cr) = c
      /\ \A r \in live(db) : r # cr => lits(db', r) = lits(db, r)
  <2>1. live(db) \subseteq 1 .. Len(db.ca)
    BY LiveIs DEF BaseInv, DbInv
  <2>2. QED
    BY <1>3, <2>1 DEF Shuffled
<1>10. ~IsFalse(b[k])
  BY <1>3 DEF NewWatches
<1>11. ASSUME NEW r \in live(db), NEW i \in 1 .. Len(trail'), Falsifies(trail'[i], db', r),
              Finished(i, r)'
       PROVE  i \in 1 .. Len(trail) /\ Falsifies(trail[i], db, r) /\ Finished(i, r)
  <2>1. i \in 1 .. Len(trail) /\ trail'[i] = trail[i] /\ Falsifies(trail[i], db', r)
    BY <1>1, <1>11
  <2>2. \/ i < qhead
        \/ (i = qhead /\ \E j \in 1 .. wi - 1 : db.watches[p][j].cref = r)
    <3>1. Visited(i, r)'
      BY <1>1, <1>4, <1>11 DEF Finished
    <3>2. wi # 0
      BY <1>4
    <3>3. i < qhead \/ (i = qhead /\ \E j \in 1 .. wi - 1 : db'.watches[trail[i]][j].cref = r)
      BY <1>1, <2>1, <3>1, <3>2 DEF Visited
    <3>4. QED
      BY <1>4, <1>7, <3>3
  <2>3. Finished(i, r)
    BY <1>4, <2>2 DEF Finished, Visited
  <2>4. CASE r # cr
    <3>1. lits(db', r) = lits(db, r)
      BY <1>9, <2>4
    <3>2. QED
      BY <2>1, <2>3, <3>1 DEF Falsifies
  <2>5. CASE r = cr
    <3>1. neg(trail[i]) = b[1] \/ neg(trail[i]) = b[k]
      BY <1>8, <1>9, <2>1, <2>5 DEF Falsifies
    <3>2. neg(trail[i]) # b[k]
      <4>1. trail[i] \in Nat
        <5>1. AllVars \in SUBSET Nat
          BY DEF BaseInv, VarsInv
        <5>2. QED
          BY <1>5, <2>1, <5>1, LitsAre
      <4>2. neg(neg(trail[i])) = trail[i]
        BY <4>1, Negation DEF Literal
      <4>3. trail[i] \in ToSet(trail)
        BY <1>5, <2>1
      <4>4. QED
        BY <1>10, <4>2, <4>3 DEF IsFalse
    <3>3. Falsifies(trail[i], db, cr)
      BY <1>4, <3>1, <3>2 DEF Falsifies
    <3>4. QED
      BY <2>1, <2>3, <2>5, <3>3
  <2>6. QED
    BY <2>4, <2>5
<1>12. Begins(trail, trail') /\ Len(trail') \in Nat
  BY <1>1, <1>5 DEF Begins
<1>13. ToSet(lits(db', cr)) = ToSet(lits(db, cr))
  BY <1>4, <1>8, <1>9
<1>14. QED
  BY <1>1, <1>2, <1>9, <1>11, <1>12, <1>13, VisitPropagated

-----------------------------------------------------------------------------
(* At the root level no level is above any position.                       *)
LEMMA RootIsBelow ==
    ASSUME NEW lim, Len(lim) = 0, NEW j, NEW i
    PROVE  NotAbove(lim, j, i)
  BY DEF NotAbove

(* A new clause has no false literal yet.                                  *)
LEMMA NothingFalsified ==
    ASSUME PropagatedInv, ok, NEW d, live(d) = live(db), \A r : lits(d, r) = lits(db, r),
           NEW W \in SUBSET Nat, DbInv(d, W), NEW cr, NEW c, Added(d, db', W, cr, c),
           trail' = trail, trail_lim' = trail_lim, wi = 0, wi' = 0,
           qhead' = qhead, confl' = confl,
           \A i \in 1 .. Len(trail) : neg(trail[i]) \notin {c[1], c[2]}
    PROVE  PropagatedInv'
<1>1. ASSUME NEW r \in live(db'), NEW i \in 1 .. Len(trail'), Falsifies(trail'[i], db', r),
             Finished(i, r)'
      PROVE  Settled(trail', trail_lim', i, lits(db', r))
  <2>1. i \in 1 .. Len(trail) /\ trail'[i] = trail[i]
    BY <1>1
  <2>2. r # cr
    <3>1. SUFFICES ASSUME r = cr PROVE FALSE
      OBVIOUS
    <3>2. lits(db', r) = c
      BY <3>1 DEF Added
    <3>3. QED
      BY <1>1, <2>1, <3>2 DEF Falsifies
  <2>3. r \in live(db) /\ lits(db', r) = lits(db, r)
    <3>1. r \in live(d) /\ live(d) \subseteq 1 .. Len(d.ca)
      BY <1>1, <2>2, LiveIs DEF Added, DbInv
    <3>2. SameClause(d, db', r)
      BY <3>1 DEF Added
    <3>3. QED
      BY <3>1, <3>2 DEF SameClause
  <2>4. Finished(i, r)
    BY <1>1 DEF Finished, Visited
  <2>5. Falsifies(trail[i], db, r)
    BY <1>1, <2>1, <2>3 DEF Falsifies
  <2>6. QED
    BY <2>1, <2>3, <2>4, <2>5 DEF PropagatedInv
<1>2. QED
  BY <1>1, PropagatedAfter

(* A clause is added between two questions.                                *)
LEMMA AddClausePropagated ==
    ASSUME BaseInv, PropagatedInv, pc = "idle", NEW C, IsClause(C), add_clause(C)
    PROVE  PropagatedInv'
<1> DEFINE T == VarsOf(C) \cup {0}
           W == AllVars \cup 0 .. Max(T)
           nv == newVars(Max(T), FALSE)
           c == Sorted(Unfalsified(C))
<1>1. AllVars \subseteq Nat /\ ok \in BOOLEAN
  BY DEF BaseInv, VarsInv
<1>2. /\ AddOutcome(C, nv, c) /\ trail_lim' = trail_lim /\ qhead' = qhead /\ wi' = wi
      /\ confl' = confl
  BY <1>1, AddIs
<1>3. Covering(W, C)
  BY <1>1, CoveringIs
<1>4. NewState(nv, W)
  BY NewStateIs
<1> DEFINE d == nv.db
<1> HIDE DEF T, W, nv, c
<1>5. VarsGrown(nv, W)
  BY <1>3, <1>4, VarsGrownIs
<1>6. /\ W \in SUBSET Nat /\ \A p \in C : var(p) \in W
  BY <1>3 DEF Covering
<1>7. /\ DbInv(d, W) /\ TrailType(trail, trail_lim, W) /\ live(d) = live(db)
      /\ SameStore(db, d) /\ \A r : lits(d, r) = lits(db, r)
  BY <1>5 DEF VarsGrown
<1>8. Len(trail_lim) = 0 /\ wi = 0 /\ confl = CRef_Undef /\ qhead = Len(trail) /\ Len(trail) \in Nat
  BY IdleIs
<1>9. ok' => ok
  BY <1>2 DEF AddOutcome
<1> HIDE DEF d
<1>10. CASE db' = d /\ trail' = trail
  <2>1. \A r, i : Finished(i, r)' => Finished(i, r)
    BY <1>2, <1>8 DEF Finished, Visited
  <2>2. live(db') \subseteq live(db) /\ \A r \in live(db') : lits(db', r) = lits(db, r)
    BY <1>7, <1>10
  <2>3. QED
    BY <1>2, <1>9, <1>10, <2>1, <2>2, StillPropagated
<1>11. CASE /\ ok /\ ~Holds(C) /\ Len(c) = 1
            /\ trail' = Append(trail, c[1])
            /\ db' = [d EXCEPT !.reason[var(c[1])] = CRef_Undef]
  <2>1. DOMAIN d = {"ca", "clauses", "learnts", "dirties", "watches", "reason"}
    BY <1>7 DEF DbInv, DbType
  <2>2. db'.ca = d.ca
    BY <1>11, <2>1
  <2>3. live(db') = live(db) /\ \A r : lits(db', r) = lits(db, r)
    BY <1>7, <2>2 DEF live, lits
  <2>4. c[1] \in Lits(W)
    <3>1. \A i \in 1 .. Len(c) : c[i] \in Lits(W)
      BY <1>6, <1>11, UnfalsifiedIs DEF c
    <3>2. QED
      BY <1>11, <3>1
  <2>5. trail \in Seq(Lits(W))
    BY <1>7, TrailIs
  <2>6. /\ Len(trail') = Len(trail) + 1
        /\ \A i \in 1 .. Len(trail) : trail'[i] = trail[i]
    BY <1>11, <2>4, <2>5, AppendProperties
  <2>7. ASSUME NEW r \in live(db'), NEW i \in 1 .. Len(trail'), Falsifies(trail'[i], db', r),
               Finished(i, r)'
        PROVE  /\ i \in 1 .. Len(trail) /\ trail'[i] = trail[i] /\ Finished(i, r)
               /\ \A j \in 1 .. Len(trail) : NotAbove(trail_lim, j, i) =>
                     j \in 1 .. Len(trail') /\ trail'[j] = trail[j] /\ NotAbove(trail_lim', j, i)
    <3>1. i <= qhead
      BY <1>2, <1>8, <2>7 DEF Finished, Visited
    <3>2. i \in 1 .. Len(trail)
      BY <1>8, <2>6, <3>1
    <3>3. Finished(i, r)
      BY <1>8, <3>1, <3>2, QueueDone
    <3>4. QED
      BY <1>2, <1>8, <2>6, <3>2, <3>3
  <2>8. QED
    BY <1>9, <2>3, <2>7, NothingVisited
<1>12. CASE /\ ok /\ ~Holds(C) /\ Len(c) # 0 /\ Len(c) # 1
            /\ db' = newClause(d, c, FALSE)
            /\ trail' = trail
  <2>1. Len(c) \in Nat /\ (Len(c) >= 2 => IsLits(c, W))
        /\ \A i \in 1 .. Len(c) : c[i] \in Lits(W) /\ IsUndef(c[i])
    BY <1>6, <1>12, UnfalsifiedIs DEF c
  <2>2. Len(c) >= 2
    <3>1. Len(c) # 0 /\ Len(c) # 1
      BY <1>12
    <3>2. \A n \in Nat : n # 0 /\ n # 1 => n >= 2
      OBVIOUS
    <3>3. QED
      BY <2>1, <3>1, <3>2
  <2>3. Added(d, db', W, NextCRef(d), c)
    BY <1>6, <1>7, <1>12, <2>1, <2>2, NewClauseInv
  <2>4. IsUndef(c[1]) /\ IsUndef(c[2])
    BY <2>1, <2>2
  <2>5. \A i \in 1 .. Len(trail) : neg(trail[i]) \notin {c[1], c[2]}
    <3>1. \A i \in 1 .. Len(trail) : trail[i] \in ToSet(trail) /\ trail[i] \in Nat
      BY <1>6, <1>7, TrailIs, LitsAre
    <3>2. \A i \in 1 .. Len(trail) : neg(neg(trail[i])) = trail[i]
      BY <3>1, Negation DEF Literal
    <3>3. QED
      BY <2>4, <3>1, <3>2 DEF IsUndef, IsFalse
  <2>6. ok /\ trail' = trail /\ wi' = 0
    BY <1>2, <1>8, <1>12
  <2>7. QED
    BY <1>2, <1>6, <1>7, <1>8, <2>3, <2>5, <2>6, NothingFalsified
<1>13. QED
  BY <1>2, <1>10, <1>11, <1>12 DEF AddOutcome, d

(* The clauses of the client, in their order and later.                    *)
LEMMA ClientPropagated ==
    ASSUME SolverAssumption, BaseInv, PropagatedInv, AddFirst \/ AddLater
    PROVE  PropagatedInv'
<1>1. CASE AddFirst
  <2>1. /\ pc = "idle" /\ toAdd # <<>> /\ add_clause(Head(toAdd))
    BY <1>1 DEF AddFirst
  <2>2. toAdd \in Seq(SUBSET Nat) /\ \A i \in 1 .. Len(toAdd) : IsClause(toAdd[i])
    BY DEF BaseInv, ClientInv
  <2>3. Len(toAdd) \in Nat /\ Len(toAdd) >= 1 /\ Head(toAdd) = toAdd[1]
    BY <2>1, <2>2
  <2>4. IsClause(Head(toAdd))
    BY <2>2, <2>3
  <2>5. QED
    BY <2>1, <2>4, AddClausePropagated
<1>2. CASE AddLater
  <2>1. PICK C \in Extra : pc = "idle" /\ add_clause(C)
    BY <1>2 DEF AddLater
  <2>2. IsClause(C)
    BY DEF SolverAssumption
  <2>3. QED
    BY <2>1, <2>2, AddClausePropagated
<1>3. QED
  BY <1>1, <1>2

-----------------------------------------------------------------------------
(* The assignments below a level that is undone stay, and so do the levels *)
(* below it.                                                               *)
LEMMA BelowStays ==
    ASSUME NEW V, NEW t, NEW lim, TrailType(t, lim, V), NEW l \in 0 .. Len(lim) - 1,
           NEW k, Begins(k, lim), Len(k) = l, NEW i \in Nat, i <= lim[l + 1],
           NEW j \in 1 .. Len(t), NotAbove(lim, j, i)
    PROVE  j <= lim[l + 1] /\ NotAbove(k, j, i)
<1>1. /\ Len(lim) \in Nat /\ \A n \in 1 .. Len(lim) : lim[n] \in Nat
  BY TrailIs
<1>2. l + 1 \in 1 .. Len(lim) /\ \A n \in 1 .. l : n \in 1 .. Len(lim) /\ k[n] = lim[n]
  BY <1>1 DEF Begins
<1>3. ~(lim[l + 1] < j)
  <2>1. SUFFICES ASSUME lim[l + 1] < j PROVE FALSE
    OBVIOUS
  <2>2. lim[l + 1] < i
    BY <1>2, <2>1 DEF NotAbove
  <2>3. QED
    BY <1>1, <1>2, <2>2
<1>4. Len(t) \in Nat /\ j \in Nat
  BY TrailIs
<1>5. QED
  BY <1>1, <1>2, <1>3, <1>4 DEF NotAbove

(* Assignments are undone, those of new are added.                         *)
LEMMA RewindPropagated ==
    ASSUME BaseInv, PropagatedInv, pc # "propagate", ok' => ok, db' = db,
           NEW heap, cancelUntil(0, <<>>, heap), wi' = wi, confl' = CRef_Undef,
           Len(trail_lim) = 0 => confl = CRef_Undef
    PROVE  PropagatedInv'
<1> DEFINE s == KeptTrail(0)
           k == KeptLevels(0)
<1>1. TrailType(trail, trail_lim, AllVars)
  BY DEF BaseInv, TrailOK
<1>2. Len(trail_lim) \in Nat /\ 0 \in 0 .. Len(trail_lim) /\ Len(trail) \in Nat
  BY <1>1, TrailIs
<1> HIDE DEF s, k
<1>3. Cancelled(0, s, k)
  BY <1>2, CancelIs DEF s, k
<1>4. /\ Begins(s, trail) /\ Begins(k, trail_lim) /\ trail_lim' = k /\ qhead' = Len(s)
      /\ Len(s) \in Nat /\ Len(k) = 0 /\ TrailType(s, k, AllVars)
      /\ IF Len(trail_lim) > 0 THEN Len(s) = trail_lim[0 + 1] ELSE s = trail /\ k = trail_lim
  BY <1>3 DEF Cancelled, Undone
<1>5. trail' = s
  <2>1. trail' = s \o <<>> /\ s \in Seq(Lits(AllVars))
    BY <1>4, TrailIs DEF cancelUntil, s
  <2>2. QED
    BY <2>1, ConcatEmptySeq
<1>6. wi = 0 /\ qhead = Len(trail)
  BY DEF BaseInv, WalkInv, FlowInv
<1>7. ASSUME NEW r \in live(db'), NEW i \in 1 .. Len(trail'), Falsifies(trail'[i], db', r),
             Finished(i, r)'
      PROVE  /\ i \in 1 .. Len(trail) /\ trail'[i] = trail[i] /\ Finished(i, r)
             /\ \A j \in 1 .. Len(trail) : NotAbove(trail_lim, j, i) =>
                   j \in 1 .. Len(trail') /\ trail'[j] = trail[j] /\ NotAbove(trail_lim', j, i)
  <2>1. i \in 1 .. Len(trail) /\ trail'[i] = trail[i]
    BY <1>2, <1>4, <1>5, <1>7 DEF Begins
  <2>2. CASE Len(trail_lim) > 0
    <3>1. i \in Nat /\ i <= trail_lim[0 + 1] /\ 0 \in 0 .. Len(trail_lim) - 1
          /\ 1 \in 1 .. Len(trail_lim)
      BY <1>2, <1>4, <1>5, <2>2
    <3>2. Finished(i, r)
      BY <1>2, <1>6, <2>1, <3>1 DEF Finished, Visited
    <3>3. ASSUME NEW j \in 1 .. Len(trail), NotAbove(trail_lim, j, i)
          PROVE  j \in 1 .. Len(trail') /\ trail'[j] = trail[j] /\ NotAbove(trail_lim', j, i)
      <4>1. j <= trail_lim[0 + 1] /\ NotAbove(k, j, i)
        BY <1>1, <1>4, <3>1, <3>3, BelowStays
      <4>2. j \in 1 .. Len(s)
        BY <1>2, <1>4, <2>2, <4>1
      <4>3. QED
        BY <1>4, <1>5, <4>1, <4>2 DEF Begins
    <3>4. QED
      BY <2>1, <3>2, <3>3
  <2>3. CASE ~(Len(trail_lim) > 0)
    <3>1. trail' = trail /\ trail_lim' = trail_lim /\ confl = CRef_Undef
      BY <1>2, <1>4, <1>5, <2>3
    <3>2. Finished(i, r)
      BY <1>2, <1>6, <2>1, <3>1, QueueDone
    <3>3. QED
      BY <2>1, <3>1, <3>2
  <2>4. QED
    BY <2>2, <2>3
<1>8. live(db') \subseteq live(db) /\ \A cr \in live(db') : lits(db', cr) = lits(db, cr)
  OBVIOUS
<1>9. QED
  BY <1>7, <1>8, NothingVisited

(* The answers and the restart.                                            *)
LEMMA AnswersPropagated ==
    ASSUME BaseInv, PropagatedInv,
           Refuse \/ ConflictAtRoot \/ AssumptionFails \/ ModelFound \/ Restart
    PROVE  PropagatedInv'
<1>1. CASE Refuse \/ ConflictAtRoot
  <2>1. ok' = FALSE
    BY <1>1 DEF Refuse, ConflictAtRoot, Return
  <2>2. QED
    BY <2>1 DEF PropagatedInv
<1>2. CASE AssumptionFails \/ ModelFound
  <2>1. PICK heap : cancelUntil(0, <<>>, heap)
    BY <1>2 DEF AssumptionFails, ModelFound, Return
  <2>2. /\ pc = "decide" /\ db' = db /\ wi' = wi /\ confl' = CRef_Undef
    BY <1>2 DEF AssumptionFails, ModelFound, Return, Pending, Branching
  <2>3. ok /\ confl = CRef_Undef
    BY <2>2 DEF BaseInv, FlowInv, ConflInv
  <2>4. QED
    BY <2>1, <2>2, <2>3, RewindPropagated
<1>3. CASE Restart
  <2>1. /\ pc = "search" /\ confl = CRef_Undef /\ cancelUntil(0, <<>>, order_heap)
        /\ db' = db /\ wi' = wi /\ confl' = CRef_Undef /\ ok' = ok
    BY <1>3 DEF Restart
  <2>2. QED
    BY <2>1, RewindPropagated
<1>4. QED
  BY <1>1, <1>2, <1>3

-----------------------------------------------------------------------------
(* The clause that is learnt is true, and its second watch is false at the *)
(* level that the search goes back to.                                     *)
LEMMA LearnPropagated ==
    ASSUME BaseInv, PropagatedInv, Learn
    PROVE  PropagatedInv'
<1> DEFINE V == AllVars
<1>1. PICK c \in Learnable : LearnStep(c, newClause(db, c, TRUE))
  BY DEF Learn, LearnStep
<1>2. /\ pc = "search" /\ confl # CRef_Undef /\ decisionLevel > 0 /\ confl' = CRef_Undef
      /\ ok' = ok /\ wi' = wi
  BY DEF Learn
<1>3. /\ FlowInv /\ WalkInv /\ ConflInv /\ DbInv(db, V) /\ DbType(db, V)
      /\ TrailType(trail, trail_lim, V) /\ ReasonInv(db, trail)
      /\ DecisionInv(db, trail, trail_lim) /\ V \in SUBSET Nat
  BY DEF BaseInv, VarsInv, TrailOK, DbInv
<1>4. CanAnalyze(V)
  <2>1. Len(trail_lim) \in Nat /\ Len(trail_lim) > 0
    BY <1>2, <1>3, TrailIs DEF decisionLevel
  <2>2. QED
    BY <1>2, <1>3, <2>1 DEF CanAnalyze, ConflInv
<1> DEFINE b == btlevel(c)
           s == KeptTrail(b)
           k == KeptLevels(b)
           d == IF Len(c) = 1 THEN db ELSE newClause(db, c, TRUE)
           x == IF Len(c) = 1 THEN CRef_Undef ELSE NextCRef(db)
<1> HIDE DEF V
<1>5. Learned(V, c, b)
  BY <1>4, LearnableIs
<1>6. /\ cancelUntil(b, <<c[1]>>, order_heap)
      /\ db' = [d EXCEPT !.reason[var(c[1])] = x]
  BY <1>1 DEF LearnStep
<1> HIDE DEF b, s, k, d, x
<1>7. /\ b \in 0 .. Len(trail_lim) - 1 /\ b \in 0 .. Len(trail_lim) /\ b + 1 \in 1 .. Len(trail_lim)
      /\ Len(trail_lim) \in Nat /\ Len(trail) \in Nat /\ b \in Nat
      /\ trail_lim[b + 1] \in Nat /\ trail_lim[b + 1] <= Len(trail)
  <2>1. /\ Len(trail_lim) \in Nat /\ Len(trail) \in Nat
        /\ \A n \in 1 .. Len(trail_lim) : trail_lim[n] \in Nat /\ trail_lim[n] <= Len(trail)
    BY <1>3, TrailIs
  <2>2. QED
    BY <1>5, <2>1 DEF Learned
<1>8. Cancelled(b, s, k)
  BY <1>2, <1>6, <1>7, CancelIs DEF s, k
<1>9. /\ Undone(b, s, k) /\ s = KeptTrail(b) /\ trail_lim' = k /\ qhead' = Len(s) /\ Len(s) \in Nat
      /\ Begins(s, trail) /\ Begins(k, trail_lim) /\ Len(k) = b /\ Len(s) = trail_lim[b + 1]
  BY <1>7, <1>8 DEF Cancelled, Undone
<1>10. LearntDb(c, d, s, k, V, b, x)
  BY <1>3, <1>5, <1>9, LearntIs DEF d, x, V
<1>11. /\ DbInv(d, V) /\ TrailType(s, k, V) /\ ReasonInv(d, s) /\ DecisionInv(d, s, k)
       /\ c[1] \in Lits(V) /\ \A i \in 1 .. Len(s) : var(s[i]) # var(c[1])
       /\ x \in Int /\ (x # CRef_Undef => IsReason(d, s, c[1], x))
       /\ x # CRef_Undef \/ Len(k) = 0
  BY <1>10 DEF LearntDb
<1>12. trail' = Append(s, c[1])
  <2>1. s \in Seq(Lits(V))
    BY <1>11, TrailIs
  <2>2. trail' = s \o <<c[1]>>
    BY <1>6 DEF cancelUntil, s
  <2>3. s \o <<c[1]>> = Append(s, c[1])
    BY <1>11, <2>1, AppendIsConcat
  <2>4. QED
    BY <2>2, <2>3
<1>13. Enqueued(d, db', s, trail', k, V, c[1], x)
  BY <1>3, <1>6, <1>11, <1>12, EnqueueIs
<1>14. /\ db'.ca = d.ca /\ Begins(s, trail') /\ Len(trail') = Len(s) + 1
       /\ trail'[Len(s) + 1] = c[1]
  BY <1>13 DEF Enqueued, SameStore
<1>15. live(db') = live(d) /\ \A r : lits(db', r) = lits(d, r)
  BY <1>14 DEF live, lits
<1>16. ASSUME NEW r \in live(d)
       PROVE  \/ r \in live(db) /\ lits(d, r) = lits(db, r)
              \/ Len(c) # 1 /\ lits(d, r) = c
  <2>1. CASE Len(c) = 1
    BY <2>1 DEF d
  <2>2. CASE Len(c) # 1
    <3>1. d = newClause(db, c, TRUE) /\ IsLits(c, V)
      BY <1>5, <2>2 DEF d, Learned
    <3>2. Added(db, d, V, NextCRef(db), c)
      BY <1>3, <3>1, NewClauseInv
    <3>3. live(db) \subseteq 1 .. Len(db.ca)
      BY <1>3, LiveIs
    <3>4. CASE r \in live(db)
      <4>1. SameClause(db, d, r)
        BY <3>2, <3>3, <3>4 DEF Added
      <4>2. QED
        BY <3>4, <4>1 DEF SameClause
    <3>5. CASE r = NextCRef(db)
      BY <2>2, <3>2, <3>5 DEF Added
    <3>6. QED
      BY <3>2, <3>4, <3>5 DEF Added
  <2>3. QED
    BY <2>1, <2>2
<1>17. wi = 0
  BY <1>2, <1>3 DEF WalkInv
<1>18. ASSUME ok', NEW r \in live(db'), NEW i \in 1 .. Len(trail'), Falsifies(trail'[i], db', r),
              Finished(i, r)'
       PROVE  Settled(trail', trail_lim', i, lits(db', r))
  <2>1. i <= Len(s)
    <3>1. Visited(i, r)'
      BY <1>2, <1>18 DEF Finished
    <3>2. i < Len(s) \/ i = Len(s)
      BY <1>9, <3>1 DEF Visited
    <3>3. QED
      BY <1>9, <3>2
  <2>2. /\ i \in 1 .. Len(s) /\ i \in 1 .. Len(trail) /\ i \in Nat
        /\ trail'[i] = trail[i] /\ s[i] = trail[i]
    BY <1>7, <1>9, <1>14, <2>1 DEF Begins
  <2>3. CASE r \in live(db) /\ lits(d, r) = lits(db, r)
    <3>1. Finished(i, r)
      BY <1>2, <1>7, <1>9, <2>1 DEF Finished
    <3>2. Falsifies(trail[i], db, r)
      BY <1>15, <1>18, <2>2, <2>3 DEF Falsifies
    <3>3. Settled(trail, trail_lim, i, lits(db, r))
      BY <1>2, <1>18, <2>2, <2>3, <3>1, <3>2 DEF PropagatedInv
    <3>4. ASSUME NEW j \in 1 .. Len(trail), NotAbove(trail_lim, j, i)
          PROVE  j \in 1 .. Len(trail') /\ trail'[j] = trail[j] /\ NotAbove(trail_lim', j, i)
      <4>1. j <= trail_lim[b + 1] /\ NotAbove(k, j, i)
        BY <1>3, <1>7, <1>9, <2>1, <2>2, <3>4, BelowStays
      <4>2. j \in 1 .. Len(s)
        BY <1>7, <1>9, <4>1
      <4>3. QED
        BY <1>9, <1>14, <4>1, <4>2 DEF Begins
    <3>5. ToSet(lits(db', r)) = ToSet(lits(db, r))
      BY <1>15, <2>3
    <3>6. QED
      BY <3>3, <3>4, <3>5, SettledStays
  <2>4. CASE Len(c) # 1 /\ lits(d, r) = c
    <3>1. neg(trail[i]) \in {c[1], c[2]}
      BY <1>15, <1>18, <2>2, <2>4 DEF Falsifies
    <3>2. trail[i] \in Nat /\ neg(neg(trail[i])) = trail[i] /\ var(neg(trail[i])) = var(trail[i])
      <4>1. trail[i] \in Lits(V)
        BY <1>3, <2>2, TrailIs
      <4>2. QED
        BY <1>3, <4>1, LitsAre, Negation DEF Literal
    <3>3. neg(trail[i]) # c[1]
      BY <1>11, <2>2, <3>2
    <3>4. trail[i] = neg(c[2])
      BY <3>1, <3>2, <3>3
    <3>5. PICK j \in 1 .. trail_lim[b + 1] :
            trail[j] = neg(c[2]) /\ \A n \in 1 .. b : trail_lim[n] < j
      BY <1>5, <2>4 DEF Learned
    <3>6. j = i
      <4>1. j \in 1 .. Len(trail)
        BY <1>7
      <4>2. QED
        BY <1>3, <2>2, <3>4, <3>5, <4>1, TrailIs
    <3>7. NotAbove(trail_lim', Len(s) + 1, i)
      <4>1. \A n \in 1 .. Len(k) : k[n] < i
        BY <1>9, <3>5, <3>6 DEF Begins
      <4>2. QED
        BY <1>9, <4>1 DEF NotAbove
    <3>8. c[1] \in ToSet(c)
      <4>1. IsLits(c, V)
        BY <1>5, <2>4 DEF Learned
      <4>2. c \in Seq(Lits(V)) /\ Len(c) \in Nat /\ Len(c) >= 2
        BY <4>1, LenProperties DEF IsLits
      <4>3. QED
        BY <4>2, ToSetIs
    <3>9. Len(s) + 1 \in 1 .. Len(trail') /\ trail'[Len(s) + 1] \in ToSet(lits(db', r))
      BY <1>9, <1>14, <1>15, <2>4, <3>8
    <3>10. QED
      BY <3>7, <3>9 DEF Settled
  <2>5. QED
    BY <1>15, <1>16, <1>18, <2>3, <2>4
<1>19. QED
  BY <1>18, PropagatedAfter

-----------------------------------------------------------------------------
(* A level is opened once everything is propagated.                        *)
LEMMA LevelPropagated ==
    ASSUME BaseInv, PropagatedInv, pc = "decide", trail_lim' = Append(trail_lim, Len(trail)),
           trail' = trail \/ \E p : trail' = Append(trail, p), db'.ca = db.ca, ok' = ok,
           qhead' = qhead, wi' = wi, confl' = confl
    PROVE  PropagatedInv'
<1>1. /\ trail \in Seq(Lits(AllVars)) /\ Len(trail) \in Nat
      /\ trail_lim \in Seq(Nat) /\ Len(trail_lim) \in Nat
  BY TrailIs DEF BaseInv, TrailOK
<1>2. wi = 0 /\ confl = CRef_Undef /\ qhead = Len(trail)
  BY DEF BaseInv, WalkInv, ConflInv, FlowInv
<1>3. live(db') = live(db) /\ \A r : lits(db', r) = lits(db, r)
  BY DEF live, lits
<1>4. \A j \in 1 .. Len(trail) : j \in 1 .. Len(trail') /\ trail'[j] = trail[j]
  <2>1. CASE trail' = trail
    BY <2>1
  <2>2. ASSUME NEW p, trail' = Append(trail, p)
        PROVE  \A j \in 1 .. Len(trail) : j \in 1 .. Len(trail') /\ trail'[j] = trail[j]
    <3>1. trail \in Seq(Lits(AllVars) \cup {p})
      BY <1>1, SeqWider
    <3>2. /\ Len(trail') = Len(trail) + 1
          /\ \A j \in 1 .. Len(trail) : trail'[j] = trail[j]
      BY <2>2, <3>1, AppendProperties
    <3>3. QED
      BY <1>1, <3>2
  <2>3. QED
    BY <2>1, <2>2
<1>5. /\ Len(trail_lim') = Len(trail_lim) + 1 /\ trail_lim'[Len(trail_lim) + 1] = Len(trail)
      /\ \A n \in 1 .. Len(trail_lim) : trail_lim'[n] = trail_lim[n]
  BY <1>1, AppendProperties
<1>6. ASSUME NEW j \in 1 .. Len(trail), NEW i \in Nat, NotAbove(trail_lim, j, i)
      PROVE  NotAbove(trail_lim', j, i)
  <2>1. ASSUME NEW n \in 1 .. Len(trail_lim'), trail_lim'[n] < j
        PROVE  trail_lim'[n] < i
    <3>1. n # Len(trail_lim) + 1
      BY <1>1, <1>5, <2>1
    <3>2. n \in 1 .. Len(trail_lim)
      BY <1>1, <1>5, <3>1
    <3>3. QED
      BY <1>5, <1>6, <2>1, <3>2 DEF NotAbove
  <2>2. QED
    BY <2>1 DEF NotAbove
<1>7. ASSUME NEW r \in live(db'), NEW i \in 1 .. Len(trail'), Falsifies(trail'[i], db', r),
             Finished(i, r)'
      PROVE  /\ i \in 1 .. Len(trail) /\ trail'[i] = trail[i] /\ Finished(i, r)
             /\ \A j \in 1 .. Len(trail) : NotAbove(trail_lim, j, i) =>
                   j \in 1 .. Len(trail') /\ trail'[j] = trail[j] /\ NotAbove(trail_lim', j, i)
  <2>1. Visited(i, r)'
    BY <1>2, <1>7 DEF Finished
  <2>2. i <= qhead /\ i \in Nat
    BY <1>1, <1>2, <2>1 DEF Visited
  <2>3. i \in 1 .. Len(trail) /\ Finished(i, r)
    BY <1>1, <1>2, <2>2, QueueDone
  <2>4. QED
    BY <1>4, <1>6, <2>2, <2>3
<1>8. QED
  BY <1>3, <1>7, NothingVisited

(* The assumptions and the decisions.                                      *)
LEMMA DecisionsPropagated ==
    ASSUME BaseInv, PropagatedInv, DummyLevel \/ Assume \/ pickBranchLit
    PROVE  PropagatedInv'
<1>1. CASE DummyLevel
  <2>1. /\ pc = "decide" /\ trail_lim' = Append(trail_lim, Len(trail)) /\ ok' = ok
        /\ db' = db /\ trail' = trail /\ qhead' = qhead /\ wi' = wi /\ confl' = confl
    BY <1>1 DEF DummyLevel, Pending
  <2>2. QED
    BY <2>1, LevelPropagated
<1>2. CASE Assume \/ pickBranchLit
  <2>1. pc = "decide" /\ \E p : Decide(p)
    BY <1>2 DEF Assume, pickBranchLit, Pending, Branching
  <2>2. PICK p : Decide(p)
    BY <2>1
  <2>3. /\ trail_lim' = Append(trail_lim, Len(trail)) /\ trail' = Append(trail, p)
        /\ db' = [db EXCEPT !.reason[var(p)] = CRef_Undef] /\ ok' = ok
        /\ qhead' = qhead /\ wi' = wi /\ confl' = confl
    BY <2>2 DEF Decide, Enqueue
  <2>4. DOMAIN db = {"ca", "clauses", "learnts", "dirties", "watches", "reason"}
    BY DEF BaseInv, DbInv, DbType
  <2>5. db'.ca = db.ca
    BY <2>3, <2>4
  <2>6. QED
    BY <2>1, <2>3, <2>5, LevelPropagated
<1>3. QED
  BY <1>1, <1>2

-----------------------------------------------------------------------------
(* Removing and collecting clauses.                                        *)
LEMMA CleanupPropagated ==
    ASSUME BaseInv, PropagatedInv, pc # "propagate", confl = CRef_Undef,
           NEW R \in SUBSET live(db), db' = checkGarbage(removeClauses(db, R)),
           ok' = ok, trail' = trail, trail_lim' = trail_lim, qhead' = qhead, wi' = wi,
           confl' = confl
    PROVE  PropagatedInv'
<1> DEFINE e == removeClauses(db, R)
<1>1. AllVars \in SUBSET Nat /\ DbInv(db, AllVars) /\ wi = 0
  BY DEF BaseInv, VarsInv, WalkInv
<1>2. Removed(db, e, AllVars, R)
  BY <1>1, RemoveIs
<1>3. db' = e \/ db' = garbageCollect(e)
  BY DEF checkGarbage
<1> HIDE DEF e
<1>4. /\ DbInv(e, AllVars) /\ live(e) \subseteq live(db)
      /\ \A r \in live(e) : lits(e, r) = lits(db, r)
  <2>1. live(db) \subseteq 1 .. Len(db.ca)
    BY <1>1, LiveIs DEF DbInv
  <2>2. QED
    BY <1>2, <2>1 DEF Removed
<1>5. \A i, r, q : Finished(i, r)' => Finished(i, q)
  BY <1>1 DEF Finished, Visited
<1>6. CASE db' = e
  BY <1>4, <1>5, <1>6, StillPropagated
<1>7. CASE db' = garbageCollect(e)
  <2>1. Collected(e, db', AllVars)
    BY <1>1, <1>4, <1>7, CollectIs
  <2>2. PICK g : Moved(e, db', g)
    BY <2>1 DEF Collected
  <2>3. ASSUME NEW r \in live(db')
        PROVE  g[r] \in live(db) /\ lits(db', r) = lits(db, g[r])
    <3>1. r \in 1 .. Len(db'.ca)
      BY <2>1 DEF Collected
    <3>2. g[r] \in live(e) /\ db'.ca[r] = e.ca[g[r]]
      BY <2>2, <3>1 DEF Moved
    <3>3. QED
      BY <1>4, <3>2 DEF lits
  <2>4. ASSUME ok', NEW r \in live(db'), NEW i \in 1 .. Len(trail'),
               Falsifies(trail'[i], db', r), Finished(i, r)'
        PROVE  Settled(trail', trail_lim', i, lits(db', r))
    <3>1. g[r] \in live(db) /\ lits(db', r) = lits(db, g[r])
      BY <2>3, <2>4
    <3>2. Finished(i, g[r])
      BY <1>5, <2>4
    <3>3. Falsifies(trail[i], db, g[r])
      BY <2>4, <3>1 DEF Falsifies
    <3>4. QED
      BY <2>4, <3>1, <3>2, <3>3 DEF PropagatedInv
  <2>5. QED
    BY <2>4, PropagatedAfter
<1>8. QED
  BY <1>3, <1>6, <1>7

(* simplify() and reduceDB().                                              *)
LEMMA RemovalsPropagated ==
    ASSUME BaseInv, PropagatedInv, simplify \/ Reduce
    PROVE  PropagatedInv'
<1>1. CASE simplify
  <2> DEFINE R == {cr \in live(db) : satisfied(db, cr)}
  <2>1. /\ pc = "search" /\ confl = CRef_Undef /\ db' = checkGarbage(removeClauses(db, R))
        /\ ok' = ok /\ trail' = trail /\ trail_lim' = trail_lim /\ qhead' = qhead /\ wi' = wi
        /\ confl' = confl
    BY <1>1 DEF simplify, NoConflict, trailVars
  <2>2. R \in SUBSET live(db)
    OBVIOUS
  <2> HIDE DEF R
  <2>3. QED
    BY <2>1, <2>2, CleanupPropagated
<1>2. CASE Reduce
  <2>1. /\ pc = "reduce" /\ ok' = ok /\ trail' = trail /\ trail_lim' = trail_lim
        /\ qhead' = qhead /\ wi' = wi /\ confl' = confl
    BY <1>2 DEF Reduce, trailVars
  <2>2. confl = CRef_Undef /\ db.learnts \subseteq live(db)
    BY <2>1 DEF BaseInv, ConflInv, DbInv, DbType
  <2>3. \/ db' = db
        \/ \E R \in SUBSET live(db) : db' = checkGarbage(removeClauses(db, R))
    <3> DEFINE big == {cr \in db.learnts : Len(lits(db, cr)) > 2}
               free == {cr \in big : ~locked(db, cr)}
    <3>1. free \subseteq live(db)
      BY <2>2
    <3>2. db' = db \/ \E R \in SUBSET free : db' = checkGarbage(removeClauses(db, R))
      BY <1>2, Zenon DEF Reduce, reduceDB
    <3> HIDE DEF free
    <3>3. QED
      BY <3>1, <3>2
  <2>4. CASE db' = db
    BY <2>1, <2>4, QuietPropagated
  <2>5. CASE \E R \in SUBSET live(db) : db' = checkGarbage(removeClauses(db, R))
    BY <2>1, <2>2, <2>5, CleanupPropagated
  <2>6. QED
    BY <2>3, <2>4, <2>5
<1>3. QED
  BY <1>1, <1>2

-----------------------------------------------------------------------------
(* Every step keeps the invariant.                                         *)
LEMMA PropagatedInductive ==
    ASSUME SolverAssumption, BaseInv, PropagatedInv, [Next]_vars
    PROVE  PropagatedInv'
<1>1. CASE Client
  <2>1. CASE AddFirst \/ AddLater
    BY <2>1, ClientPropagated
  <2>2. CASE solve
    BY <2>2, SolvePropagated
  <2>3. CASE Idle
    BY <2>3, StutterPropagated DEF Idle
  <2>4. QED
    BY <1>1, <2>1, <2>2, <2>3 DEF Client
<1>2. CASE Propagation
  BY <1>2, NextFactPropagated, PropagateDonePropagated, BlockerTruePropagated,
     FirstTruePropagated, MoveWatchPropagated, UnitPropagated, ConflictingPropagated
     DEF Propagation
<1>3. CASE Search
  BY <1>3, AddPropagatedPropagated, AnswersPropagated, LearnPropagated, StutterPropagated,
     RemovalsPropagated, DecisionsPropagated DEF Search
<1>4. CASE UNCHANGED vars
  BY <1>4, StutterPropagated
<1>5. QED
  BY <1>1, <1>2, <1>3, <1>4 DEF Next, Work

(* propagate() has visited what it should have, in every state: a clause   *)
(* with a false watch that has been visited is true.                       *)
THEOREM PropagatedInvariant == Spec => []PropagatedInv
<1>1. Init => PropagatedInv
  BY InitPropagated
<1>2. BaseInv /\ PropagatedInv /\ [Next]_vars => PropagatedInv'
  BY SolverAssumption, PropagatedInductive
<1>3. QED
  BY <1>1, <1>2, BaseInvariant, PTL DEF Spec

(* When the search decides, the watches of a clause without a true literal *)
(* are unassigned.                                                         *)
LEMMA NothingIsMissed ==
    ASSUME BaseInv, PropagatedInv
    PROVE  PropagationIsComplete
<1> SUFFICES ASSUME pc = "decide", NEW cr \in live(db), ~satisfied(db, cr)
             PROVE  Cardinality({p \in ToSet(lits(db, cr)) : IsUndef(p)}) >= 2
  BY DEF PropagationIsComplete
<1> DEFINE c == lits(db, cr)
           U == {p \in ToSet(c) : IsUndef(p)}
<1>1. /\ wi = 0 /\ confl = CRef_Undef /\ qhead = Len(trail) /\ ok
      /\ AllVars \in SUBSET Nat /\ DbType(db, AllVars)
  BY DEF BaseInv, WalkInv, ConflInv, FlowInv, VarsInv, DbInv
<1>2. cr \in 1 .. Len(db.ca)
  BY <1>1, LiveIs
<1>3. /\ c \in Seq(Lits(AllVars)) /\ Len(c) \in Nat /\ Len(c) >= 2
      /\ c[1] # c[2]
  BY <1>1, <1>2, ClauseIs
<1>4. /\ Len(trail) \in Nat /\ \A i \in 1 .. Len(trail) : trail[i] \in Lits(AllVars)
      /\ \A q : q \in ToSet(trail) <=> \E i \in 1 .. Len(trail) : trail[i] = q
  BY TrailIs DEF BaseInv, TrailOK
<1>5. \A x : x \in ToSet(c) <=> \E i \in 1 .. Len(c) : c[i] = x
  BY <1>3, ToSetIs
<1>6. ASSUME NEW n \in {1, 2}
      PROVE  c[n] \in U
  <2>1. c[n] \in ToSet(c) /\ c[n] \in Nat
    <3>1. n \in 1 .. Len(c)
      BY <1>3
    <3>2. c[n] \in Lits(AllVars)
      BY <1>3, <3>1
    <3>3. QED
      BY <1>1, <1>5, <3>1, <3>2, LitsAre
  <2>2. ~IsTrue(c[n])
    BY <2>1 DEF satisfied
  <2>3. ~IsFalse(c[n])
    <3>1. SUFFICES ASSUME IsFalse(c[n]) PROVE FALSE
      OBVIOUS
    <3>2. PICK i \in 1 .. Len(trail) : trail[i] = neg(c[n])
      BY <1>4, <3>1 DEF IsFalse
    <3>3. neg(trail[i]) = c[n]
      BY <2>1, <3>2, Negation DEF Literal
    <3>4. Falsifies(trail[i], db, cr)
      BY <3>3 DEF Falsifies
    <3>5. Finished(i, cr)
      BY <1>1, <1>4, QueueDone
    <3>6. Settled(trail, trail_lim, i, c)
      BY <1>1, <3>4, <3>5 DEF PropagatedInv
    <3>7. PICK j \in 1 .. Len(trail) : trail[j] \in ToSet(c)
      BY <3>6 DEF Settled
    <3>8. satisfied(db, cr)
      BY <1>4, <3>7 DEF satisfied, IsTrue
    <3>9. QED
      BY <3>8
  <2>4. QED
    BY <2>1, <2>2, <2>3 DEF IsUndef
<1>7. IsFiniteSet(U)
  <2>1. IsFiniteSet(ToSet(c))
    BY <1>3, <1>5, ImageIsFinite
  <2>2. QED
    BY <2>1, FS_Subset
<1>8. {c[1], c[2]} \subseteq U /\ Cardinality({c[1], c[2]}) = 2
  <2>1. {c[1], c[2]} \subseteq U
    BY <1>6
  <2>2. \A x, y : x # y => Cardinality({x, y}) = 2
    <3>1. ASSUME NEW x, NEW y, x # y PROVE Cardinality({x, y}) = 2
      <4>1. IsFiniteSet({x}) /\ Cardinality({x}) = 1
        BY FS_Singleton
      <4>2. {x, y} = {x} \cup {y} /\ y \notin {x}
        BY <3>1
      <4>3. Cardinality({x} \cup {y}) = Cardinality({x}) + 1
        BY <4>1, <4>2, FS_AddElement
      <4>4. QED
        BY <4>1, <4>2, <4>3
    <3>2. QED
      BY <3>1
  <2>3. QED
    BY <1>3, <2>1, <2>2
<1>9. Cardinality({c[1], c[2]}) <= Cardinality(U) /\ Cardinality(U) \in Nat
  BY <1>7, <1>8, FS_Subset, FS_CardinalityType
<1>10. QED
  BY <1>8, <1>9

(* propagate() leaves no unit clause and no false clause behind            *)
(* (SolverProps' PropagationIsComplete): search() never decides over one.  *)
THEOREM PropagationIsCompleteHolds == Spec => []PropagationIsComplete
  BY NothingIsMissed, BaseInvariant, PropagatedInvariant, PTL

-----------------------------------------------------------------------------
(* What the client mentions, and the variables there can be.               *)
Mentionable ==
    /\ OracleVars \in SUBSET Nat /\ ProblemVariables \subseteq OracleVars
    /\ \A v \in OracleVars : 0 .. v \subseteq OracleVars
    /\ 0 \in OracleVars
    /\ \A C \in EveryClause : IsClause(C) /\ \A p \in C : var(p) \in OracleVars
    /\ \A as \in Questions : as \in Seq(Nat) /\ \A p \in ToSet(as) : p \in Nat /\ var(p) \in OracleVars
    /\ Extra \subseteq EveryClause
    /\ \A f \in Formulas : f \in Seq(SUBSET Nat) /\ ToSet(f) \subseteq EveryClause

(* The variables up to the largest one include all that are mentioned.     *)
LEMMA MentionableIs ==
    ASSUME SolverAssumption, OracleAssumption
    PROVE  Mentionable
<1> DEFINE T == UNION {VarsOf(C) : C \in EveryClause \cup EveryQuestion}
           S == {0} \cup ProblemVariables \cup T
<1>1. \A C \in EveryClause : IsClause(C)
  BY SolverAssumption DEF EveryClause
<1>2. \A as \in Questions : as \in Seq(Nat) /\ \A p \in ToSet(as) : p \in Nat
  BY SolverAssumption, ToSetIs
<1>3. \A C \in EveryClause \cup EveryQuestion : \A p \in C : p \in Nat
  BY <1>1, <1>2 DEF IsClause, EveryQuestion
<1>4. T \in SUBSET Nat
  <2>1. \A p \in Nat : var(p) \in Nat
    BY Negation DEF Literal
  <2>2. QED
    BY <1>3, <2>1 DEF VarsOf
<1>5. ProblemVars \in Nat /\ ProblemVariables \subseteq Nat /\ IsFiniteSet(ProblemVariables)
  <2>1. ProblemVars \in Nat
    BY SolverAssumption
  <2>2. 0 \in Int /\ ProblemVars - 1 \in Int
    BY <2>1
  <2>3. IsFiniteSet(0 .. ProblemVars - 1)
    BY <2>2, FS_Interval
  <2>4. QED
    BY <2>1, <2>3 DEF ProblemVariables
<1>6. IsFiniteSet(S)
  <2>1. IsFiniteSet(T)
    BY OracleAssumption
  <2> HIDE DEF T
  <2>2. IsFiniteSet({0})
    BY FS_Singleton
  <2>3. IsFiniteSet({0} \cup ProblemVariables)
    BY <1>5, <2>2, FS_Union
  <2>4. QED
    BY <2>1, <2>3, FS_Union
<1>7. S \in SUBSET Nat /\ S # {}
  <2> HIDE DEF T
  <2>1. QED
    BY <1>4, <1>5
<1>8. OracleVars = 0 .. Max(S)
  BY DEF OracleVars
<1>9. T \subseteq S /\ ProblemVariables \subseteq S /\ 0 \in S
  OBVIOUS
<1>10. \A C \in EveryClause \cup EveryQuestion : \A p \in C : var(p) \in T
  BY DEF VarsOf
<1> HIDE DEF S, T
<1>11. Max(S) \in Nat /\ \A y \in S : y \in Nat /\ y <= Max(S)
  BY <1>6, <1>7, MaxIs
<1>12. S \subseteq OracleVars /\ OracleVars \in SUBSET Nat /\ \A v \in OracleVars : 0 .. v \subseteq OracleVars
  BY <1>8, <1>11
<1>13. \A as \in Questions : ToSet(as) \in EveryClause \cup EveryQuestion
  BY DEF EveryQuestion
<1>14. \A f \in Formulas : f \in Seq(SUBSET Nat) /\ ToSet(f) \subseteq EveryClause
  BY SolverAssumption DEF EveryClause
<1>15. Extra \subseteq EveryClause
  BY DEF EveryClause
<1>16. QED
  BY <1>1, <1>2, <1>9, <1>10, <1>12, <1>13, <1>14, <1>15 DEF Mentionable

(* What the client has handed over so far; the problem's variables are     *)
(* decision variables.                                                     *)
MentionedInv ==
    /\ added \subseteq EveryClause
    /\ ToSet(toAdd) \subseteq EveryClause
    /\ assumptions = <<>> \/ assumptions \in Questions
    /\ AllVars \subseteq OracleVars
    /\ \A v \in ProblemVariables : v \in AllVars /\ decision[v]

(* Nothing is added, the problem's variables are there from the start.     *)
LEMMA InitMentioned ==
    ASSUME SolverAssumption, OracleAssumption, Init
    PROVE  MentionedInv
<1>1. Mentionable
  BY MentionableIs
<1>2. AllVars = ProblemVariables /\ \A v \in ProblemVariables : decision[v]
  BY DEF Init, AllVars, ProblemVariables
<1>3. added = {} /\ toAdd \in Formulas /\ assumptions = <<>>
  BY DEF Init
<1>4. QED
  BY <1>1, <1>2, <1>3 DEF Mentionable, MentionedInv

(* The variables are those of the clause C, too; the new ones are no       *)
(* decision variables.                                                     *)
LEMMA GrownMentioned ==
    ASSUME BaseInv, MentionedInv, Mentionable, NEW C, IsClause(C),
           \A p \in C : var(p) \in OracleVars,
           decision' = newVars(Max(VarsOf(C) \cup {0}), FALSE).decision
    PROVE  /\ AllVars' \subseteq OracleVars
           /\ \A v \in ProblemVariables : v \in AllVars' /\ decision'[v]
<1> DEFINE T == VarsOf(C) \cup {0}
           W == AllVars \cup 0 .. Max(T)
           nv == newVars(Max(T), FALSE)
<1>1. AllVars \subseteq Nat
  BY DEF BaseInv, VarsInv
<1>2. NewState(nv, W)
  BY NewStateIs
<1>3. T \in SUBSET Nat /\ IsFiniteSet(T) /\ T # {} /\ T \subseteq OracleVars
  <2>1. VarsOf(C) \subseteq OracleVars /\ 0 \in OracleVars /\ OracleVars \subseteq Nat
    BY DEF VarsOf, Mentionable
  <2>2. IsFiniteSet(VarsOf(C))
    BY VarsAreFinite
  <2>3. IsFiniteSet(VarsOf(C) \cup {0})
    BY <2>2, FS_AddElement
  <2>4. QED
    BY <2>1, <2>3
<1>4. decision' = nv.decision
  OBVIOUS
<1>5. Max(T) \in T
  BY <1>3, MaxIs
<1> HIDE DEF T, nv
<1>6. W \subseteq OracleVars
  BY <1>3, <1>5 DEF MentionedInv, Mentionable
<1> HIDE DEF W
<1>7. decision' = [v \in W |-> IF v \in W \ AllVars THEN FALSE ELSE decision[v]]
  BY <1>2, <1>4 DEF NewState
<1>8. AllVars' = W
  BY <1>7 DEF AllVars
<1>9. AllVars \subseteq W
  BY DEF W
<1>10. \A v \in ProblemVariables : v \in W /\ decision'[v]
  BY <1>7, <1>9 DEF MentionedInv
<1>11. QED
  BY <1>6, <1>8, <1>10

(* The client keeps to what it may mention.                                *)
LEMMA MentionedStep ==
    ASSUME SolverAssumption, OracleAssumption, BaseInv, MentionedInv, [Next]_vars
    PROVE  MentionedInv'
<1>1. Mentionable
  BY MentionableIs
<1>2. ASSUME NEW C \in EveryClause, add_clause(C), ToSet(toAdd') \subseteq EveryClause
      PROVE  MentionedInv'
  <2>1. IsClause(C) /\ \A p \in C : var(p) \in OracleVars
    BY <1>1 DEF Mentionable
  <2>2. /\ decision' = newVars(Max(VarsOf(C) \cup {0}), FALSE).decision
        /\ added' = added \cup {C} /\ assumptions' = assumptions
    BY <1>2, Zenon DEF add_clause, searchVars
  <2>3. /\ AllVars' \subseteq OracleVars
        /\ \A v \in ProblemVariables : v \in AllVars' /\ decision'[v]
    BY <1>1, <2>1, <2>2, GrownMentioned
  <2>4. QED
    BY <1>2, <2>2, <2>3 DEF MentionedInv
<1>3. CASE AddFirst
  <2>1. toAdd # <<>> /\ add_clause(Head(toAdd)) /\ toAdd' = Tail(toAdd)
    BY <1>3 DEF AddFirst
  <2>2. toAdd \in Seq(SUBSET Nat)
    BY DEF BaseInv, ClientInv
  <2>3. Len(toAdd) >= 1 /\ Head(toAdd) = toAdd[1]
    BY <2>1, <2>2
  <2>4. \A x : x \in ToSet(Tail(toAdd)) <=> \E k \in 2 .. Len(toAdd) : toAdd[k] = x
    BY <2>2, <2>3, ToSetTail
  <2>5. \A x : x \in ToSet(toAdd) <=> \E k \in 1 .. Len(toAdd) : toAdd[k] = x
    BY <2>2, ToSetIs
  <2>6. Head(toAdd) \in ToSet(toAdd) /\ ToSet(Tail(toAdd)) \subseteq ToSet(toAdd)
    BY <2>2, <2>3, <2>4, <2>5
  <2>7. QED
    BY <1>2, <2>1, <2>6 DEF MentionedInv
<1>4. CASE AddLater
  <2>1. toAdd' = toAdd /\ \E C \in Extra : add_clause(C)
    BY <1>4 DEF AddLater
  <2>2. QED
    BY <1>1, <1>2, <2>1 DEF Mentionable, MentionedInv
<1>5. CASE solve
  <2>1. added' = added /\ toAdd' = toAdd /\ \E as \in Questions : Ask(as)
    BY <1>5 DEF solve
  <2>2. PICK as \in Questions : Ask(as)
    BY <2>1
  <2>3. as \in Seq(Nat) /\ \A p \in ToSet(as) : p \in Nat /\ var(p) \in OracleVars
    BY <1>1 DEF Mentionable
  <2>4. IsClause(ToSet(as)) /\ {var(p) : p \in ToSet(as)} = VarsOf(ToSet(as))
    BY <2>3, QuestionIs
  <2>5. assumptions' = as /\ decision' = newVars(Max(VarsOf(ToSet(as)) \cup {0}), FALSE).decision
    BY <2>2, <2>4, Zenon DEF Ask
  <2>6. /\ AllVars' \subseteq OracleVars
        /\ \A v \in ProblemVariables : v \in AllVars' /\ decision'[v]
    BY <1>1, <2>3, <2>4, <2>5, GrownMentioned
  <2>7. QED
    BY <2>1, <2>5, <2>6 DEF MentionedInv
<1>6. CASE Work \/ UNCHANGED vars \/ Idle
  <2>1. decision' = decision /\ assumptions' = assumptions /\ added' = added /\ toAdd' = toAdd
    <3>1. CASE Propagation
      BY <3>1 DEF Propagation, NextFact, PropagateDone, BlockerTrue, FirstTrue, MoveWatch, Unit,
                  Conflicting, PropagateUnchanged, searchVars, clientVars
    <3>2. CASE AddPropagated \/ Refuse \/ ConflictAtRoot \/ Learn \/ Restart \/ KeepAsItIs
      BY <3>2 DEF AddPropagated, Refuse, ConflictAtRoot, Learn, Restart, KeepAsItIs, Return,
                  searchVars, clientVars
    <3>3. CASE simplify \/ Reduce \/ DummyLevel \/ AssumptionFails \/ Assume \/ pickBranchLit \/ ModelFound
      BY <3>3 DEF simplify, Reduce, DummyLevel, AssumptionFails, Assume, pickBranchLit, Decide,
                  ModelFound, Return, searchVars, clientVars
    <3>4. CASE UNCHANGED vars \/ Idle
      BY <3>4 DEF Idle, vars, searchVars, clientVars
    <3>5. QED
      BY <1>6, <3>1, <3>2, <3>3, <3>4 DEF Work, Search
  <2>2. QED
    BY <2>1 DEF MentionedInv, AllVars
<1>7. QED
  BY <1>3, <1>4, <1>5, <1>6 DEF Next, Client

-----------------------------------------------------------------------------
(* The clauses e has of the client are clauses of d.                       *)
From(d, e) ==
    \A cr \in e.clauses : \E r \in d.clauses : ToSet(lits(e, cr)) = ToSet(lits(d, r))

(* The same clauses, in another order.                                     *)
LEMMA FromSame ==
    ASSUME NEW V, NEW d, DbType(d, V), NEW e, SameClauses(d, e)
    PROVE  From(d, e)
<1>1. d.clauses \subseteq live(d)
  BY DEF DbType
<1>2. QED
  BY <1>1 DEF SameClauses, From

(* Removal.                                                                *)
LEMMA FromRemoved ==
    ASSUME NEW V, NEW d, DbType(d, V), NEW R, NEW e, Removed(d, e, V, R)
    PROVE  From(d, e)
<1>1. d.clauses \subseteq 1 .. Len(d.ca)
  BY LiveIs DEF DbType
<1>2. e.clauses \subseteq d.clauses
  BY DEF Removed
<1>3. \A cr \in e.clauses : lits(e, cr) = lits(d, cr)
  BY <1>1, <1>2 DEF Removed
<1>4. QED
  BY <1>2, <1>3 DEF From

(* Collection.                                                             *)
LEMMA FromGarbage ==
    ASSUME NEW V \in SUBSET Nat, NEW d, DbInv(d, V), NEW e, e = checkGarbage(d)
    PROVE  From(d, e)
<1>1. e = d \/ e = garbageCollect(d)
  BY DEF checkGarbage
<1>2. CASE e = d
  BY <1>2 DEF From
<1>3. CASE e = garbageCollect(d)
  <2>1. Collected(d, e, V)
    BY <1>3, CollectIs
  <2>2. PICK g : Moved(d, e, g)
    BY <2>1 DEF Collected
  <2>3. /\ \A i \in 1 .. Len(e.ca) : e.ca[i] = d.ca[g[i]]
        /\ e.clauses = {i \in 1 .. Len(e.ca) : g[i] \in d.clauses}
    BY <2>2 DEF Moved
  <2>4. \A i \in e.clauses : g[i] \in d.clauses /\ lits(e, i) = lits(d, g[i])
    BY <2>3 DEF lits
  <2>5. QED
    BY <2>4 DEF From
<1>4. QED
  BY <1>1, <1>2, <1>3

(* Clauses go, and the rest may be collected.                              *)
LEMMA FromCleanup ==
    ASSUME NEW V \in SUBSET Nat, NEW d, DbInv(d, V), NEW R \in SUBSET live(d),
           NEW e, e = checkGarbage(removeClauses(d, R))
    PROVE  From(d, e)
<1> DEFINE f == removeClauses(d, R)
<1>1. Removed(d, f, V, R)
  BY RemoveIs
<1>2. e = checkGarbage(f)
  OBVIOUS
<1> HIDE DEF f
<1>3. From(d, f)
  BY <1>1, FromRemoved DEF DbInv
<1>4. From(f, e)
  BY <1>1, <1>2, FromGarbage DEF Removed
<1>5. QED
  BY <1>3, <1>4 DEF From

(* The reason of a variable changes.                                       *)
LEMMA FromReasoned ==
    ASSUME NEW V, NEW d, DbType(d, V), NEW v, NEW r, NEW e, e = [d EXCEPT !.reason[v] = r]
    PROVE  From(d, e)
<1>1. DOMAIN d = {"ca", "clauses", "learnts", "dirties", "watches", "reason"}
  BY DEF DbType
<1>2. e.ca = d.ca /\ e.clauses = d.clauses
  BY <1>1
<1>3. QED
  BY <1>2 DEF From, lits

(* propagate() turns clauses around, at most.                              *)
LEMMA PropagationFrom ==
    ASSUME BaseInv, Propagation
    PROVE  From(db, db')
<1>1. AllVars \in SUBSET Nat /\ DbInv(db, AllVars) /\ DbType(db, AllVars)
  BY DEF BaseInv, VarsInv, DbInv
<1>2. CASE NextFact \/ PropagateDone
  <2>1. db' = cleanAll(db)
    BY <1>2 DEF NextFact, PropagateDone
  <2>2. Cleaned(db, db', AllVars)
    BY <1>1, <2>1, CleanIs
  <2>3. QED
    BY <1>1, <2>2, SameStoreAgain, FromSame DEF Cleaned
<1>3. CASE BlockerTrue \/ FirstTrue \/ Conflicting \/ Unit
  <2> DEFINE cr == Watched.cref
             b == Turned
             d == KeepWatch(b)
  <2>1. Visiting /\ (db' = db \/ db' = d \/ db' = [d EXCEPT !.reason[var(b[1])] = cr])
    BY <1>3 DEF BlockerTrue, FirstTrue, Conflicting, Unit, Enqueue
  <2>2. VisitedWatcher(p0, cr, b)
    BY <2>1, VisitIs
  <2> HIDE DEF b, d
  <2>3. Shuffled(db, d, AllVars, cr, b)
    BY <2>2, KeptIsShuffled DEF d
  <2>4. ToSet(b) = ToSet(lits(db, cr))
    BY <2>2 DEF VisitedWatcher, Permuted
  <2>5. From(db, d) /\ DbType(d, AllVars)
    BY <1>1, <2>3, <2>4, ShuffledSame, FromSame DEF Shuffled, DbInv
  <2>6. CASE db' = db
    BY <2>6 DEF From
  <2>7. CASE db' = d
    BY <2>5, <2>7
  <2>8. CASE db' = [d EXCEPT !.reason[var(b[1])] = cr]
    <3>1. From(d, db')
      BY <2>5, <2>8, FromReasoned
    <3>2. QED
      BY <2>5, <3>1 DEF From
  <2>9. QED
    BY <2>1, <2>6, <2>7, <2>8
<1>4. CASE MoveWatch
  <2> DEFINE cr == Watched.cref
             b == Turned
             k == Min(NewWatches(b))
             c == Swap(b, 2, k)
  <2>1. Visiting
    BY <1>4 DEF MoveWatch
  <2>2. VisitedWatcher(p0, cr, b)
    BY <2>1, VisitIs
  <2> HIDE DEF b, k, c
  <2>3. Shuffled(db, db', AllVars, cr, c) /\ k \in 3 .. Len(b)
    BY <1>4, <2>2, MoveWatchIsShuffled DEF b, k, c
  <2>4. IsLits(b, AllVars) /\ ToSet(b) = ToSet(lits(db, cr))
    BY <2>2 DEF VisitedWatcher, Permuted
  <2>5. Len(b) \in Nat
    BY <2>4 DEF IsLits
  <2>6. 2 \in 1 .. Len(b) /\ k \in 1 .. Len(b) /\ 2 # k
    BY <2>3, <2>5
  <2>7. SwapOf(b, c, AllVars, 2, k)
    BY <2>4, <2>6, SwapIs DEF c
  <2>8. ToSet(c) = ToSet(lits(db, cr))
    BY <2>4, <2>7 DEF SwapOf, Permuted
  <2>9. QED
    BY <1>1, <2>3, <2>8, ShuffledSame, FromSame
<1>5. QED
  BY <1>2, <1>3, <1>4 DEF Propagation

(* The search learns clauses and removes some; none of them becomes one of *)
(* the client's.                                                           *)
LEMMA SearchFrom ==
    ASSUME BaseInv, Search
    PROVE  From(db, db')
<1>1. AllVars \in SUBSET Nat /\ DbInv(db, AllVars) /\ DbType(db, AllVars)
  BY DEF BaseInv, VarsInv, DbInv
<1>2. CASE db' = db
  BY <1>2 DEF From
<1>3. CASE AddPropagated \/ Refuse \/ ConflictAtRoot \/ Restart \/ KeepAsItIs \/ DummyLevel
            \/ AssumptionFails \/ ModelFound
  BY <1>2, <1>3 DEF AddPropagated, Refuse, ConflictAtRoot, Restart, KeepAsItIs, DummyLevel,
            AssumptionFails, ModelFound, Return
<1>4. CASE Assume \/ pickBranchLit
  <2>1. \E p : db' = [db EXCEPT !.reason[var(p)] = CRef_Undef]
    BY <1>4, Zenon DEF Assume, pickBranchLit, Decide, Enqueue
  <2>2. QED
    BY <1>1, <2>1, FromReasoned
<1>5. CASE simplify
  <2> DEFINE R == {cr \in live(db) : satisfied(db, cr)}
  <2>1. R \in SUBSET live(db)
    OBVIOUS
  <2>2. db' = checkGarbage(removeClauses(db, R))
    BY <1>5 DEF simplify
  <2> HIDE DEF R
  <2>3. QED
    BY <1>1, <2>1, <2>2, FromCleanup
<1>6. CASE Reduce
  <2> DEFINE big == {cr \in db.learnts : Len(lits(db, cr)) > 2}
             free == {cr \in big : ~locked(db, cr)}
  <2>1. free \subseteq live(db)
    BY <1>1 DEF DbType
  <2>2. db' = db \/ \E R \in SUBSET free : db' = checkGarbage(removeClauses(db, R))
    BY <1>6, Zenon DEF Reduce, reduceDB
  <2> HIDE DEF free
  <2>3. ASSUME NEW R \in SUBSET free, db' = checkGarbage(removeClauses(db, R)) PROVE From(db, db')
    <3>1. R \in SUBSET live(db)
      BY <2>1
    <3>2. QED
      BY <1>1, <2>3, <3>1, FromCleanup
  <2>4. QED
    BY <1>2, <2>2, <2>3
<1>7. CASE Learn
  <2> DEFINE V == AllVars
  <2>1. PICK c \in Learnable : LearnStep(c, newClause(db, c, TRUE))
    BY <1>7 DEF Learn, LearnStep
  <2>2. pc = "search" /\ confl # CRef_Undef /\ decisionLevel > 0
    BY <1>7 DEF Learn
  <2>3. /\ ConflInv /\ TrailOK /\ DbInv(db, V) /\ DbType(db, V)
        /\ TrailType(trail, trail_lim, V) /\ ReasonInv(db, trail)
        /\ DecisionInv(db, trail, trail_lim) /\ V \in SUBSET Nat
    BY DEF BaseInv, VarsInv, TrailOK, DbInv
  <2>4. CanAnalyze(V)
    <3>1. Len(trail_lim) \in Nat /\ Len(trail_lim) > 0
      BY <2>2, <2>3, TrailIs DEF decisionLevel
    <3>2. QED
      BY <2>2, <2>3, <3>1 DEF CanAnalyze, ConflInv
  <2>5. Learned(V, c, btlevel(c))
    BY <2>4, LearnableIs
  <2>6. Len(c) = 1 \/ IsLits(c, V)
    BY <2>5 DEF Learned
  <2> HIDE DEF V
  <2>7. CASE db' = [db EXCEPT !.reason[var(c[1])] = CRef_Undef]
    BY <2>3, <2>7, FromReasoned
  <2>8. CASE Len(c) # 1 /\ db' = [newClause(db, c, TRUE) EXCEPT !.reason[var(c[1])] = NextCRef(db)]
    <3> DEFINE d == newClause(db, c, TRUE)
    <3>2. db' = [d EXCEPT !.reason[var(c[1])] = NextCRef(db)]
      BY <2>8
    <3>9. d = newClause(db, c, TRUE) /\ IsLits(c, V)
      BY <2>6, <2>8
    <3> HIDE DEF d
    <3>10. Added(db, d, V, NextCRef(db), c)
      BY <2>3, <3>9, NewClauseInv
    <3>11. IsLearnt(db, d, TRUE, NextCRef(db))
      BY <2>3, <3>9, NewClauseKind
    <3>1. Added(db, d, V, NextCRef(db), c) /\ d.clauses = db.clauses
      BY <3>10, <3>11 DEF IsLearnt
    <3>3. DbType(d, V)
      BY <3>1 DEF Added, DbInv
    <3>4. From(d, db')
      BY <3>2, <3>3, FromReasoned
    <3>5. db.clauses \subseteq 1 .. Len(db.ca)
      BY <2>3, LiveIs DEF DbType
    <3>6. \A r \in db.clauses : lits(d, r) = lits(db, r)
      BY <3>1, <3>5 DEF Added, SameClause
    <3>7. From(db, d)
      BY <3>1, <3>6 DEF From
    <3>8. QED
      BY <3>4, <3>7 DEF From
  <2>9. QED
    BY <2>1, <2>7, <2>8 DEF LearnStep
<1>8. QED
  BY <1>3, <1>4, <1>5, <1>6, <1>7 DEF Search

(* A question adds no clause.                                              *)
LEMMA SolveFrom ==
    ASSUME BaseInv, solve
    PROVE  From(db, db')
<1>1. PICK as \in Questions : Ask(as)
  BY DEF solve
<1> DEFINE n == Max({var(p) : p \in ToSet(as)} \cup {0})
           W == AllVars \cup 0 .. n
           nv == newVars(n, FALSE)
<1>2. NewState(nv, W)
  BY NewStateIs
<1>3. db' = nv.db
  BY <1>1, Zenon DEF Ask
<1> HIDE DEF n, W, nv
<1>4. db' = Grew(db, AllVars, W)
  BY <1>2, <1>3 DEF NewState
<1>5. DOMAIN db = {"ca", "clauses", "learnts", "dirties", "watches", "reason"}
  BY DEF BaseInv, DbInv, DbType
<1>6. db'.ca = db.ca /\ db'.clauses = db.clauses
  BY <1>4, <1>5 DEF Grew
<1>7. QED
  BY <1>6 DEF From, lits

(* A clause of the client is part of one that was added.                   *)
OriginInv == \A cr \in db.clauses : \E C \in added : ToSet(lits(db, cr)) \subseteq C

(* addClause_ drops literals from a clause, at most.                       *)
LEMMA AddOrigin ==
    ASSUME BaseInv, OriginInv, pc = "idle", NEW C, IsClause(C), add_clause(C)
    PROVE  OriginInv'
<1> DEFINE T == VarsOf(C) \cup {0}
           W == AllVars \cup 0 .. Max(T)
           nv == newVars(Max(T), FALSE)
           c == Sorted(Unfalsified(C))
           d == nv.db
<1>1. VarsInv /\ AllVars \subseteq Nat /\ ok \in BOOLEAN
  BY DEF BaseInv, VarsInv
<1>2. AddOutcome(C, nv, c) /\ added' = added \cup {C}
  BY <1>1, AddIs
<1>3. Covering(W, C)
  BY <1>1, CoveringIs
<1>4. NewState(nv, W)
  BY NewStateIs
<1> HIDE DEF T, W, nv, c, d
<1>5. VarsGrown(nv, W)
  BY <1>3, <1>4, VarsGrownIs
<1>6. W \in SUBSET Nat /\ \A p \in C : var(p) \in W
  BY <1>3 DEF Covering
<1>7. DbInv(d, W) /\ SameStore(db, d) /\ DbType(d, W)
  BY <1>5 DEF VarsGrown, d, DbInv
<1>8. From(db, d)
  BY <1>7 DEF SameStore, From, lits
<1>9. ASSUME From(d, db') PROVE OriginInv'
  <2>1. From(db, db')
    BY <1>8, <1>9 DEF From
  <2>2. QED
    BY <1>2, <2>1 DEF From, OriginInv
<1>10. CASE db' = d
  BY <1>9, <1>10 DEF From
<1>11. CASE db' = [d EXCEPT !.reason[var(c[1])] = CRef_Undef]
  BY <1>7, <1>9, <1>11, FromReasoned
<1>12. CASE /\ ~Holds(C) /\ Len(c) # 0 /\ Len(c) # 1
            /\ db' = newClause(d, c, FALSE)
  <2>1. ToSet(c) = Unfalsified(C) /\ Len(c) \in Nat /\ (Len(c) >= 2 => IsLits(c, W))
    BY <1>6, <1>12, UnfalsifiedIs DEF c
  <2>2. IsLits(c, W)
    <3>1. \A n \in Nat : n # 0 /\ n # 1 => n >= 2
      OBVIOUS
    <3>2. QED
      BY <1>12, <2>1, <3>1
  <2>8. PICK e : e = db'
    OBVIOUS
  <2>9. e = newClause(d, c, FALSE)
    BY <1>12, <2>8
  <2>10. Added(d, e, W, NextCRef(d), c)
    BY <1>6, <1>7, <2>2, <2>9, NewClauseInv
  <2>11. IsLearnt(d, e, FALSE, NextCRef(d))
    BY <1>6, <1>7, <2>2, <2>9, NewClauseKind
  <2>3. /\ Added(d, db', W, NextCRef(d), c)
        /\ db'.clauses = d.clauses \cup {NextCRef(d)}
    BY <2>8, <2>10, <2>11 DEF IsLearnt
  <2>4. d.clauses \subseteq 1 .. Len(d.ca)
    BY <1>7, LiveIs DEF DbType
  <2>5. ASSUME NEW r \in d.clauses PROVE \E D \in added : ToSet(lits(db', r)) \subseteq D
    <3>1. lits(db', r) = lits(d, r)
      BY <2>3, <2>4 DEF Added, SameClause
    <3>2. PICK x \in db.clauses : ToSet(lits(d, r)) = ToSet(lits(db, x))
      BY <1>8 DEF From
    <3>3. QED
      BY <3>1, <3>2 DEF OriginInv
  <2>6. ToSet(lits(db', NextCRef(d))) \subseteq C
    BY <2>1, <2>3 DEF Added, Unfalsified
  <2>7. QED
    BY <1>2, <2>3, <2>5, <2>6 DEF OriginInv
<1>13. QED
  BY <1>2, <1>10, <1>11, <1>12 DEF AddOutcome, d

(* ... and nobody else makes one.                                          *)
LEMMA OriginStep ==
    ASSUME SolverAssumption, BaseInv, OriginInv, [Next]_vars
    PROVE  OriginInv'
<1>1. CASE AddFirst
  <2>1. pc = "idle" /\ toAdd # <<>> /\ add_clause(Head(toAdd))
    BY <1>1 DEF AddFirst
  <2>2. toAdd \in Seq(SUBSET Nat) /\ \A i \in 1 .. Len(toAdd) : IsClause(toAdd[i])
    BY DEF BaseInv, ClientInv
  <2>3. Len(toAdd) >= 1 /\ Head(toAdd) = toAdd[1]
    BY <2>1, <2>2
  <2>4. IsClause(Head(toAdd))
    BY <2>2, <2>3
  <2>5. QED
    BY <2>1, <2>4, AddOrigin
<1>2. CASE AddLater
  <2>1. pc = "idle" /\ \E C \in Extra : add_clause(C)
    BY <1>2 DEF AddLater
  <2>2. \A C \in Extra : IsClause(C)
    BY SolverAssumption
  <2>3. QED
    BY <2>1, <2>2, AddOrigin
<1>3. CASE solve \/ Propagation \/ Search \/ UNCHANGED vars \/ Idle
  <2>1. From(db, db')
    <3>1. CASE UNCHANGED vars \/ Idle
      BY <3>1 DEF Idle, vars, From
    <3>2. QED
      BY <1>3, <3>1, SolveFrom, PropagationFrom, SearchFrom
  <2>2. added' = added
    <3>1. CASE Propagation
      BY <3>1 DEF Propagation, NextFact, PropagateDone, BlockerTrue, FirstTrue, MoveWatch, Unit,
                  Conflicting, PropagateUnchanged, clientVars
    <3>2. CASE AddPropagated \/ Refuse \/ ConflictAtRoot \/ Learn \/ Restart \/ KeepAsItIs
      BY <3>2 DEF AddPropagated, Refuse, ConflictAtRoot, Learn, Restart, KeepAsItIs, Return, clientVars
    <3>3. CASE simplify \/ Reduce \/ DummyLevel \/ AssumptionFails \/ Assume \/ pickBranchLit \/ ModelFound
      BY <3>3 DEF simplify, Reduce, DummyLevel, AssumptionFails, Assume, pickBranchLit, Decide,
                  ModelFound, Return, clientVars
    <3>4. CASE UNCHANGED vars \/ Idle \/ solve
      BY <3>4 DEF Idle, vars, clientVars, solve
    <3>5. QED
      BY <1>3, <3>1, <3>2, <3>3, <3>4 DEF Search
  <2>3. QED
    BY <2>1, <2>2 DEF From, OriginInv
<1>4. QED
  BY <1>1, <1>2, <1>3 DEF Next, Client, Work

-----------------------------------------------------------------------------
(* The solver works on a question.                                         *)
Busy == pc \in {"search", "reduce", "decide", "refuse"} \/ (pc = "propagate" /\ ret = "search")

(* An answer is pending while it does, and there are no results yet.       *)
PendingInv ==
    /\ answer = "pending" <=> Busy
    /\ Busy => model = {} /\ conflict = {}

(* Propagation answers nothing, and returns to its caller.                 *)
LEMMA PropagationPending ==
    ASSUME BaseInv, PendingInv, Propagation
    PROVE  PendingInv' /\ UNCHANGED <<added, assumptions, answer, model, conflict>>
<1>1. /\ pc = "propagate" /\ (pc' = pc \/ pc' = ret) /\ ret' = ret
      /\ answer' = answer /\ model' = model /\ conflict' = conflict
      /\ assumptions' = assumptions /\ added' = added
  BY DEF Propagation, NextFact, PropagateDone, BlockerTrue, FirstTrue, MoveWatch, Unit,
         Conflicting, Visiting, PropagateUnchanged, resultVars, searchVars, clientVars
<1>2. ret \in {"add", "search"}
  BY DEF BaseInv, FlowInv
<1>3. Busy' = Busy
  BY <1>1, <1>2 DEF Busy
<1>4. QED
  BY <1>1, <1>3 DEF PendingInv

(* The client adds a clause while nothing is asked.                        *)
LEMMA AddPending ==
    ASSUME PendingInv, AddFirst \/ AddLater
    PROVE  /\ PendingInv' /\ pc = "idle" /\ answer # "pending"
           /\ UNCHANGED <<assumptions, answer, model, conflict>>
<1>1. PICK C : add_clause(C)
  BY DEF AddFirst, AddLater
<1>2. pc = "idle"
  BY DEF AddFirst, AddLater
<1>3. UNCHANGED resultVars /\ UNCHANGED searchVars
  BY <1>1, Zenon DEF add_clause
<1>4. (pc' = pc /\ ret' = ret) \/ (pc' = "propagate" /\ ret' = "add")
  BY <1>1, Zenon DEF add_clause
<1>5. ~Busy /\ ~Busy'
  BY <1>2, <1>4 DEF Busy
<1>6. QED
  BY <1>2, <1>3, <1>5 DEF PendingInv, resultVars, searchVars

(* A question is asked.                                                    *)
LEMMA SolvePending ==
    ASSUME PendingInv, solve
    PROVE  /\ PendingInv' /\ answer # "pending" /\ answer' = "pending"
           /\ model' = {} /\ conflict' = {} /\ added' = added
           /\ assumptions' \in Questions
<1>1. pc = "idle" /\ added' = added
  BY DEF solve
<1>2. PICK as \in Questions : Ask(as)
  BY DEF solve
<1>3. /\ assumptions' = as /\ answer' = "pending" /\ model' = {} /\ conflict' = {}
      /\ ret' = "search" /\ pc' = (IF ok THEN "propagate" ELSE "refuse")
  BY <1>2, Zenon DEF Ask
<1>4. Busy' /\ ~Busy
  BY <1>1, <1>3 DEF Busy
<1>5. QED
  BY <1>1, <1>3, <1>4 DEF PendingInv

(* The steps of the search that give no answer.                            *)
LEMMA SearchPending ==
    ASSUME BaseInv, PendingInv,
           \/ AddPropagated \/ Learn \/ Restart \/ KeepAsItIs \/ simplify \/ Reduce
           \/ DummyLevel \/ Assume \/ pickBranchLit
    PROVE  PendingInv' /\ UNCHANGED <<added, assumptions, answer, model, conflict>>
<1>1. CASE AddPropagated
  <2>1. /\ pc = "add" /\ pc' = "idle" /\ assumptions' = assumptions
        /\ added' = added /\ UNCHANGED resultVars
    BY <1>1 DEF AddPropagated, clientVars, searchVars
  <2>2. ~Busy /\ ~Busy'
    BY <2>1 DEF Busy
  <2>3. QED
    BY <2>1, <2>2 DEF PendingInv, resultVars
<1>2. CASE Learn \/ Restart \/ KeepAsItIs \/ simplify \/ Reduce \/ DummyLevel \/ Assume \/ pickBranchLit
  <2>1. /\ pc \in {"search", "reduce", "decide"} /\ ret' = ret
        /\ pc' \in {"search", "reduce", "decide", "propagate"}
        /\ assumptions' = assumptions /\ added' = added /\ UNCHANGED resultVars
    BY <1>2 DEF Learn, Restart, KeepAsItIs, NoConflict, simplify, Reduce, DummyLevel, Assume,
                pickBranchLit, Pending, Branching, Decide, clientVars, searchVars
  <2>2. ret = "search"
    BY <2>1 DEF BaseInv, FlowInv
  <2>3. Busy /\ Busy'
    BY <2>1, <2>2 DEF Busy
  <2>4. QED
    BY <2>1, <2>3 DEF PendingInv, resultVars
<1>3. QED
  BY <1>1, <1>2

(* The steps that answer.                                                  *)
LEMMA AnswerPending ==
    ASSUME PendingInv, Refuse \/ ConflictAtRoot \/ AssumptionFails \/ ModelFound
    PROVE  /\ PendingInv' /\ answer = "pending" /\ model = {} /\ conflict = {}
           /\ UNCHANGED <<added, assumptions>>
<1>1. /\ pc \in {"search", "decide", "refuse"} /\ pc' = "idle" /\ answer' \in {"sat", "unsat"}
      /\ added' = added /\ assumptions' = assumptions
  BY DEF Refuse, ConflictAtRoot, AssumptionFails, ModelFound, Pending, Branching, Return,
         clientVars, searchVars
<1>2. Busy /\ ~Busy'
  BY <1>1 DEF Busy
<1>3. QED
  BY <1>1, <1>2 DEF PendingInv

(* In every state an answer is pending exactly while the solver works.     *)
LEMMA PendingStep ==
    ASSUME BaseInv, PendingInv, [Next]_vars
    PROVE  PendingInv'
<1>1. CASE UNCHANGED vars \/ Idle
  BY <1>1 DEF Idle, vars, resultVars, PendingInv, Busy
<1>2. QED
  BY <1>1, PropagationPending, AddPending, SolvePending, SearchPending, AnswerPending
  DEF Next, Client, Work, Search

-----------------------------------------------------------------------------
(* Where the k-th level of the trail t ends.                               *)
LevelEnd(t, lim, k) == IF k = Len(lim) THEN Len(t) ELSE lim[k + 1]

(* The assumption a is true when the k-th level ends: by the decision that *)
(* began the level, or from before, and then the level is empty.           *)
AssumedAt(t, lim, k, a) ==
    \E i \in 1 .. Len(t) :
        /\ t[i] = a /\ i <= LevelEnd(t, lim, k)
        /\ i = lim[k] + 1 \/ LevelEnd(t, lim, k) = lim[k]

(* The levels of the trail are those of the assumptions, one after the     *)
(* other, then those of decisions.                                         *)
Fulfilled(t, lim, want) == \A k \in 1 .. Len(lim) : k <= Len(want) => AssumedAt(t, lim, k, want[k])
AssumedInv == Fulfilled(trail, trail_lim, assumptions)

(* Without levels there is nothing to show.                                *)
LEMMA NoLevels ==
    ASSUME NEW t, NEW lim, Len(lim) = 0, NEW want
    PROVE  Fulfilled(t, lim, want)
  BY DEF Fulfilled

(* The last level is not empty.                                            *)
LastBegun(t, lim) == Len(lim) >= 1 => lim[Len(lim)] < Len(t)

(* One more assignment on the last level, which is not empty.              *)
LEMMA FulfilledLonger ==
    ASSUME NEW V, NEW t, NEW lim, TrailType(t, lim, V), NEW want, Fulfilled(t, lim, want),
           NEW s, Begins(t, s), Len(s) = Len(t) + 1,
           LastBegun(t, lim)
    PROVE  Fulfilled(s, lim, want)
<1>1. /\ Len(t) \in Nat /\ Len(lim) \in Nat
      /\ \A k \in 1 .. Len(lim) : lim[k] \in Nat
  BY TrailIs
<1>2. SUFFICES ASSUME NEW k \in 1 .. Len(lim), k <= Len(want)
               PROVE  AssumedAt(s, lim, k, want[k])
  BY DEF Fulfilled
<1>3. PICK i \in 1 .. Len(t) :
         /\ t[i] = want[k] /\ i <= LevelEnd(t, lim, k)
         /\ i = lim[k] + 1 \/ LevelEnd(t, lim, k) = lim[k]
  BY <1>2 DEF Fulfilled, AssumedAt
<1>8. Len(s) \in Nat /\ i \in Nat /\ 1 <= i /\ i <= Len(t) /\ s[i] = t[i]
  BY <1>1, <1>3 DEF Begins
<1>4. i \in 1 .. Len(s) /\ s[i] = want[k]
  <2>1. i <= Len(s)
    BY <1>1, <1>8
  <2>2. QED
    BY <1>3, <1>8, <2>1
<1>5. CASE k = Len(lim)
  <2>1. LevelEnd(t, lim, k) = Len(t) /\ LevelEnd(s, lim, k) = Len(s) /\ lim[k] < Len(t)
    BY <1>1, <1>5 DEF LevelEnd, LastBegun
  <2>2. i = lim[k] + 1 /\ i <= Len(s)
    BY <1>1, <1>3, <1>4, <2>1
  <2>3. QED
    BY <1>4, <2>1, <2>2 DEF AssumedAt
<1>6. CASE k # Len(lim)
  <2>1. LevelEnd(s, lim, k) = LevelEnd(t, lim, k)
    BY <1>6 DEF LevelEnd
  <2>2. QED
    BY <1>3, <1>4, <2>1 DEF AssumedAt
<1>7. QED
  BY <1>5, <1>6

(* The trail s that the level after t begins with: t, if the assumption is *)
(* true, or with one more assignment, the assumption if there is one left. *)
Deeper(t, lim, want, s) ==
    \/ s = t /\ \E i \in 1 .. Len(t) : t[i] = want[Len(lim) + 1]
    \/ Len(s) = Len(t) + 1 /\ s[Len(t) + 1] = want[Len(lim) + 1]
    \/ Len(s) \in Nat /\ Len(lim) >= Len(want)

(* One more level at the end of the trail, for an assumption that is true, *)
(* for one that is decided now, or for another decision.                   *)
LEMMA FulfilledDeeper ==
    ASSUME NEW V, NEW t, NEW lim, TrailType(t, lim, V), NEW want \in Seq(Lits(V)), Fulfilled(t, lim, want),
           NEW l, l = Append(lim, Len(t)), NEW s, Begins(t, s), Deeper(t, lim, want, s)
    PROVE  Fulfilled(s, l, want)
<1>7. Len(want) \in Nat
  OBVIOUS
<1>1. /\ Len(t) \in Nat /\ Len(lim) \in Nat /\ lim \in Seq(Nat) /\ Len(want) \in Nat
      /\ \A k \in 1 .. Len(lim) : lim[k] \in Nat
  BY <1>7, TrailIs
<1>8. Len(s) \in Nat
  BY <1>1 DEF Deeper
<1>2. Len(l) = Len(lim) + 1 /\ l[Len(lim) + 1] = Len(t) /\ \A k \in 1 .. Len(lim) : l[k] = lim[k]
  BY <1>1
<1>3. SUFFICES ASSUME NEW k \in 1 .. Len(l), k <= Len(want)
               PROVE  AssumedAt(s, l, k, want[k])
  BY DEF Fulfilled
<1>9. k \in Nat /\ 1 <= k /\ k <= Len(lim) + 1
  BY <1>1, <1>2
<1>4. CASE k <= Len(lim)
  <2>1. k \in 1 .. Len(lim) /\ l[k] = lim[k] /\ k # Len(l)
    BY <1>1, <1>2, <1>4
  <2>2. PICK i \in 1 .. Len(t) :
           /\ t[i] = want[k] /\ i <= LevelEnd(t, lim, k)
           /\ i = lim[k] + 1 \/ LevelEnd(t, lim, k) = lim[k]
    BY <1>3, <2>1 DEF Fulfilled, AssumedAt
  <2>3. LevelEnd(s, l, k) = LevelEnd(t, lim, k)
    <3>1. CASE k = Len(lim)
      BY <1>2, <2>1, <3>1 DEF LevelEnd
    <3>2. CASE k # Len(lim)
      <4>1. k + 1 \in 1 .. Len(lim)
        BY <1>1, <2>1, <3>2
      <4>2. QED
        BY <1>2, <2>1, <3>2, <4>1 DEF LevelEnd
    <3>3. QED
      BY <3>1, <3>2
  <2>4. i \in 1 .. Len(s) /\ s[i] = want[k]
    <3>1. i \in Nat /\ 1 <= i /\ i <= Len(t) /\ Len(t) <= Len(s) /\ s[i] = t[i]
      BY <1>1, <2>2 DEF Begins
    <3>2. i <= Len(s)
      BY <1>1, <1>8, <3>1
    <3>3. QED
      BY <1>8, <2>2, <3>1, <3>2
  <2>5. QED
    BY <2>1, <2>2, <2>3, <2>4 DEF AssumedAt
<1>5. CASE k = Len(lim) + 1
  <2>1. k = Len(l) /\ LevelEnd(s, l, k) = Len(s) /\ l[k] = Len(t)
    BY <1>2, <1>5 DEF LevelEnd
  <2>2. ~(Len(lim) >= Len(want))
    <3>1. Len(lim) + 1 <= Len(want)
      BY <1>3, <1>5
    <3>2. QED
      BY <1>1, <3>1
  <2>3. CASE s = t /\ \E i \in 1 .. Len(t) : t[i] = want[Len(lim) + 1]
    <3>1. PICK i \in 1 .. Len(t) : t[i] = want[k]
      BY <1>5, <2>3
    <3>2. i \in 1 .. Len(s) /\ s[i] = want[k] /\ i <= Len(s)
      BY <1>1, <2>3, <3>1
    <3>3. QED
      BY <2>1, <2>3, <3>2 DEF AssumedAt
  <2>4. CASE Len(s) = Len(t) + 1 /\ s[Len(t) + 1] = want[Len(lim) + 1]
    <3>1. /\ Len(t) + 1 \in 1 .. Len(s) /\ s[Len(t) + 1] = want[k]
          /\ Len(t) + 1 <= Len(s) /\ Len(t) + 1 = l[k] + 1
      BY <1>1, <1>5, <2>1, <2>4
    <3>2. QED
      BY <2>1, <3>1 DEF AssumedAt
  <2>5. QED
    BY <2>2, <2>3, <2>4 DEF Deeper
<1>6. QED
  <2>1. k <= Len(lim) \/ k = Len(lim) + 1
    BY <1>1, <1>9
  <2>2. QED
    BY <2>1, <1>4, <1>5

(* What is left of the levels when all but b are undone.                   *)
LEMMA FulfilledCut ==
    ASSUME NEW V, NEW t, NEW lim, TrailType(t, lim, V), NEW want, Fulfilled(t, lim, want),
           NEW b \in 0 .. Len(lim) - 1, NEW s, NEW k, TrailType(s, k, V),
           Begins(s, t), Begins(k, lim), Len(k) = b, Len(s) = lim[b + 1]
    PROVE  Fulfilled(s, k, want)
<1>1. /\ Len(t) \in Nat /\ Len(lim) \in Nat /\ Len(s) \in Nat
      /\ \A j \in 1 .. Len(lim) : lim[j] \in Nat
      /\ \A i, j \in 1 .. Len(lim) : i <= j => lim[i] <= lim[j]
  BY TrailIs
<1>2. SUFFICES ASSUME NEW j \in 1 .. Len(k), j <= Len(want)
               PROVE  AssumedAt(s, k, j, want[j])
  BY DEF Fulfilled
<1>3. j \in 1 .. Len(lim) /\ k[j] = lim[j] /\ j # Len(lim) /\ j <= b /\ j + 1 \in 1 .. Len(lim)
      /\ b + 1 \in 1 .. Len(lim)
  BY <1>1 DEF Begins
<1>4. PICK i \in 1 .. Len(t) :
         /\ t[i] = want[j] /\ i <= LevelEnd(t, lim, j)
         /\ i = lim[j] + 1 \/ LevelEnd(t, lim, j) = lim[j]
  BY <1>2, <1>3 DEF Fulfilled, AssumedAt
<1>5. LevelEnd(t, lim, j) = lim[j + 1] /\ LevelEnd(s, k, j) = lim[j + 1]
  <2>1. LevelEnd(t, lim, j) = lim[j + 1]
    BY <1>3 DEF LevelEnd
  <2>2. CASE j = Len(k)
    BY <2>2 DEF LevelEnd
  <2>3. CASE j # Len(k)
    <3>1. j + 1 \in 1 .. Len(k) /\ k[j + 1] = lim[j + 1]
      BY <1>1, <1>3, <2>3 DEF Begins
    <3>2. QED
      BY <2>3, <3>1 DEF LevelEnd
  <2>4. QED
    BY <2>1, <2>2, <2>3
<1>6. lim[j + 1] <= lim[b + 1] /\ lim[j + 1] \in Nat
  <2>1. j + 1 <= b + 1
    BY <1>1, <1>3
  <2>2. QED
    BY <1>1, <1>3, <2>1
<1>7. i \in 1 .. Len(s)
  BY <1>1, <1>4, <1>5, <1>6
<1>8. s[i] = want[j]
  BY <1>4, <1>7 DEF Begins
<1>9. QED
  BY <1>3, <1>4, <1>5, <1>7, <1>8 DEF AssumedAt

-----------------------------------------------------------------------------
(* One more assignment at the end.                                         *)
LEMMA AppendIs ==
    ASSUME NEW T, NEW t \in Seq(T), NEW p, NEW s, s = Append(t, p)
    PROVE  Begins(t, s) /\ Len(s) = Len(t) + 1 /\ s[Len(t) + 1] = p
<1>1. Begins(t, s)
  BY BeginsAppend
<1>2. Len(s) = Len(t) + 1 /\ s[Len(t) + 1] = p
  OBVIOUS
<1>3. QED
  BY <1>1, <1>2

(* A unit clause is found on the last level, which a fact has begun.       *)
LEMMA UnitAssumed ==
    ASSUME BaseInv, AssumedInv, Unit
    PROVE  AssumedInv'
<1>1. /\ Visiting /\ trail' = Append(trail, Turned[1])
      /\ trail_lim' = trail_lim /\ assumptions' = assumptions
  BY DEF Unit, Enqueue, PropagateUnchanged, searchVars
<1>2. TrailType(trail, trail_lim, AllVars) /\ WalkInv /\ qhead \in 0 .. Len(trail)
  BY DEF BaseInv, TrailOK, FlowInv
<1>3. /\ trail \in Seq(Lits(AllVars)) /\ Len(trail) \in Nat /\ Len(trail_lim) \in Nat
      /\ \A k \in 1 .. Len(trail_lim) : trail_lim[k] \in Nat
  BY <1>2, TrailIs
<1>4. wi # 0
  BY <1>1 DEF Visiting, AtListEnd
<1>5. \A k \in 1 .. Len(trail_lim) : trail_lim[k] < qhead
  BY <1>2, <1>4 DEF WalkInv
<1>6. LastBegun(trail, trail_lim)
  <2>1. SUFFICES ASSUME Len(trail_lim) >= 1 PROVE trail_lim[Len(trail_lim)] < Len(trail)
    BY DEF LastBegun
  <2>2. Len(trail_lim) \in 1 .. Len(trail_lim)
    BY <1>3, <2>1
  <2>3. QED
    BY <1>2, <1>3, <1>5, <2>2
<1>7. Begins(trail, trail') /\ Len(trail') = Len(trail) + 1
  BY <1>1, <1>3, AppendIs
<1>8. Fulfilled(trail', trail_lim, assumptions)
  BY <1>2, <1>6, <1>7, FulfilledLonger DEF AssumedInv
<1>9. QED
  BY <1>1, <1>8 DEF AssumedInv

(* A level more.                                                           *)
LEMMA LevelAssumed ==
    ASSUME BaseInv, AssumedInv, DummyLevel \/ Assume \/ pickBranchLit
    PROVE  AssumedInv'
<1>1. TrailType(trail, trail_lim, AllVars) /\ assumptions \in Seq(Lits(AllVars))
  BY DEF BaseInv, TrailOK, VarsInv
<1>2. trail \in Seq(Lits(AllVars)) /\ Len(trail) \in Nat
  BY <1>1, TrailIs
<1>3. trail_lim' = Append(trail_lim, Len(trail)) /\ assumptions' = assumptions
  BY Zenon DEF DummyLevel, Assume, pickBranchLit, Decide, searchVars
<1>4. Begins(trail, trail') /\ Deeper(trail, trail_lim, assumptions, trail')
  <2>1. CASE DummyLevel
    <3>1. trail' = trail /\ IsTrue(assumptions[Len(trail_lim) + 1])
      BY <2>1 DEF DummyLevel, Pending, Assumed, decisionLevel
    <3>2. \E i \in 1 .. Len(trail) : trail[i] = assumptions[Len(trail_lim) + 1]
      BY <1>1, <3>1, TrailIs DEF IsTrue
    <3>3. Begins(trail, trail')
      BY <1>2, <3>1 DEF Begins
    <3>4. QED
      BY <3>1, <3>2, <3>3 DEF Deeper
  <2>2. CASE Assume
    <3>1. trail' = Append(trail, assumptions[Len(trail_lim) + 1])
      BY <2>2, Zenon DEF Assume, Assumed, Decide, Enqueue, decisionLevel
    <3>2. PICK a : a = assumptions[Len(trail_lim) + 1]
      OBVIOUS
    <3>3. trail' = Append(trail, a)
      BY <3>1, <3>2
    <3>4. PICK s : s = trail'
      OBVIOUS
    <3>5. Begins(trail, s) /\ Len(s) = Len(trail) + 1 /\ s[Len(trail) + 1] = a
      BY <1>2, <3>3, <3>4, AppendIs
    <3>6. QED
      BY <3>2, <3>4, <3>5 DEF Deeper
  <2>3. CASE pickBranchLit
    <3>1. PICK p : trail' = Append(trail, p)
      BY <2>3, Zenon DEF pickBranchLit, Decide, Enqueue
    <3>2. Begins(trail, trail') /\ Len(trail') = Len(trail) + 1
      BY <1>2, <3>1, AppendIs
    <3>3. Len(trail_lim) >= Len(assumptions)
      BY <2>3 DEF pickBranchLit, Branching, decisionLevel
    <3>4. Len(trail') \in Nat
      BY <1>2, <3>2
    <3>5. QED
      BY <3>2, <3>3, <3>4 DEF Deeper
  <2>4. QED
    BY <2>1, <2>2, <2>3
<1>5. PICK l : l = Append(trail_lim, Len(trail))
  OBVIOUS
<1>6. Fulfilled(trail', l, assumptions)
  BY <1>1, <1>4, <1>5, FulfilledDeeper DEF AssumedInv
<1>7. QED
  BY <1>3, <1>5, <1>6 DEF AssumedInv

(* A learnt clause: the search goes back to the level of the second of its *)
(* literals, and that one is assigned there.                               *)
LEMMA LearnAssumed ==
    ASSUME BaseInv, AssumedInv, Learn
    PROVE  AssumedInv'
<1> DEFINE V == AllVars
<1>1. PICK c \in Learnable : LearnStep(c, newClause(db, c, TRUE))
  BY DEF Learn, LearnStep
<1>2. /\ pc = "search" /\ confl # CRef_Undef /\ decisionLevel > 0
      /\ assumptions' = assumptions
  BY DEF Learn
<1>3. /\ ConflInv /\ DbInv(db, V) /\ DbType(db, V) /\ TrailOK /\ FlowInv
      /\ TrailType(trail, trail_lim, V) /\ ReasonInv(db, trail)
      /\ DecisionInv(db, trail, trail_lim) /\ V \in SUBSET Nat
  BY DEF BaseInv, VarsInv, TrailOK, DbInv
<1>4. CanAnalyze(V)
  <2>1. Len(trail_lim) \in Nat /\ Len(trail_lim) > 0
    BY <1>2, <1>3, TrailIs DEF decisionLevel
  <2>2. QED
    BY <1>2, <1>3, <2>1 DEF CanAnalyze, ConflInv
<1> DEFINE b == btlevel(c)
           s == KeptTrail(b)
           k == KeptLevels(b)
<1> HIDE DEF V
<1>5. Learned(V, c, b)
  BY <1>4, LearnableIs
<1>6. cancelUntil(b, <<c[1]>>, order_heap)
  BY <1>1 DEF LearnStep
<1>7. trail' = s \o <<c[1]>> /\ trail_lim' = k
  BY <1>6, Zenon DEF cancelUntil, KeptLevels
<1> HIDE DEF b, s, k
<1>8. b \in 0 .. Len(trail_lim) - 1 /\ b \in 0 .. Len(trail_lim) /\ Len(trail_lim) \in Nat
      /\ c[1] \in Lits(V)
  BY <1>3, <1>5, TrailIs DEF Learned
<1>9. Undone(b, s, k)
  BY <1>3, <1>8, UndoneIs DEF s, k
<1>10. /\ TrailType(s, k, V) /\ Begins(s, trail) /\ Begins(k, trail_lim)
       /\ Len(k) = b /\ Len(s) = trail_lim[b + 1]
  <2>1. Len(trail_lim) > b
    BY <1>8
  <2>2. QED
    BY <1>9, <2>1 DEF Undone, V
<1>11. Fulfilled(s, k, assumptions)
  BY <1>3, <1>8, <1>10, FulfilledCut DEF AssumedInv
<1>12. /\ s \in Seq(Lits(V)) /\ Len(s) \in Nat
       /\ \A j \in 1 .. Len(k) : k[j] \in Nat
  BY <1>10, TrailIs
<1>13. trail' = Append(s, c[1])
  <2>1. s \o <<c[1]>> = Append(s, c[1])
    BY <1>8, <1>12, AppendIsConcat
  <2>2. QED
    BY <1>7, <2>1
<1>14. LastBegun(s, k)
  <2>1. SUFFICES ASSUME b >= 1 PROVE k[b] < Len(s)
    BY <1>10 DEF LastBegun
  <2>2. Len(c) # 1
    BY <1>5, <2>1 DEF Learned
  <2>3. PICK j \in 1 .. trail_lim[b + 1] : \A l \in 1 .. b : trail_lim[l] < j
    BY <1>5, <2>2 DEF Learned
  <2>4. b \in 1 .. b /\ b \in 1 .. Len(k) /\ k[b] = trail_lim[b]
    BY <1>8, <1>10, <2>1 DEF Begins
  <2>5. k[b] < j /\ j <= Len(s) /\ j \in Nat /\ k[b] \in Nat
    BY <1>10, <1>12, <2>3, <2>4
  <2>6. QED
    BY <1>12, <2>5
<1>15. Begins(s, trail') /\ Len(trail') = Len(s) + 1
  BY <1>12, <1>13, AppendIs
<1>16. Fulfilled(trail', k, assumptions)
  BY <1>10, <1>11, <1>14, <1>15, FulfilledLonger
<1>17. QED
  BY <1>2, <1>7, <1>16 DEF AssumedInv

(* Back to the root level, for a restart or after the answer.              *)
LEMMA RewindAssumed ==
    ASSUME BaseInv, NEW new, NEW heap, cancelUntil(0, new, heap)
    PROVE  AssumedInv'
<1>1. TrailOK /\ TrailType(trail, trail_lim, AllVars)
  BY DEF BaseInv, TrailOK
<1>2. 0 \in 0 .. Len(trail_lim) /\ Len(trail_lim) \in Nat
  BY <1>1, TrailIs
<1>3. PICK k : k = KeptLevels(0)
  OBVIOUS
<1>4. PICK s : s = KeptTrail(0)
  OBVIOUS
<1>5. Undone(0, s, k)
  BY <1>1, <1>2, <1>3, <1>4, UndoneIs
<1>6. trail_lim' = k
  BY <1>3, Zenon DEF cancelUntil, KeptLevels
<1>7. Len(trail_lim') = 0
  BY <1>5, <1>6 DEF Undone
<1>8. QED
  BY <1>7, NoLevels DEF AssumedInv

(* A clause is added, or a question asked, on the root level.              *)
LEMMA ClientAssumed ==
    ASSUME BaseInv, AddFirst \/ AddLater \/ solve
    PROVE  AssumedInv'
<1>1. pc = "idle"
  BY DEF AddFirst, AddLater, solve
<1>2. Len(trail_lim) = 0
  BY <1>1 DEF BaseInv, FlowInv
<1>3. trail_lim' = trail_lim
  <2>1. CASE solve
    BY <2>1, Zenon DEF solve, Ask, trailVars
  <2>2. CASE AddFirst \/ AddLater
    BY <2>2, Zenon DEF AddFirst, AddLater, add_clause
  <2>3. QED
    BY <2>1, <2>2
<1>4. QED
  BY <1>2, <1>3, NoLevels DEF AssumedInv

(* In every state the first levels are those of the assumptions.           *)
LEMMA AssumedStep ==
    ASSUME BaseInv, AssumedInv, [Next]_vars
    PROVE  AssumedInv'
<1>1. CASE NextFact \/ PropagateDone \/ BlockerTrue \/ FirstTrue \/ MoveWatch \/ Conflicting
  BY <1>1 DEF NextFact, PropagateDone, BlockerTrue, FirstTrue, MoveWatch, Conflicting,
              PropagateUnchanged, searchVars, AssumedInv
<1>2. CASE AddPropagated \/ KeepAsItIs \/ simplify \/ Reduce
  BY <1>2 DEF AddPropagated, KeepAsItIs, simplify, Reduce, trailVars, searchVars, AssumedInv
<1>3. CASE UNCHANGED vars \/ Idle
  BY <1>3 DEF Idle, vars, trailVars, searchVars, AssumedInv
<1>4. CASE Restart \/ Refuse \/ ConflictAtRoot \/ AssumptionFails \/ ModelFound
  <2>1. \E new, heap : cancelUntil(0, new, heap)
    BY <1>4, Zenon DEF Restart, Refuse, ConflictAtRoot, AssumptionFails, ModelFound, Return
  <2>2. QED
    BY <2>1, RewindAssumed
<1>5. QED
  BY <1>1, <1>2, <1>3, <1>4, UnitAssumed, LevelAssumed, LearnAssumed, ClientAssumed
  DEF Next, Client, Work, Propagation, Search

-----------------------------------------------------------------------------
(* What it takes to be a total assignment of V.                            *)
LEMMA TotalFrom ==
    ASSUME NEW V \in SUBSET Nat, NEW m \in SUBSET Nat,
           \A p \in m : var(p) \in V /\ neg(p) \notin m,
           \A p \in Nat : var(p) \in V => p \in m \/ neg(p) \in m
    PROVE  m \in TotalOver(V)
<1> DEFINE T == {v \in V : mkLit(v, FALSE) \in m}
<1>1. \A v \in V : /\ mkLit(v, FALSE) \in Nat /\ var(mkLit(v, FALSE)) = v
                   /\ neg(mkLit(v, FALSE)) = mkLit(v, TRUE)
                   /\ neg(mkLit(v, TRUE)) = mkLit(v, FALSE)
  BY LiteralOf DEF Literal
<1>2. ASSUME NEW v \in V PROVE mkLit(v, v \notin T) \in m
  <2>1. CASE v \in T
    <3>1. (v \notin T) = FALSE
      BY <2>1
    <3>2. QED
      BY <2>1, <3>1
  <2>2. CASE v \notin T
    <3>1. (v \notin T) = TRUE
      BY <2>2
    <3>2. mkLit(v, TRUE) \in m
      BY <1>1, <2>2
    <3>3. QED
      BY <3>1, <3>2
  <2>3. QED
    BY <2>1, <2>2
<1>3. ASSUME NEW p \in m PROVE \E v \in V : p = mkLit(v, v \notin T)
  <2>1. var(p) \in V /\ (p = mkLit(var(p), FALSE) \/ p = mkLit(var(p), TRUE))
    BY DEF mkLit, var
  <2>2. PICK v \in V : p = mkLit(v, FALSE) \/ p = mkLit(v, TRUE)
    BY <2>1
  <2>3. CASE p = mkLit(v, FALSE)
    <3>1. (v \notin T) = FALSE
      BY <2>3
    <3>2. QED
      BY <2>3, <3>1
  <2>4. CASE p = mkLit(v, TRUE)
    <3>1. v \notin T
      BY <1>1, <2>4
    <3>2. (v \notin T) = TRUE
      BY <3>1
    <3>3. QED
      BY <2>4, <3>2
  <2>5. QED
    BY <2>2, <2>3, <2>4
<1>4. m = {mkLit(v, v \notin T) : v \in V}
  BY <1>2, <1>3
<1>5. T \in SUBSET V
  OBVIOUS
<1>6. QED
  BY <1>4, <1>5 DEF TotalOver

(* The part of a total assignment that is about the variables V.           *)
Restricted(m, V) == {p \in m : var(p) \in V}

(* It is a total assignment of V, and clauses over V do not tell the       *)
(* difference.                                                             *)
LEMMA RestrictedIs ==
    ASSUME NEW V \in SUBSET Nat, NEW m, Total(m), NEW F,
           \A C \in F : \A p \in C : p \in Nat /\ var(p) \in V
    PROVE  /\ Restricted(m, V) \in TotalOver(V)
           /\ Satisfies(Restricted(m, V), F) <=> Satisfies(m, F)
<1> DEFINE R == Restricted(m, V)
<1>1. m \in SUBSET Nat /\ \A p \in Nat : p \in m <=> neg(p) \notin m
  BY DEF Total
<1>2. \A p : p \in R <=> p \in m /\ var(p) \in V
  BY DEF Restricted
<1> HIDE DEF R
<1>3. \A p \in Nat : neg(p) \in Nat /\ var(neg(p)) = var(p)
  BY Negation DEF Literal
<1>4. R \in SUBSET Nat /\ \A p \in R : var(p) \in V /\ neg(p) \notin R
  BY <1>1, <1>2
<1>5. \A p \in Nat : var(p) \in V => p \in R \/ neg(p) \in R
  BY <1>1, <1>2, <1>3
<1>6. R \in TotalOver(V)
  BY <1>4, <1>5, TotalFrom
<1>7. \A C \in F : C \cap R # {} <=> C \cap m # {}
  BY <1>2
<1>8. QED
  BY <1>6, <1>7 DEF Satisfies, R

(* The trail, and every variable that it does not have set to true.        *)
Completed == Extended(ToSet(trail), assigned)

(* It is total.                                                            *)
LEMMA CompletedIs ==
    ASSUME NEW V \in SUBSET Nat, TrailType(trail, trail_lim, V)
    PROVE  Total(Completed) /\ ToSet(trail) \subseteq Completed
<1>1. /\ \A i \in 1 .. Len(trail) : trail[i] \in Lits(V)
      /\ \A p : p \in ToSet(trail) <=> \E i \in 1 .. Len(trail) : trail[i] = p
  BY TrailIs
<1>2. ToSet(trail) \in SUBSET Nat /\ \A p \in ToSet(trail) : var(p) \in Nat
  <2>1. \A p \in Lits(V) : p \in Nat /\ var(p) \in V
    BY LitsAre
  <2>2. QED
    BY <1>1, <2>1
<1>3. assigned \in SUBSET Nat /\ \A p \in ToSet(trail) : var(p) \in assigned
  BY <1>2 DEF assigned, VarsOf
<1>4. \A p \in ToSet(trail) : neg(p) \notin ToSet(trail)
  BY NotBoth DEF IsTrue, IsFalse
<1>5. ASSUME NEW p \in Nat, var(p) \in assigned PROVE p \in ToSet(trail) \/ neg(p) \in ToSet(trail)
  <2>1. PICK q \in ToSet(trail) : var(q) = var(p)
    BY <1>5 DEF assigned, VarsOf
  <2>2. q = p \/ q = neg(p)
    BY <1>2, <2>1, TwoLiterals DEF Literal
  <2>3. QED
    BY <2>1, <2>2
<1>6. ToSet(trail) \in TotalOver(assigned)
  BY <1>2, <1>3, <1>4, <1>5, TotalFrom
<1>7. Total(Completed)
  BY <1>3, <1>6, ExtendedIs DEF Completed
<1>8. QED
  BY <1>7 DEF Completed, Extended

-----------------------------------------------------------------------------
(* The problem's variables are assigned when no variable is left to pick.  *)
LEMMA AllAssigned ==
    ASSUME BaseInv, MentionedInv, Candidates = {}
    PROVE  ProblemVariables \subseteq assigned
<1>1. \A v \in ProblemVariables : v \in AllVars /\ decision[v]
  BY DEF MentionedInv
<1>2. \A v \in AllVars : decision[v] => v \in assigned \/ v \in order_heap
  BY DEF BaseInv, VarsInv
<1>3. QED
  BY <1>1, <1>2 DEF Candidates

(* Then every clause of the client is true, though the labels of blocking  *)
(* clauses may be unassigned: one unassigned literal would be propagated.  *)
LEMMA ClausesAreTrue ==
    ASSUME OracleAssumption, BaseInv, PropagatedInv, MentionedInv, OriginInv,
           pc = "decide", Candidates = {}, NEW cr \in db.clauses
    PROVE  satisfied(db, cr)
<1> SUFFICES ASSUME ~satisfied(db, cr) PROVE FALSE
  OBVIOUS
<1> DEFINE U == {p \in ToSet(lits(db, cr)) : IsUndef(p)}
<1>1. cr \in live(db) /\ AllVars \in SUBSET Nat /\ TrailType(trail, trail_lim, AllVars)
  BY DEF BaseInv, VarsInv, DbInv, DbType, TrailOK
<1>2. Cardinality(U) >= 2
  BY <1>1, NothingIsMissed DEF PropagationIsComplete
<1>3. PICK C \in added : ToSet(lits(db, cr)) \subseteq C
  BY DEF OriginInv
<1>4. C \in EveryClause /\ \A p \in C : p \in Nat
  BY DEF MentionedInv, BaseInv, ClientInv, IsClause
<1>5. ASSUME NEW p \in U PROVE p \in C /\ var(p) \notin ProblemVariables
  <2>1. p \in C /\ p \in Nat /\ p \notin ToSet(trail) /\ neg(p) \notin ToSet(trail)
    BY <1>3, <1>4 DEF IsUndef, IsTrue, IsFalse
  <2>2. \A q \in ToSet(trail) : q \in Nat
    BY <1>1, TrailIs, LitsAre
  <2>3. \A q \in ToSet(trail) : var(q) # var(p)
    BY <2>1, <2>2, TwoLiterals DEF Literal
  <2>4. var(p) \notin assigned
    BY <2>3 DEF assigned, VarsOf
  <2>5. QED
    BY <2>1, <2>4, AllAssigned
<1>6. \A p, q \in U : p = q
  BY <1>4, <1>5, OracleAssumption
<1> HIDE DEF U
<1>7. U = {} \/ \E x : U = {x}
  BY <1>6
<1>8. CASE U = {}
  BY <1>2, <1>8, FS_EmptySet
<1>9. ASSUME NEW x, U = {x} PROVE FALSE
  <2>1. Cardinality({x}) = 1
    BY FS_Singleton
  <2>2. Cardinality(U) = 1
    BY <1>9, <2>1
  <2>3. QED
    BY <1>2, <2>2
<1>10. QED
  BY <1>7, <1>8, <1>9

(* What the solver has is a model of all that was added.                   *)
LEMMA CompletedSatisfies ==
    ASSUME OracleAssumption, BaseInv, MeaningInv, PropagatedInv, MentionedInv, OriginInv,
           pc = "decide", Candidates = {}
    PROVE  Satisfies(Completed, added)
<1>1. AllVars \in SUBSET Nat /\ TrailType(trail, trail_lim, AllVars) /\ ok
  BY DEF BaseInv, VarsInv, TrailOK, FlowInv
<1>2. Total(Completed) /\ ToSet(trail) \subseteq Completed
  BY <1>1, CompletedIs
<1>3. HoldIn(Completed, db, db.clauses)
  BY <1>2, ClausesAreTrue DEF HoldIn, satisfied, IsTrue
<1>4. RootsIn(Completed, trail, trail_lim)
  <2>1. SUFFICES ASSUME NEW i \in 1 .. RootLen(trail, trail_lim) PROVE trail[i] \in Completed
    BY DEF RootsIn
  <2>2. /\ Len(trail) \in Nat /\ Len(trail_lim) \in Nat
        /\ \A k \in 1 .. Len(trail_lim) : trail_lim[k] \in Nat /\ trail_lim[k] <= Len(trail)
        /\ \A p : p \in ToSet(trail) <=> \E j \in 1 .. Len(trail) : trail[j] = p
    BY <1>1, TrailIs
  <2>3. RootLen(trail, trail_lim) \in Nat /\ RootLen(trail, trail_lim) <= Len(trail)
    <3>1. CASE Len(trail_lim) = 0
      BY <2>2, <3>1 DEF RootLen
    <3>2. CASE Len(trail_lim) # 0
      <4>1. 1 \in 1 .. Len(trail_lim)
        BY <2>2, <3>2
      <4>2. QED
        BY <2>2, <3>2, <4>1 DEF RootLen
    <3>3. QED
      BY <3>1, <3>2
  <2>4. i \in 1 .. Len(trail)
    BY <2>2, <2>3
  <2>5. QED
    BY <1>2, <2>2, <2>4
<1>5. Facts(Completed)
  BY <1>3, <1>4 DEF Facts
<1>6. QED
  BY <1>1, <1>2, <1>5, MeaningIs

(* It makes the assumptions true: the first levels are theirs.             *)
LEMMA AssumptionsAreTrue ==
    ASSUME BaseInv, AssumedInv, Branching
    PROVE  ToSet(assumptions) \subseteq ToSet(trail)
<1>1. /\ assumptions \in Seq(Lits(AllVars)) /\ TrailType(trail, trail_lim, AllVars)
      /\ Len(trail_lim) >= Len(assumptions)
  BY DEF BaseInv, VarsInv, TrailOK, Branching, decisionLevel
<1>2. Len(assumptions) \in Nat /\ Len(trail_lim) \in Nat
  BY <1>1, TrailIs
<1>3. \A x : x \in ToSet(assumptions) <=> \E k \in 1 .. Len(assumptions) : assumptions[k] = x
  BY <1>1, ToSetIs
<1>4. ASSUME NEW k \in 1 .. Len(assumptions) PROVE assumptions[k] \in ToSet(trail)
  <2>1. k \in 1 .. Len(trail_lim) /\ k <= Len(assumptions)
    BY <1>1, <1>2
  <2>2. \E i \in 1 .. Len(trail) : trail[i] = assumptions[k]
    BY <2>1 DEF AssumedInv, Fulfilled, AssumedAt
  <2>3. QED
    BY <1>1, <2>2, TrailIs
<1>5. QED
  BY <1>3, <1>4

(* The oracle's literals are those of the solver.                          *)
LEMMA OracleIs ==
    ASSUME NEW F, NEW V, NEW P
    PROVE  /\ Oracle!ModelsOf(F, V) = ModelsOf(F, V)
           /\ Oracle!Units(P) = Units(P)
           /\ Oracle!VarsOf(P) = VarsOf(P)
           /\ Oracle!NegAll(P) = NegAll(P)
<1>1. Oracle!TotalOver(V) = TotalOver(V)
  BY DEF Oracle!TotalOver, TotalOver, Oracle!mkLit, mkLit
<1>2. \A m : Oracle!Satisfies(m, F) <=> Satisfies(m, F)
  BY DEF Oracle!Satisfies, Satisfies
<1>3. Oracle!ModelsOf(F, V) = ModelsOf(F, V)
  BY <1>1, <1>2 DEF Oracle!ModelsOf, ModelsOf
<1>4. Oracle!Units(P) = Units(P)
  BY DEF Oracle!Units, Units
<1>5. Oracle!VarsOf(P) = VarsOf(P)
  BY DEF Oracle!VarsOf, VarsOf, Oracle!var, var
<1>6. Oracle!NegAll(P) = NegAll(P)
  BY DEF Oracle!NegAll, NegAll, Oracle!neg, neg, Oracle!sign, sign
<1>7. QED
  BY <1>3, <1>4, <1>5, <1>6

(* The answer "sat" is right, and its model is complete.                   *)
LEMMA SatIsRight ==
    ASSUME SolverAssumption, OracleAssumption, BaseInv, MeaningInv, PropagatedInv, MentionedInv,
           OriginInv, PendingInv, AssumedInv, ModelFound
    PROVE  Oracle!AnswerSat
<1>1. /\ Branching /\ Candidates = {} /\ pc = "decide" /\ answer' = "sat"
      /\ model' = ToSet(trail) /\ conflict' = {}
  BY DEF ModelFound, Return, Branching
<1>2. answer = "pending" /\ conflict = {} /\ added' = added /\ assumptions' = assumptions
  BY AnswerPending
<1>3. Mentionable
  BY MentionableIs
<1> DEFINE W == OracleVars
           F == added \cup Units(ToSet(assumptions))
           R == Restricted(Completed, W)
<1>4. /\ AllVars \in SUBSET Nat /\ TrailType(trail, trail_lim, AllVars)
      /\ W \in SUBSET Nat /\ AllVars \subseteq W /\ assumptions \in Seq(Lits(AllVars))
  BY <1>3 DEF BaseInv, VarsInv, TrailOK, Mentionable, MentionedInv
<1>5. Total(Completed) /\ ToSet(trail) \subseteq Completed
  BY <1>4, CompletedIs
<1>6. \A p \in ToSet(assumptions) : p \in Nat /\ var(p) \in W
  BY <1>4, ToSetIs, LitsAre
<1>7. \A C \in F : \A p \in C : p \in Nat /\ var(p) \in W
  <2>1. \A C \in added : \A p \in C : p \in Nat /\ var(p) \in W
    BY <1>4 DEF BaseInv, ClientInv, IsClause
  <2>2. QED
    BY <1>6, <2>1 DEF Units
<1>8. Satisfies(Completed, F)
  <2>1. Satisfies(Completed, added)
    BY <1>1, CompletedSatisfies
  <2>2. ToSet(assumptions) \subseteq Completed
    BY <1>1, <1>5, AssumptionsAreTrue
  <2>3. QED
    BY <2>1, <2>2 DEF Satisfies, Units
<1>9. ToSet(trail) \subseteq R
  <2>1. \A p \in ToSet(trail) : p \in Nat /\ var(p) \in AllVars
    BY <1>4, TrailIs, LitsAre
  <2>2. QED
    BY <1>4, <1>5, <2>1 DEF Restricted
<1> HIDE DEF F, W, R
<1>10. R \in TotalOver(W) /\ Satisfies(R, F)
  BY <1>4, <1>5, <1>7, <1>8, RestrictedIs DEF R
<1>11. R \in ModelsOf(F, W)
  BY <1>10 DEF ModelsOf
<1>12. \E m \in ModelsOf(added \cup Units(ToSet(assumptions)), OracleVars) : model' \in SUBSET m
  BY <1>1, <1>9, <1>11 DEF F, W
<1>13. ProblemVariables \subseteq VarsOf(model')
  BY <1>1, AllAssigned DEF assigned
<1>14. QED
  <2>1. \E m \in Oracle!ModelsOf(added \cup Oracle!Units(ToSet(assumptions)), OracleVars) :
           model' \in SUBSET m
    BY <1>12, OracleIs
  <2>2. ProblemVariables \subseteq Oracle!VarsOf(model')
    BY <1>13, OracleIs
  <2>3. UNCHANGED <<added, ToSet(assumptions), conflict>>
    BY <1>1, <1>2
  <2>4. QED
    BY <1>1, <1>2, <2>1, <2>2, <2>3, Zenon DEF Oracle!AnswerSat

-----------------------------------------------------------------------------
(* One step of the walk of analyzeFinal(), at the position i.              *)
FinalStep(i, S) ==
    LET v == var(trail[i])
    IN  IF v \in S /\ db.reason[v] # CRef_Undef THEN S \cup VarsOf(Antecedents(v)) ELSE S

(* f has what analyzeFinal has seen from the end of the trail down to i.   *)
FinalFrom(f, i, p) ==
    /\ f = [j \in i .. Len(trail) |-> f[j]]
    /\ f[Len(trail)] = {var(p)}
    /\ \A j \in i .. Len(trail) - 1 : f[j] = FinalStep(j + 1, f[j + 1])

(* The function that analyzeFinal is written with.                         *)
FinalWalk(f, a, p) ==
    [i \in a .. Len(trail) |-> IF i = Len(trail) THEN {var(p)} ELSE FinalStep(i + 1, f[i + 1])]

(* There is one such function.                                             *)
LEMMA FinalExists ==
    ASSUME NEW p, Len(trail) \in Nat, NEW a \in 0 .. Len(trail)
    PROVE  \E f : FinalFrom(f, a, p)
<1> DEFINE n == Len(trail)
           G == {i \in 0 .. n : i < a \/ \E f : FinalFrom(f, i, p)}
<1>1. n \in G
  <2> DEFINE f == [i \in n .. n |-> {var(p)}]
  <2>1. FinalFrom(f, n, p)
    BY DEF FinalFrom
  <2> HIDE DEF f
  <2>2. QED
    BY <2>1
<1>2. ASSUME NEW i \in 0 .. n - 1, i + 1 \in G PROVE i \in G
  <2>1. SUFFICES ASSUME ~(i < a) PROVE \E f : FinalFrom(f, i, p)
    OBVIOUS
  <2>2. PICK f : FinalFrom(f, i + 1, p)
    BY <1>2, <2>1
  <2> DEFINE e == FinalStep(i + 1, f[i + 1])
             h == [j \in i .. n |-> IF j = i THEN e ELSE f[j]]
  <2> HIDE DEF e
  <2>8. h = [j \in i .. n |-> h[j]]
    OBVIOUS
  <2>3. h[i] = e /\ \A j \in i + 1 .. n : h[j] = f[j]
    OBVIOUS
  <2>9. f[n] = {var(p)} /\ \A j \in i + 1 .. n - 1 : f[j] = FinalStep(j + 1, f[j + 1])
    BY <2>2, Zenon DEF FinalFrom
  <2> HIDE DEF h
  <2>4. h[n] = {var(p)}
    BY <2>3, <2>9
  <2>5. ASSUME NEW j \in i .. n - 1 PROVE h[j] = FinalStep(j + 1, h[j + 1])
    <3>1. j + 1 \in i + 1 .. n /\ h[j + 1] = f[j + 1]
      BY <2>3
    <3>2. CASE j = i
      BY <2>3, <3>1, <3>2 DEF e
    <3>3. CASE j # i
      <4>1. j \in i + 1 .. n - 1 /\ j \in i + 1 .. n
        BY <3>3
      <4>2. f[j] = FinalStep(j + 1, f[j + 1]) /\ h[j] = f[j]
        BY <2>3, <2>9, <4>1
      <4>3. QED
        BY <3>1, <4>2
    <3>4. QED
      BY <3>2, <3>3
  <2>6. FinalFrom(h, i, p)
    BY <2>4, <2>5, <2>8, Zenon DEF FinalFrom
  <2>7. QED
    BY <2>6
<1> HIDE DEF G
<1>3. a \in G
  BY <1>1, <1>2, Descent
<1>4. QED
  BY <1>3 DEF G

(* ... and analyzeFinal uses it.                                           *)
LEMMA FinalIs ==
    ASSUME NEW p, Len(trail) \in Nat, NEW a \in 0 .. Len(trail)
    PROVE  FinalFrom(CHOOSE f : f = FinalWalk(f, a, p), a, p)
<1> DEFINE n == Len(trail)
           s == CHOOSE f : f = FinalWalk(f, a, p)
<1>1. PICK f : FinalFrom(f, a, p)
  BY FinalExists
<1>2. f = FinalWalk(f, a, p)
  <2>4. f[n] = {var(p)} /\ \A j \in a .. n - 1 : f[j] = FinalStep(j + 1, f[j + 1])
    BY <1>1, Zenon DEF FinalFrom
  <2>1. ASSUME NEW i \in a .. n
        PROVE  f[i] = IF i = n THEN {var(p)} ELSE FinalStep(i + 1, f[i + 1])
    <3>1. CASE i = n
      BY <2>4, <3>1
    <3>2. CASE i # n
      <4>1. i \in a .. n - 1
        BY <3>2
      <4>2. f[i] = FinalStep(i + 1, f[i + 1])
        BY <2>4, <4>1
      <4>3. QED
        BY <3>2, <4>2, Zenon
    <3>3. QED
      BY <3>1, <3>2
  <2>2. [i \in a .. n |-> f[i]] = FinalWalk(f, a, p)
    BY <2>1 DEF FinalWalk
  <2>3. QED
    BY <1>1, <2>2, Zenon DEF FinalFrom
<1>3. s = FinalWalk(s, a, p)
  BY <1>2, Zenon
<1> HIDE DEF s
<1>4. s = [i \in a .. n |-> IF i = n THEN {var(p)} ELSE FinalStep(i + 1, s[i + 1])]
  BY <1>3 DEF FinalWalk
<1>5. \A i \in a .. n : s[i] = IF i = n THEN {var(p)} ELSE FinalStep(i + 1, s[i + 1])
  BY <1>4
<1>6. s = [i \in a .. n |-> s[i]]
  BY <1>4
<1>7. n \in a .. n /\ \A j \in a .. n - 1 : j \in a .. n /\ j # n
  OBVIOUS
<1>8. s[n] = {var(p)}
  BY <1>5, <1>7
<1>9. \A j \in a .. n - 1 : s[j] = FinalStep(j + 1, s[j + 1])
  BY <1>5, <1>7
<1>10. QED
  BY <1>6, <1>8, <1>9 DEF FinalFrom, s

-----------------------------------------------------------------------------
(* What analyzeFinal relies on.                                            *)
CanExplain(V) ==
    /\ V \in SUBSET Nat
    /\ DbType(db, V)
    /\ TrailType(trail, trail_lim, V)
    /\ ReasonInv(db, trail)
    /\ DecisionInv(db, trail, trail_lim)
    /\ Len(trail_lim) >= 1

(* S has the antecedents of its variables that are assigned behind the     *)
(* position i.                                                             *)
Closed(S, i) ==
    \A j \in i + 1 .. Len(trail) :
        var(trail[j]) \in S /\ db.reason[var(trail[j])] # CRef_Undef =>
            VarsOf(Antecedents(var(trail[j]))) \subseteq S

(* An antecedent is assigned before.                                       *)
LEMMA AntecedentsBefore ==
    ASSUME NEW V, CanExplain(V), NEW i \in 1 .. Len(trail), db.reason[var(trail[i])] # CRef_Undef,
           NEW u \in VarsOf(Antecedents(var(trail[i])))
    PROVE  \E j \in 1 .. i - 1 : var(trail[j]) = u
<1>1. ReasonOf(i, db.reason[var(trail[i])])
  BY ReasonIsOne DEF CanExplain
<1>2. PICK q \in Antecedents(var(trail[i])) : u = var(q)
  BY DEF VarsOf
<1>3. q \in Nat /\ \E j \in 1 .. i - 1 : trail[j] = neg(q)
  BY <1>1, <1>2 DEF ReasonOf
<1>4. QED
  BY <1>2, <1>3, Negation DEF Literal

(* A step of the walk closes S at one more position.                       *)
LEMMA FinalStepCloses ==
    ASSUME NEW V, CanExplain(V), NEW i \in 1 .. Len(trail), NEW S, Closed(S, i)
    PROVE  S \subseteq FinalStep(i, S) /\ Closed(FinalStep(i, S), i - 1)
<1> DEFINE v == var(trail[i])
           R == FinalStep(i, S)
<1>1. Len(trail) \in Nat /\ \A j, k \in 1 .. Len(trail) : var(trail[j]) = var(trail[k]) => j = k
  BY TrailIs DEF CanExplain
<1>2. R = (IF v \in S /\ db.reason[v] # CRef_Undef THEN S \cup VarsOf(Antecedents(v)) ELSE S)
  BY DEF FinalStep
<1> HIDE DEF R
<1>3. \A j \in i .. Len(trail) : var(trail[j]) \in R => var(trail[j]) \in S
  <2>1. SUFFICES ASSUME NEW j \in i .. Len(trail), var(trail[j]) \in R, var(trail[j]) \notin S PROVE FALSE
    OBVIOUS
  <2>2. db.reason[v] # CRef_Undef /\ var(trail[j]) \in VarsOf(Antecedents(v))
    BY <1>2, <2>1
  <2>3. PICK k \in 1 .. i - 1 : var(trail[k]) = var(trail[j])
    BY <2>2, AntecedentsBefore
  <2>4. k \in 1 .. Len(trail) /\ j \in 1 .. Len(trail) /\ k # j
    BY <1>1
  <2>5. QED
    BY <1>1, <2>3, <2>4
<1>4. S \subseteq R
  BY <1>2
<1>5. ASSUME NEW j \in i .. Len(trail), var(trail[j]) \in R, db.reason[var(trail[j])] # CRef_Undef
      PROVE  VarsOf(Antecedents(var(trail[j]))) \subseteq R
  <2>1. var(trail[j]) \in S
    BY <1>3, <1>5
  <2>2. CASE j = i
    BY <1>2, <1>5, <2>1, <2>2
  <2>3. CASE j # i
    <3>1. j \in i + 1 .. Len(trail)
      BY <1>1, <2>3
    <3>2. VarsOf(Antecedents(var(trail[j]))) \subseteq S
      BY <1>5, <2>1, <3>1 DEF Closed
    <3>3. QED
      BY <1>4, <3>2
  <2>4. QED
    BY <2>2, <2>3
<1>6. i - 1 + 1 = i
  BY <1>1
<1>7. QED
  BY <1>4, <1>5, <1>6 DEF Closed, R

(* What analyzeFinal has seen in the end is closed down to the root level. *)
LEMMA FinalCloses ==
    ASSUME NEW V, CanExplain(V), NEW p, NEW a \in 0 .. Len(trail), NEW f, FinalFrom(f, a, p)
    PROVE  var(p) \in f[a] /\ Closed(f[a], a)
<1> DEFINE n == Len(trail)
           G == {i \in 0 .. n : i < a \/ (var(p) \in f[i] /\ Closed(f[i], i))}
<1>1. n \in Nat
  BY TrailIs DEF CanExplain
<1>2. f[n] = {var(p)} /\ \A j \in a .. n - 1 : f[j] = FinalStep(j + 1, f[j + 1])
  BY Zenon DEF FinalFrom
<1>3. n \in G
  <2>1. \A j : j \notin n + 1 .. n
    BY <1>1
  <2>2. Closed(f[n], n)
    BY <2>1 DEF Closed
  <2>3. var(p) \in f[n] /\ n \in 0 .. n
    BY <1>1, <1>2
  <2>4. QED
    BY <2>2, <2>3
<1>4. ASSUME NEW i \in 0 .. n - 1, i + 1 \in G PROVE i \in G
  <2>1. SUFFICES ASSUME ~(i < a) PROVE var(p) \in f[i] /\ Closed(f[i], i)
    BY <1>1
  <2>2. var(p) \in f[i + 1] /\ Closed(f[i + 1], i + 1)
    BY <1>1, <1>4, <2>1
  <2>3. i \in a .. n - 1 /\ i + 1 \in 1 .. n /\ i + 1 - 1 = i
    BY <1>1, <2>1
  <2>4. f[i] = FinalStep(i + 1, f[i + 1])
    BY <1>2, <2>3
  <2>5. /\ f[i + 1] \subseteq FinalStep(i + 1, f[i + 1])
        /\ Closed(FinalStep(i + 1, f[i + 1]), i + 1 - 1)
    BY <2>2, <2>3, FinalStepCloses
  <2>6. QED
    BY <2>2, <2>3, <2>4, <2>5
<1> HIDE DEF G
<1>5. a \in G
  BY <1>1, <1>3, <1>4, Descent
<1>6. ~(a < a)
  BY <1>1
<1>7. QED
  BY <1>5, <1>6 DEF G

(* A model that does not share an assignment of a closed set does not      *)
(* share a decision of it.                                                 *)
LEMMA DecisionBroken ==
    ASSUME NEW V, CanExplain(V), NEW m, Model(m), NEW S, Closed(S, trail_lim[1]), Broken(m, S)
    PROVE  \E j \in 1 .. Len(trail) : /\ AboveRoot(j) /\ var(trail[j]) \in S
                                      /\ db.reason[var(trail[j])] = CRef_Undef
                                      /\ trail[j] \notin m
<1> DEFINE n == Len(trail)
           T == {i \in 1 .. n : var(trail[i]) \in S /\ trail[i] \notin m}
<1>1. /\ n \in Nat /\ Len(trail_lim) \in Nat /\ Len(trail_lim) >= 1
      /\ \A k \in 1 .. Len(trail_lim) : trail_lim[k] \in Nat
      /\ TrailType(trail, trail_lim, V)
  BY TrailIs DEF CanExplain
<1>2. trail_lim[1] \in Nat
  BY <1>1
<1>3. T \in SUBSET Nat /\ T # {}
  BY DEF Broken
<1>4. PICK i \in T : \A k \in T : i <= k
  BY <1>3, Least
<1>5. i \in 1 .. n /\ i \in Nat /\ var(trail[i]) \in S /\ trail[i] \notin m
  BY <1>4
<1>6. AboveRoot(i)
  BY <1>1, <1>2, <1>5, ModelIs
<1>7. SUFFICES ASSUME db.reason[var(trail[i])] # CRef_Undef PROVE FALSE
  BY <1>5, <1>6
<1>8. ReasonOf(i, db.reason[var(trail[i])])
  BY <1>5, <1>7, ReasonIsOne DEF CanExplain
<1>9. PICK q \in Antecedents(var(trail[i])), j \in 1 .. i - 1 :
         trail[j] = neg(q) /\ trail[j] \notin m /\ var(trail[j]) = var(q)
  BY <1>1, <1>5, <1>8, BrokenReason
<1>10. var(q) \in S
  <2>1. i \in trail_lim[1] + 1 .. n
    BY <1>1, <1>2, <1>5, <1>6 DEF AboveRoot
  <2>2. VarsOf(Antecedents(var(trail[i]))) \subseteq S
    BY <1>5, <1>7, <2>1 DEF Closed
  <2>3. QED
    BY <1>9, <2>2 DEF VarsOf
<1>11. j \in T /\ ~(i <= j)
  BY <1>1, <1>5, <1>9, <1>10
<1>12. QED
  BY <1>4, <1>11

-----------------------------------------------------------------------------
(* The assignments that a set of variables leads back to.                  *)
Decisions(S) ==
    {j \in 1 .. Len(trail) : /\ AboveRoot(j) /\ var(trail[j]) \in S
                             /\ db.reason[var(trail[j])] = CRef_Undef}

(* analyzeFinal finds the decisions of a closed set that has its literal.  *)
LEMMA AnalyzeFinalIs ==
    ASSUME NEW V, CanExplain(V), NEW p
    PROVE  \E S : /\ var(p) \in S /\ Closed(S, trail_lim[1])
                  /\ analyzeFinal(p) = {p} \cup {neg(trail[j]) : j \in Decisions(S)}
<1> DEFINE n == Len(trail)
           a == trail_lim[1]
           f == CHOOSE g : g = FinalWalk(g, a, p)
           above == ToSet(SubSeq(trail, trail_lim[1] + 1, Len(trail)))
<1>1. /\ n \in Nat /\ Len(trail_lim) \in Nat /\ Len(trail_lim) >= 1
      /\ \A k \in 1 .. Len(trail_lim) : trail_lim[k] \in Nat /\ trail_lim[k] <= n
      /\ TrailType(trail, trail_lim, V) /\ trail \in Seq(Lits(V))
  BY TrailIs DEF CanExplain
<1>2. a \in Nat /\ a <= n /\ a \in 0 .. n
  BY <1>1
<1>3. FinalFrom(f, a, p)
  BY <1>1, <1>2, FinalIs
<1>4. analyzeFinal(p) = {p} \cup (IF decisionLevel = 0 THEN {}
                  ELSE {neg(q) : q \in {r \in above : var(r) \in f[trail_lim[1]]
                                                      /\ db.reason[var(r)] = CRef_Undef}})
  BY Zenon DEF analyzeFinal, FinalWalk, FinalStep
<1>5. decisionLevel # 0
  BY <1>1 DEF decisionLevel
<1>6. \A r : r \in above <=> \E j \in 1 .. n : AboveRoot(j) /\ trail[j] = r
  <2> DEFINE b == SubSeq(trail, a + 1, n)
  <2>1. b \in Seq(Lits(V)) /\ Len(b) = n - a /\ \A j \in 1 .. n - a : b[j] = trail[j + a]
    BY <1>1, <1>2
  <2> HIDE DEF b
  <2>2. \A r : r \in ToSet(b) <=> \E j \in 1 .. n - a : b[j] = r
    BY <2>1, ToSetIs
  <2>3. \A j \in 1 .. n - a : j + a \in 1 .. n /\ a < j + a
    BY <1>1, <1>2
  <2>4. \A j \in 1 .. n : a < j => j - a \in 1 .. n - a /\ j - a + a = j
    BY <1>1, <1>2
  <2>5. above = ToSet(b)
    BY DEF b
  <2> HIDE DEF above, a
  <2>6. ASSUME NEW r PROVE r \in above <=> \E j \in 1 .. n : AboveRoot(j) /\ trail[j] = r
    <3>1. ASSUME NEW j \in 1 .. n - a, b[j] = r PROVE \E i \in 1 .. n : AboveRoot(i) /\ trail[i] = r
      BY <2>1, <2>3, <3>1 DEF AboveRoot, a
    <3>2. ASSUME NEW j \in 1 .. n, AboveRoot(j), trail[j] = r PROVE \E i \in 1 .. n - a : b[i] = r
      <4>1. j - a \in 1 .. n - a /\ j - a + a = j
        BY <2>4, <3>2 DEF AboveRoot, a
      <4>2. b[j - a] = trail[j - a + a]
        BY <2>1, <4>1
      <4>3. QED
        BY <3>2, <4>1, <4>2
    <3>3. QED
      BY <2>2, <2>5, <3>1, <3>2
  <2>7. QED
    BY <2>6
<1> HIDE DEF f, above
<1>7. var(p) \in f[a] /\ Closed(f[a], a)
  BY <1>2, <1>3, FinalCloses
<1>8. analyzeFinal(p) = {p} \cup {neg(q) : q \in {r \in above : var(r) \in f[a]
                                                      /\ db.reason[var(r)] = CRef_Undef}}
  BY <1>4, <1>5
<1>9. {neg(q) : q \in {r \in above : var(r) \in f[a] /\ db.reason[var(r)] = CRef_Undef}}
        = {neg(trail[j]) : j \in Decisions(f[a])}
  <2> DEFINE S == f[a]
             A == {r \in above : var(r) \in S /\ db.reason[var(r)] = CRef_Undef}
  <2> HIDE DEF S
  <2>1. \A r : r \in A <=> \E j \in Decisions(S) : trail[j] = r
    BY <1>6 DEF Decisions
  <2> HIDE DEF A
  <2>2. {neg(q) : q \in A} = {neg(trail[j]) : j \in Decisions(S)}
    BY <2>1
  <2>3. QED
    BY <2>2 DEF A, S
<1>10. QED
  BY <1>7, <1>8, <1>9

(* The decisions on the way to an assumption are assumptions.              *)
LEMMA DecidedAssumption ==
    ASSUME BaseInv, AssumedInv, Len(trail_lim) >= 1, Len(trail_lim) <= Len(assumptions),
           NEW j \in 1 .. Len(trail), AboveRoot(j), db.reason[var(trail[j])] = CRef_Undef
    PROVE  trail[j] \in ToSet(assumptions)
<1> DEFINE n == Len(trail)
           K == {k \in 1 .. Len(trail_lim) : trail_lim[k] + 1 = j}
<1>1. /\ TrailType(trail, trail_lim, AllVars) /\ DecisionInv(db, trail, trail_lim)
      /\ assumptions \in Seq(Lits(AllVars))
  BY DEF BaseInv, VarsInv, TrailOK
<1>2. /\ n \in Nat /\ Len(trail_lim) \in Nat
      /\ \A k \in 1 .. Len(trail_lim) : trail_lim[k] \in Nat
  BY <1>1, TrailIs
<1>3. 1 \in 1 .. Len(trail_lim) /\ trail_lim[1] < j
  BY <1>2 DEF AboveRoot
<1>4. K # {}
  BY <1>1, <1>3 DEF DecisionInv
<1>5. K \in SUBSET Nat /\ IsFiniteSet(K)
  <2>1. IsFiniteSet(1 .. Len(trail_lim))
    BY <1>2, FS_Interval
  <2>2. QED
    BY <2>1, FS_Subset
<1>6. PICK k \in K : \A l \in K : l <= k
  BY <1>4, <1>5, MaxIs
<1>7. k \in 1 .. Len(trail_lim) /\ trail_lim[k] + 1 = j /\ k <= Len(assumptions)
  <2>1. k \in 1 .. Len(trail_lim) /\ trail_lim[k] + 1 = j
    BY <1>6
  <2>2. Len(assumptions) \in Nat
    BY <1>1
  <2>3. QED
    BY <1>2, <2>1, <2>2
<1>8. LevelEnd(trail, trail_lim, k) # trail_lim[k]
  <2>1. CASE k = Len(trail_lim)
    BY <1>2, <1>7, <2>1 DEF LevelEnd
  <2>2. CASE k # Len(trail_lim)
    <3>1. k + 1 \in 1 .. Len(trail_lim) /\ ~(k + 1 <= k)
      BY <1>2, <1>7, <2>2
    <3>2. k + 1 \notin K
      BY <1>6, <3>1
    <3>3. trail_lim[k + 1] # trail_lim[k]
      BY <1>7, <3>1, <3>2
    <3>4. QED
      BY <2>2, <3>3 DEF LevelEnd
  <2>3. QED
    BY <2>1, <2>2
<1>9. AssumedAt(trail, trail_lim, k, assumptions[k])
  BY <1>7 DEF AssumedInv, Fulfilled
<1>10. trail[j] = assumptions[k]
  BY <1>7, <1>8, <1>9 DEF AssumedAt
<1>11. k \in 1 .. Len(assumptions)
  <2>1. Len(assumptions) \in Nat
    BY <1>1
  <2>2. QED
    BY <1>2, <1>7, <2>1
<1>12. QED
  BY <1>1, <1>10, <1>11, ToSetIs

(* What cannot hold together with what was added has no model.             *)
LEMMA NoModels ==
    ASSUME BaseInv, Mentionable, MentionedInv, NEW P,
           \A p \in P : p \in Nat /\ var(p) \in OracleVars,
           \A M : Total(M) /\ Satisfies(M, added) /\ P \subseteq M => FALSE
    PROVE  ModelsOf(added \cup Units(P), OracleVars) = {}
<1> DEFINE W == OracleVars
           F == added \cup Units(P)
<1>1. W \in SUBSET Nat /\ AllVars \subseteq W
  BY DEF Mentionable, MentionedInv
<1>2. \A C \in F : \A p \in C : p \in Nat /\ var(p) \in W
  <2>1. \A C \in added : \A p \in C : p \in Nat /\ var(p) \in W
    BY <1>1 DEF BaseInv, ClientInv, IsClause
  <2>2. QED
    BY <2>1 DEF Units
<1> HIDE DEF W, F
<1>3. ASSUME NEW m \in TotalOver(W), Satisfies(m, F) PROVE FALSE
  <2> DEFINE M == Extended(m, W)
  <2>1. Total(M) /\ Satisfies(M, F)
    BY <1>1, <1>2, <1>3, ExtendedIs, ExtendedSatisfies
  <2> HIDE DEF M
  <2>2. Satisfies(M, added)
    BY <2>1 DEF Satisfies, F
  <2>3. P \subseteq M
    <3>1. SUFFICES ASSUME NEW p \in P PROVE p \in M
      OBVIOUS
    <3>2. {p} \in F
      BY DEF F, Units
    <3>3. {p} \cap M # {}
      BY <2>1, <3>2 DEF Satisfies
    <3>4. QED
      BY <3>3
  <2>4. QED
    BY <2>1, <2>2, <2>3
<1>4. ModelsOf(F, W) = {}
  BY <1>3 DEF ModelsOf
<1>5. QED
  BY <1>4 DEF F, W

-----------------------------------------------------------------------------
(* What the assumptions are, and where they are.                           *)
LEMMA AssumptionsAre ==
    ASSUME BaseInv, Mentionable, MentionedInv
    PROVE  /\ Len(assumptions) \in Nat
           /\ \A p : p \in ToSet(assumptions) <=> \E i \in 1 .. Len(assumptions) : assumptions[i] = p
           /\ \A p \in ToSet(assumptions) : p \in Nat /\ var(p) \in OracleVars /\ p \in Literal
<1>1. /\ assumptions \in Seq(Lits(AllVars)) /\ AllVars \in SUBSET Nat
      /\ AllVars \subseteq OracleVars
  BY DEF BaseInv, VarsInv, MentionedInv
<1>2. Len(assumptions) \in Nat /\ ToSet(assumptions) \subseteq Lits(AllVars)
  BY <1>1, ToSetIs
<1>3. \A p : p \in ToSet(assumptions) <=> \E i \in 1 .. Len(assumptions) : assumptions[i] = p
  BY <1>1, ToSetIs
<1>4. \A p \in ToSet(assumptions) : p \in Nat /\ var(p) \in OracleVars
  BY <1>1, <1>2, LitsAre
<1>5. QED
  BY <1>2, <1>3, <1>4 DEF Literal

(* A model of all that was added is one of all there is.                   *)
LEMMA SatisfiedIsModel ==
    ASSUME BaseInv, MeaningInv, NEW m, Total(m), Satisfies(m, added)
    PROVE  Model(m)
  BY MeaningIs, ModelSplit

(* The negated assumption is in a conflict at the root level: it is false  *)
(* there.                                                                  *)
LEMMA RootAssumptionFails ==
    ASSUME BaseInv, IsFalse(Assumed), Len(trail_lim) = 0, NEW m, Model(m)
    PROVE  neg(Assumed) \in m
<1>1. TrailType(trail, trail_lim, AllVars)
  BY DEF BaseInv, TrailOK
<1>2. IsTrue(neg(Assumed))
  BY DEF IsTrue, IsFalse
<1>3. QED
  BY <1>1, <1>2, RootIs DEF Model

(* Above it, a model of all that was added contradicts a decision that the *)
(* false assumption leads back to, or makes the assumption false.          *)
LEMMA DeepAssumptionFails ==
    ASSUME BaseInv, IsFalse(Assumed), Assumed \in Nat, Len(trail_lim) >= 1, NEW m, Model(m),
           NEW S, var(neg(Assumed)) \in S, Closed(S, trail_lim[1])
    PROVE  neg(Assumed) \in m \/ \E j \in Decisions(S) : trail[j] \notin m
<1>1. CanExplain(AllVars)
  BY DEF CanExplain, BaseInv, VarsInv, DbInv, TrailOK
<1>2. TrailType(trail, trail_lim, AllVars)
  BY <1>1 DEF CanExplain
<1>3. PICK k \in 1 .. Len(trail) : trail[k] = neg(Assumed)
  BY <1>2, TrailIs DEF IsFalse
<1>4. ASSUME neg(Assumed) \notin m PROVE \E j \in Decisions(S) : trail[j] \notin m
  <2>1. Broken(m, S)
    BY <1>3, <1>4 DEF Broken
  <2>2. PICK j \in 1 .. Len(trail) : /\ AboveRoot(j) /\ var(trail[j]) \in S
                                     /\ db.reason[var(trail[j])] = CRef_Undef
                                     /\ trail[j] \notin m
    BY <1>1, <2>1, DecisionBroken
  <2>3. QED
    BY <2>2 DEF Decisions
<1>5. QED
  BY <1>4

(* What analyzeFinal reports are assumptions, and no model of all that was *)
(* added shares them.                                                      *)
LEMMA FinalIsRight ==
    ASSUME BaseInv, MeaningInv, Mentionable, MentionedInv, AssumedInv, Pending, IsFalse(Assumed)
    PROVE  /\ NegAll(analyzeFinal(neg(Assumed))) \subseteq ToSet(assumptions)
           /\ analyzeFinal(neg(Assumed)) \subseteq NegAll(ToSet(assumptions))
           /\ \A m : Total(m) /\ Satisfies(m, added) =>
                 \E p \in NegAll(analyzeFinal(neg(Assumed))) : p \notin m
<1> DEFINE a == Assumed
<1>1. /\ TrailType(trail, trail_lim, AllVars) /\ Len(trail_lim) \in Nat
      /\ Len(assumptions) \in Nat /\ Len(trail_lim) < Len(assumptions)
  BY AssumptionsAre, TrailIs DEF Pending, BaseInv, TrailOK, decisionLevel
<1>2. a \in ToSet(assumptions)
  <2>1. Len(trail_lim) + 1 \in 1 .. Len(assumptions)
    BY <1>1
  <2>2. QED
    BY <2>1, AssumptionsAre DEF Assumed, decisionLevel
<1>3. a \in Nat /\ a \in Literal
  BY <1>2, AssumptionsAre
<1>4. neg(neg(a)) = a
  BY <1>3, Negation
<1>5. CASE Len(trail_lim) = 0
  <2>1. analyzeFinal(neg(a)) = {neg(a)}
    BY <1>5, Zenon DEF analyzeFinal, decisionLevel
  <2>2. NegAll(analyzeFinal(neg(a))) = {a} /\ analyzeFinal(neg(a)) \subseteq NegAll(ToSet(assumptions))
    BY <1>2, <1>4, <2>1 DEF NegAll
  <2>3. ASSUME NEW m, Total(m), Satisfies(m, added) PROVE a \notin m
    <3>1. Model(m)
      BY <2>3, SatisfiedIsModel
    <3>2. neg(a) \in m
      BY <1>5, <3>1, RootAssumptionFails
    <3>3. QED
      BY <1>3, <2>3, <3>2 DEF Total
  <2>4. QED
    BY <1>2, <2>2, <2>3
<1>6. CASE Len(trail_lim) # 0
  <2>1. Len(trail_lim) >= 1 /\ Len(trail_lim) <= Len(assumptions)
    BY <1>1, <1>6
  <2>2. CanExplain(AllVars)
    BY <2>1 DEF CanExplain, BaseInv, VarsInv, DbInv, TrailOK
  <2>3. PICK S : /\ var(neg(a)) \in S /\ Closed(S, trail_lim[1])
                 /\ analyzeFinal(neg(a)) = {neg(a)} \cup {neg(trail[j]) : j \in Decisions(S)}
    BY <2>2, AnalyzeFinalIs
  <2>4. \A j \in Decisions(S) : trail[j] \in ToSet(assumptions)
    BY <2>1, DecidedAssumption DEF Decisions
  <2>5. \A j \in Decisions(S) : neg(neg(trail[j])) = trail[j]
    BY <2>4, AssumptionsAre, Negation
  <2> DEFINE A == analyzeFinal(neg(a))
  <2>6. A = {neg(a)} \cup {neg(trail[j]) : j \in Decisions(S)}
    BY <2>3
  <2> HIDE DEF A, a
  <2>7. a \in NegAll(A) /\ \A j \in Decisions(S) : trail[j] \in NegAll(A)
    BY <1>4, <2>5, <2>6 DEF NegAll
  <2>8. NegAll(A) \subseteq ToSet(assumptions) /\ A \subseteq NegAll(ToSet(assumptions))
    <3>1. ASSUME NEW q \in A PROVE q \in NegAll(ToSet(assumptions)) /\ neg(q) \in ToSet(assumptions)
      <4>1. CASE q = neg(a)
        BY <1>2, <1>4, <4>1 DEF NegAll
      <4>2. CASE \E j \in Decisions(S) : q = neg(trail[j])
        BY <2>4, <2>5, <4>2 DEF NegAll
      <4>3. QED
        BY <2>6, <3>1, <4>1, <4>2
    <3>2. QED
      BY <3>1 DEF NegAll
  <2>9. ASSUME NEW m, Total(m), Satisfies(m, added) PROVE \E p \in NegAll(A) : p \notin m
    <3>1. Model(m)
      BY <2>9, SatisfiedIsModel
    <3>2. neg(a) \in m \/ \E j \in Decisions(S) : trail[j] \notin m
      BY <1>3, <2>1, <2>3, <3>1, DeepAssumptionFails DEF a
    <3>3. neg(a) \in m => a \notin m
      BY <1>3, <2>9 DEF Total
    <3>4. QED
      BY <2>7, <3>2, <3>3
  <2>10. QED
    BY <2>8, <2>9 DEF A, a
<1>7. QED
  BY <1>5, <1>6

(* The answer "unsat" is right, and blames assumptions only.               *)
LEMMA UnsatIsRight ==
    ASSUME SolverAssumption, OracleAssumption, BaseInv, MeaningInv, MentionedInv,
           PendingInv, AssumedInv, Refuse \/ ConflictAtRoot \/ AssumptionFails
    PROVE  Oracle!AnswerUnsat
<1> DEFINE P == NegAll(conflict')
<1>1. Mentionable
  BY MentionableIs
<1>2. answer = "pending" /\ model = {} /\ added' = added /\ assumptions' = assumptions
  BY AnswerPending
<1>3. answer' = "unsat" /\ model' = {}
  BY DEF Refuse, ConflictAtRoot, AssumptionFails, Return
<1>4. /\ P \subseteq ToSet(assumptions) /\ conflict' \subseteq NegAll(ToSet(assumptions))
      /\ \A m : Total(m) /\ Satisfies(m, added) /\ P \subseteq m => FALSE
  <2>1. CASE Refuse
    <3>1. conflict' = {} /\ ~ok
      BY <2>1 DEF Refuse, BaseInv, FlowInv
    <3>2. QED
      BY <3>1, MeaningIs DEF NegAll
  <2>2. CASE ConflictAtRoot
    <3>1. conflict' = {} /\ confl # CRef_Undef /\ Len(trail_lim) = 0
      BY <2>2 DEF ConflictAtRoot, decisionLevel
    <3>2. QED
      BY <3>1, RootConflict DEF NegAll
  <2>3. CASE AssumptionFails
    <3>1. Pending /\ IsFalse(Assumed) /\ conflict' = analyzeFinal(neg(Assumed))
      BY <2>3, Zenon DEF AssumptionFails
    <3>2. QED
      BY <1>1, <3>1, FinalIsRight
  <2>4. QED
    BY <2>1, <2>2, <2>3
<1>5. \A p \in P : p \in Nat /\ var(p) \in OracleVars
  BY <1>1, <1>4, AssumptionsAre
<1> HIDE DEF P
<1>6. ModelsOf(added \cup Units(P), OracleVars) = {}
  BY <1>1, <1>4, <1>5, NoModels
<1>7. QED
  <2>1. Oracle!ModelsOf(added \cup Oracle!Units(Oracle!NegAll(conflict')), OracleVars) = {}
    BY <1>6, OracleIs DEF P
  <2>2. conflict' \in SUBSET Oracle!NegAll(ToSet(assumptions))
    BY <1>4, OracleIs
  <2>3. UNCHANGED <<added, ToSet(assumptions), model>>
    BY <1>2, <1>3
  <2>4. QED
    BY <1>2, <1>3, <2>1, <2>2, <2>3, Zenon DEF Oracle!AnswerUnsat

(* What the answers are right by, in every state.                          *)
OracleInv ==
    BaseInv /\ MeaningInv /\ PropagatedInv /\ MentionedInv /\ OriginInv /\ PendingInv /\ AssumedInv

(* Nothing is added, asked or assigned in the beginning.                   *)
LEMMA InitOracle ==
    ASSUME Init
    PROVE  OriginInv /\ PendingInv /\ AssumedInv
<1>1. /\ db.clauses = {} /\ pc = "idle" /\ answer = "none"
      /\ trail_lim = <<>>
  BY DEF Init
<1>2. Len(trail_lim) = 0
  BY <1>1
<1>3. QED
  BY <1>1, <1>2, NoLevels DEF OriginInv, PendingInv, Busy, AssumedInv

(* The inductive invariant of the oracle.                                  *)
LEMMA OracleInvariant == Spec => []OracleInv
<1> DEFINE OwnInv == MentionedInv /\ OriginInv /\ PendingInv /\ AssumedInv
<1>1. Init => OwnInv
  BY SolverAssumption, OracleAssumption, InitMentioned, InitOracle
<1>2. BaseInv /\ OwnInv /\ [Next]_vars => OwnInv'
  BY SolverAssumption, OracleAssumption, MentionedStep, OriginStep, PendingStep, AssumedStep
<1>3. BaseInv /\ MeaningInv /\ PropagatedInv /\ OwnInv => OracleInv
  BY DEF OracleInv
<1> HIDE DEF OwnInv
<1>4. QED
  BY <1>1, <1>2, <1>3, BaseInvariant, MeaningInvariant, PropagatedInvariant, PTL DEF Spec

(* A clause that the client adds.                                          *)
LEMMA AddIsAdd ==
    ASSUME SolverAssumption, OracleAssumption, OracleInv, AddFirst \/ AddLater
    PROVE  Oracle!Add
<1>1. PICK C \in EveryClause : added' = added \cup {C}
  <2>1. Mentionable
    BY MentionableIs
  <2>2. CASE AddFirst
    <3>1. toAdd # <<>> /\ toAdd \in Seq(SUBSET Nat) /\ ToSet(toAdd) \subseteq EveryClause
      BY <2>2 DEF AddFirst, OracleInv, BaseInv, ClientInv, MentionedInv
    <3>2. Head(toAdd) \in ToSet(toAdd)
      BY <3>1, ToSetIs
    <3>3. added' = added \cup {Head(toAdd)}
      BY <2>2, Zenon DEF AddFirst, add_clause
    <3>4. QED
      BY <3>1, <3>2, <3>3
  <2>3. CASE AddLater
    <3>1. PICK C \in Extra : added' = added \cup {C}
      BY <2>3, Zenon DEF AddLater, add_clause
    <3>2. QED
      BY <2>1, <3>1 DEF Mentionable
  <2>4. QED
    BY <2>2, <2>3
<1>2. /\ answer # "pending" /\ ToSet(assumptions)' = ToSet(assumptions) /\ answer' = answer
      /\ model' = model /\ conflict' = conflict
  BY AddPending DEF OracleInv
<1>3. QED
  BY <1>1, <1>2, Zenon DEF Oracle!Add

(* A question that the client asks.                                        *)
LEMMA SolveIsAsk ==
    ASSUME OracleInv, solve
    PROVE  Oracle!Ask
<1>1. /\ answer # "pending" /\ answer' = "pending" /\ model' = {} /\ conflict' = {}
      /\ added' = added /\ assumptions' \in Questions
  BY SolvePending DEF OracleInv
<1>2. ToSet(assumptions)' \in EveryQuestion
  BY <1>1 DEF EveryQuestion
<1>3. QED
  BY <1>1, <1>2, Zenon DEF Oracle!Ask

(* The solver answers every question rightly, whatever was learnt,         *)
(* deleted or left over from the questions before: what it does is a       *)
(* behaviour of the oracle. (That it answers is checked by TLC.)           *)
THEOREM OracleCorrect == Spec => Oracle!Init /\ [][Oracle!Next]_(Oracle!oracleVars)
<1>1. Init => Oracle!Init
  <2> SUFFICES ASSUME Init PROVE Oracle!Init
    OBVIOUS
  <2>1. added = {} /\ assumptions = <<>> /\ answer = "none" /\ model = {} /\ conflict = {}
    BY DEF Init
  <2>2. ToSet(assumptions) = {}
    BY <2>1 DEF ToSet
  <2>3. QED
    BY <2>1, <2>2, Zenon DEF Oracle!Init
<1>2. OracleInv /\ [Next]_vars => [Oracle!Next]_(Oracle!oracleVars)
  <2> SUFFICES ASSUME OracleInv, [Next]_vars
               PROVE  Oracle!Next \/ UNCHANGED Oracle!oracleVars
    OBVIOUS
  <2>1. CASE AddFirst \/ AddLater
    BY <2>1, SolverAssumption, OracleAssumption, AddIsAdd DEF Oracle!Next
  <2>2. CASE solve
    BY <2>2, SolveIsAsk DEF Oracle!Next
  <2>3. CASE ModelFound
    BY <2>3, SolverAssumption, OracleAssumption, SatIsRight DEF Oracle!Next, Oracle!Answer, OracleInv
  <2>4. CASE Refuse \/ ConflictAtRoot \/ AssumptionFails
    BY <2>4, SolverAssumption, OracleAssumption, UnsatIsRight DEF Oracle!Next, Oracle!Answer, OracleInv
  <2>5. ASSUME UNCHANGED <<added, assumptions, answer, model, conflict>>
        PROVE  UNCHANGED Oracle!oracleVars
    BY <2>5, Zenon DEF Oracle!oracleVars
  <2>6. CASE Propagation
    BY <2>5, <2>6, PropagationPending DEF OracleInv
  <2>7. CASE \/ AddPropagated \/ Learn \/ Restart \/ KeepAsItIs \/ simplify \/ Reduce
             \/ DummyLevel \/ Assume \/ pickBranchLit
    BY <2>5, <2>7, SearchPending DEF OracleInv
  <2>8. CASE UNCHANGED vars \/ Idle
    <3>1. UNCHANGED <<added, assumptions, answer, model, conflict>>
      BY <2>8 DEF Idle, vars, resultVars, clientVars, searchVars
    <3>2. QED
      BY <2>5, <3>1
  <2>9. QED
    BY <2>1, <2>2, <2>3, <2>4, <2>6, <2>7, <2>8 DEF Next, Client, Work, Search
<1>3. QED
  BY <1>1, <1>2, OracleInvariant, PTL DEF Spec

-----------------------------------------------------------------------------
(* What a solver writes for a question (DimacsWriter). First the numbering *)
(* of the variables in the order they are met.                             *)
Distinct(s) == \A i, j \in 1 .. Len(s) : s[i] = s[j] => i = j

(* One more literal is met.                                                *)
MetNext(met, p) == IF var(p) \in ToSet(met) THEN met ELSE Append(met, var(p))

(* The fold that FirstMet stands for: over the positions of ps, the last   *)
(* one first.                                                              *)
MetEq(f, known, ps) ==
    f = [s \in SUBSET DOMAIN ps |->
            IF s = {} THEN known ELSE MetNext(f[s \ {Max(s)}], ps[Max(s)])]

(* A variable that was not met is appended.                                *)
LEMMA MetNextIs ==
    ASSUME NEW met \in Seq(Nat), Distinct(met), NEW p \in Nat
    PROVE  /\ MetNext(met, p) \in Seq(Nat) /\ Distinct(MetNext(met, p))
           /\ ToSet(MetNext(met, p)) = ToSet(met) \cup {var(p)}
<1>1. var(p) \in Nat
  BY Negation DEF Literal
<1>2. CASE var(p) \in ToSet(met)
  BY <1>2 DEF MetNext
<1>3. CASE var(p) \notin ToSet(met)
  <2> DEFINE t == Append(met, var(p))
  <2>1. /\ t \in Seq(Nat) /\ Len(met) \in Nat /\ Len(t) = Len(met) + 1
        /\ t[Len(met) + 1] = var(p)
        /\ \A i \in 1 .. Len(met) : t[i] = met[i]
    BY <1>1
  <2>2. MetNext(met, p) = t
    BY <1>3 DEF MetNext
  <2> HIDE DEF t
  <2>3. /\ \A x : x \in ToSet(t) <=> \E i \in 1 .. Len(t) : t[i] = x
        /\ \A x : x \in ToSet(met) <=> \E i \in 1 .. Len(met) : met[i] = x
    BY <2>1, ToSetIs
  <2>4. \A i \in 1 .. Len(t) : i \in 1 .. Len(met) \/ i = Len(met) + 1
    BY <2>1
  <2>5. ASSUME NEW i \in 1 .. Len(t), NEW j \in 1 .. Len(t), t[i] = t[j] PROVE i = j
    <3>1. \A k \in 1 .. Len(met) : t[k] # var(p)
      BY <1>3, <2>1, <2>3
    <3>2. QED
      BY <2>1, <2>4, <2>5, <3>1 DEF Distinct
  <2>6. \A i \in 1 .. Len(met) : i \in 1 .. Len(t)
    BY <2>1
  <2>7. Len(met) + 1 \in 1 .. Len(t)
    BY <2>1
  <2>8. ToSet(t) = ToSet(met) \cup {var(p)}
    BY <2>1, <2>3, <2>4, <2>6, <2>7
  <2>9. QED
    BY <2>1, <2>2, <2>5, <2>8 DEF Distinct
<1>4. QED
  BY <1>2, <1>3

(* The fold exists.                                                        *)
LEMMA MetExists ==
    ASSUME NEW known \in Seq(Nat), NEW ps \in Seq(Nat)
    PROVE  /\ FirstMet(known, ps) = (CHOOSE f : MetEq(f, known, ps))[DOMAIN ps]
           /\ \E f : MetEq(f, known, ps)
<1> DEFINE D == DOMAIN ps
           T == Seq(Nat)
           c == [s \in SUBSET D |-> Max(s)]
           step == [i \in D |-> [met \in T |-> MetNext(met, ps[i])]]
<1>1. D = 1 .. Len(ps) /\ IsFiniteSet(D)
  <2>1. PICK n \in Int : n = Len(ps) /\ 1 \in Int
    OBVIOUS
  <2>2. IsFiniteSet(1 .. n)
    BY FS_Interval
  <2>3. QED
    BY <2>1, <2>2
<1>2. \A s \in SUBSET D : s # {} => Max(s) \in s
  <2> SUFFICES ASSUME NEW s \in SUBSET D, s # {} PROVE Max(s) \in s
    OBVIOUS
  <2>1. s \in SUBSET Int /\ IsFiniteSet(s)
    BY <1>1, FS_Subset
  <2>2. QED
    BY <2>1, GreatestIs
<1>3. step \in [D -> [T -> T]]
  <2> SUFFICES ASSUME NEW i \in D, NEW met \in T PROVE MetNext(met, ps[i]) \in T
    OBVIOUS
  <2>1. ps[i] \in Nat
    OBVIOUS
  <2>2. var(ps[i]) \in Nat
    BY <2>1, Negation DEF Literal
  <2>3. QED
    BY <2>2 DEF MetNext
<1>4. FoldInput(D, T, known, c, step)
  <2>1. \A s \in SUBSET D : s # {} => c[s] \in s
    BY <1>2
  <2> HIDE DEF c, step
  <2>2. QED
    BY <1>1, <1>3, <2>1 DEF FoldInput
<1>5. PICK f : IsFold(f, D, T, known, c, step)
  <2> HIDE DEF D, T, c, step
  <2>1. QED
    BY <1>4, FoldExists
<1>6. ASSUME NEW s \in SUBSET D
      PROVE  f[s] = IF s = {} THEN known ELSE MetNext(f[s \ {Max(s)}], ps[Max(s)])
  <2>1. CASE s = {}
    BY <1>5, <2>1 DEF IsFold
  <2>2. CASE s # {}
    <3>1. Max(s) \in D /\ c[s] = Max(s) /\ s \ {Max(s)} \in SUBSET D
      BY <1>2, <2>2
    <3>2. f[s] = step[c[s]][f[s \ {c[s]}]] /\ f[s \ {Max(s)}] \in T
      BY <1>5, <2>2, <3>1 DEF IsFold
    <3>3. step[Max(s)][f[s \ {Max(s)}]] = MetNext(f[s \ {Max(s)}], ps[Max(s)])
      BY <3>1, <3>2
    <3>4. QED
      BY <2>2, <3>1, <3>2, <3>3, Zenon
  <2>3. QED
    BY <2>1, <2>2
<1>7. f = [s \in SUBSET D |-> f[s]]
  BY <1>5 DEF IsFold
<1>8. MetEq(f, known, ps)
  BY <1>6, <1>7, Zenon DEF MetEq
<1>9. FirstMet(known, ps) = (CHOOSE g : MetEq(g, known, ps))[DOMAIN ps]
  BY Zenon DEF FirstMet, FoldLeft, MapThenFoldSet, MetEq, MetNext
<1>10. QED
  BY <1>8, <1>9

(* FirstMet numbers every variable of ps once, after those known before.   *)
LEMMA FirstMetIs ==
    ASSUME NEW known \in Seq(Nat), Distinct(known), NEW ps \in Seq(Nat)
    PROVE  /\ FirstMet(known, ps) \in Seq(Nat) /\ Distinct(FirstMet(known, ps))
           /\ ToSet(FirstMet(known, ps)) = ToSet(known) \cup VarsOf(ToSet(ps))
<1> DEFINE D == DOMAIN ps
           f == CHOOSE g : MetEq(g, known, ps)
           Met(s) == ToSet(known) \cup {var(ps[i]) : i \in s}
           Good(s) == f[s] \in Seq(Nat) /\ Distinct(f[s]) /\ ToSet(f[s]) = Met(s)
           Q(n) == \A s \in SUBSET D : Cardinality(s) = n => Good(s)
           Bad == {n \in Nat : ~Q(n)}
<1>1. FirstMet(known, ps) = f[D] /\ MetEq(f, known, ps)
  BY MetExists
<1> HIDE DEF f
<1>2. \A s \in SUBSET D : f[s] = IF s = {} THEN known ELSE MetNext(f[s \ {Max(s)}], ps[Max(s)])
  BY <1>1 DEF MetEq
<1>3. D = 1 .. Len(ps) /\ IsFiniteSet(D) /\ \A i \in D : ps[i] \in Nat
  <2>1. PICK n \in Int : n = Len(ps) /\ 1 \in Int
    OBVIOUS
  <2>2. IsFiniteSet(1 .. n)
    BY FS_Interval
  <2>3. QED
    BY <2>1, <2>2
<1> HIDE DEF D
<1>4. \A s \in SUBSET D : IsFiniteSet(s) /\ Cardinality(s) \in Nat
  BY <1>3, FS_Subset, FS_CardinalityType
<1>5. Q(0)
  <2> SUFFICES ASSUME NEW s \in SUBSET D, Cardinality(s) = 0 PROVE Good(s)
    OBVIOUS
  <2>1. s = {}
    BY <1>4, FS_EmptySet
  <2>2. f[s] = known /\ Met(s) = ToSet(known)
    BY <1>2, <2>1
  <2>3. QED
    BY <2>2
<1>6. ASSUME NEW n \in Nat, Q(n) PROVE Q(n + 1)
  <2> SUFFICES ASSUME NEW s \in SUBSET D, Cardinality(s) = n + 1 PROVE Good(s)
    OBVIOUS
  <2> HIDE DEF Met, Good
  <2>1. s # {}
    <3>1. Cardinality(s) # 0
      OBVIOUS
    <3>2. QED
      BY <3>1, FS_EmptySet, Zenon
  <2>2. PICK i \in s : i = Max(s)
    <3>1. s \in SUBSET Int /\ IsFiniteSet(s)
      BY <1>3, <1>4
    <3>2. QED
      BY <2>1, <3>1, GreatestIs
  <2> DEFINE r == s \ {i}
  <2>3. r \in SUBSET D /\ s = r \cup {i} /\ Cardinality(r) = n
    <3>1. IsFiniteSet(s) /\ Cardinality(s) = n + 1
      BY <1>4
    <3>2. Cardinality(r) = Cardinality(s) - 1
      BY <3>1, FS_RemoveElement
    <3>3. QED
      BY <3>1, <3>2
  <2>4. f[s] = MetNext(f[r], ps[i])
    BY <1>2, <2>1, <2>2, Zenon
  <2>5. Met(s) = Met(r) \cup {var(ps[i])}
    BY <2>3 DEF Met
  <2> HIDE DEF r
  <2>6. f[r] \in Seq(Nat) /\ Distinct(f[r]) /\ ToSet(f[r]) = Met(r)
    BY <1>6, <2>3 DEF Good
  <2>7. ps[i] \in Nat
    BY <1>3
  <2>8. QED
    BY <2>4, <2>5, <2>6, <2>7, MetNextIs DEF Good
<1> HIDE DEF Good
<1>7. \A n \in Nat : Q(n)
  <2> HIDE DEF Q
  <2> SUFFICES ASSUME Bad # {} PROVE FALSE
    OBVIOUS
  <2>1. PICK n \in Bad : \A k \in Bad : n <= k
    BY Least
  <2>2. n # 0
    BY <1>5
  <2>3. n - 1 \in Nat /\ n - 1 \notin Bad
    BY <2>1, <2>2
  <2>4. Q(n - 1 + 1)
    BY <1>6, <2>3
  <2>5. QED
    BY <2>1, <2>4
<1>8. Good(D)
  BY <1>4, <1>7
<1>9. Met(D) = ToSet(known) \cup VarsOf(ToSet(ps))
  <2>1. \A x : x \in ToSet(ps) <=> \E i \in D : ps[i] = x
    BY <1>3, ToSetIs
  <2>2. \A v : v \in VarsOf(ToSet(ps)) <=> \E i \in D : v = var(ps[i])
    BY <2>1 DEF VarsOf
  <2>3. QED
    BY <2>2
<1>10. QED
  BY <1>1, <1>8, <1>9 DEF Good

-----------------------------------------------------------------------------
(* The literal r is what mapVar makes of p: the same sign, and the         *)
(* position of p's variable in met, from 0.                                *)
LEMMA MapVarIs ==
    ASSUME NEW met \in Seq(Nat), Distinct(met)
    PROVE  /\ \A p \in Nat, i \in 1 .. Len(met) :
                 var(p) = met[i] => mapVar(met, p) = mkLit(i - 1, sign(p))
           /\ \A p \in Nat : var(p) \in ToSet(met) =>
                 /\ mapVar(met, p) \in Nat /\ var(mapVar(met, p)) \in 0 .. Len(met) - 1
                 /\ neg(p) \in Nat /\ var(neg(p)) = var(p)
                 /\ mapVar(met, neg(p)) = neg(mapVar(met, p))
           /\ \A p, q \in Nat : var(p) \in ToSet(met) /\ var(q) \in ToSet(met)
                                /\ mapVar(met, p) = mapVar(met, q) => p = q
           /\ \A r \in Nat : var(r) \in 0 .. Len(met) - 1 =>
                 \E p \in Nat : var(p) \in ToSet(met) /\ mapVar(met, p) = r
<1>1. /\ DOMAIN met = 1 .. Len(met) /\ Len(met) \in Nat
      /\ \A i \in 1 .. Len(met) : met[i] \in Nat
      /\ \A v : v \in ToSet(met) <=> \E i \in 1 .. Len(met) : met[i] = v
  BY ToSetIs
<1>2. ASSUME NEW p \in Nat, NEW i \in 1 .. Len(met), var(p) = met[i]
      PROVE  mapVar(met, p) = mkLit(i - 1, sign(p))
  <2> DEFINE j == CHOOSE k \in DOMAIN met : met[k] = var(p)
  <2>1. j \in DOMAIN met /\ met[j] = var(p)
    BY <1>1, <1>2
  <2>2. mapVar(met, p) = mkLit(j - 1, sign(p))
    BY DEF mapVar
  <2> HIDE DEF j
  <2>3. j = i
    BY <1>1, <1>2, <2>1 DEF Distinct
  <2>4. QED
    BY <2>2, <2>3
<1>3. \A p \in Nat : p = mkLit(var(p), sign(p)) /\ sign(p) \in BOOLEAN /\ var(p) \in Nat
  BY DEF mkLit, var, sign
<1>4. \A i \in 1 .. Len(met), b \in BOOLEAN :
         /\ i - 1 \in Nat /\ mkLit(i - 1, b) \in Nat /\ var(mkLit(i - 1, b)) = i - 1
         /\ sign(mkLit(i - 1, b)) = b /\ neg(mkLit(i - 1, b)) = mkLit(i - 1, ~b)
  BY DEF mkLit, var, sign, neg
<1>5. \A p \in Nat : neg(p) \in Nat /\ var(neg(p)) = var(p) /\ sign(neg(p)) = ~sign(p)
  BY DEF var, sign, neg
<1>6. ASSUME NEW p \in Nat, var(p) \in ToSet(met)
      PROVE  /\ mapVar(met, p) \in Nat /\ var(mapVar(met, p)) \in 0 .. Len(met) - 1
             /\ mapVar(met, neg(p)) = neg(mapVar(met, p))
  <2>1. PICK i \in 1 .. Len(met) : met[i] = var(p)
    BY <1>1, <1>6
  <2>2. mapVar(met, p) = mkLit(i - 1, sign(p)) /\ mapVar(met, neg(p)) = mkLit(i - 1, sign(neg(p)))
    BY <1>2, <1>5, <2>1
  <2>3. i - 1 \in 0 .. Len(met) - 1
    BY <1>1
  <2>4. PICK b \in BOOLEAN : b = sign(p)
    BY <1>3
  <2>5. mapVar(met, p) = mkLit(i - 1, b) /\ mapVar(met, neg(p)) = mkLit(i - 1, ~b)
    BY <1>5, <2>2, <2>4
  <2>6. QED
    BY <1>4, <2>3, <2>5
<1>7. ASSUME NEW p \in Nat, NEW q \in Nat, var(p) \in ToSet(met), var(q) \in ToSet(met),
             mapVar(met, p) = mapVar(met, q)
      PROVE  p = q
  <2>1. PICK i \in 1 .. Len(met), j \in 1 .. Len(met) : met[i] = var(p) /\ met[j] = var(q)
    BY <1>1, <1>7
  <2>2. mkLit(i - 1, sign(p)) = mkLit(j - 1, sign(q))
    BY <1>2, <1>7, <2>1
  <2>3. i - 1 = j - 1 /\ sign(p) = sign(q)
    BY <1>3, <1>4, <2>2
  <2>4. i = j
    BY <2>3
  <2>5. QED
    BY <1>3, <2>1, <2>3, <2>4
<1>8. ASSUME NEW r \in Nat, var(r) \in 0 .. Len(met) - 1
      PROVE  \E p \in Nat : var(p) \in ToSet(met) /\ mapVar(met, p) = r
  <2>1. PICK i \in 1 .. Len(met) : i - 1 = var(r)
    <3>1. PICK v \in 0 .. Len(met) - 1 : v = var(r)
      BY <1>8
    <3>2. v + 1 \in 1 .. Len(met) /\ v + 1 - 1 = v
      BY <1>1
    <3>3. QED
      BY <3>1, <3>2
  <2> DEFINE p == mkLit(met[i], sign(r))
  <2>2. p \in Nat /\ var(p) = met[i] /\ sign(p) = sign(r)
    <3>1. met[i] \in Nat
      BY <1>1
    <3> HIDE DEF p
    <3>2. \A v \in Nat, b \in BOOLEAN :
             mkLit(v, b) \in Nat /\ var(mkLit(v, b)) = v /\ sign(mkLit(v, b)) = b
      BY DEF mkLit, var, sign
    <3>3. QED
      BY <1>3, <3>1, <3>2 DEF p
  <2> HIDE DEF p
  <2>3. mapVar(met, p) = r
    BY <1>2, <1>3, <2>1, <2>2
  <2>4. QED
    BY <1>1, <2>2, <2>3
<1>9. QED
  BY <1>2, <1>5, <1>6, <1>7, <1>8

(* A clause with its variables numbered by met.                            *)
Printed(met, C) == {mapVar(met, p) : p \in C}

(* Numbering the variables of a formula numbers those of its models: the   *)
(* numbered formula has the numbered models, and no other.                 *)
LEMMA PrintedModels ==
    ASSUME NEW met \in Seq(Nat), Distinct(met), NEW F,
           \A C \in F : \A p \in C : p \in Nat /\ var(p) \in ToSet(met)
    PROVE  ModelsOf({Printed(met, C) : C \in F}, 0 .. Len(met) - 1)
              = {Printed(met, m) : m \in ModelsOf(F, ToSet(met))}
<1> DEFINE K == ToSet(met)
           N == 0 .. Len(met) - 1
           G == {Printed(met, C) : C \in F}
<1>1. K \in SUBSET Nat /\ N \in SUBSET Nat
  BY ToSetIs
<1>2. /\ \A p \in Nat : var(p) \in K =>
            /\ mapVar(met, p) \in Nat /\ var(mapVar(met, p)) \in N
            /\ neg(p) \in Nat /\ var(neg(p)) = var(p)
            /\ mapVar(met, neg(p)) = neg(mapVar(met, p))
      /\ \A p, q \in Nat : var(p) \in K /\ var(q) \in K /\ mapVar(met, p) = mapVar(met, q) => p = q
      /\ \A r \in Nat : var(r) \in N => \E p \in Nat : var(p) \in K /\ mapVar(met, p) = r
  BY MapVarIs, Zenon
<1>3. \A C, r : r \in Printed(met, C) <=> \E p \in C : r = mapVar(met, p)
  BY DEF Printed
<1>4. \A C \in F : \A p \in C : p \in Nat /\ var(p) \in K
  OBVIOUS
<1> HIDE DEF K, N
<1>5. ASSUME NEW m \in ModelsOf(F, K) PROVE Printed(met, m) \in ModelsOf(G, N)
  <2> DEFINE w == Printed(met, m)
  <2>1. m \in TotalOver(K) /\ Satisfies(m, F)
    BY DEF ModelsOf
  <2>2. /\ m \subseteq Nat
        /\ \A p \in Nat : p \in m => var(p) \in K /\ neg(p) \notin m
        /\ \A p \in Nat : var(p) \in K => p \in m \/ neg(p) \in m
    BY <1>1, <2>1, TotalAssignment DEF Literal
  <2>3. \A r : r \in w <=> \E p \in m : r = mapVar(met, p)
    BY <1>3
  <2> HIDE DEF w
  <2>4. w \in SUBSET Nat
    BY <1>2, <2>2, <2>3
  <2>5. ASSUME NEW r \in w PROVE var(r) \in N /\ neg(r) \notin w
    <3>1. PICK p \in m : r = mapVar(met, p)
      BY <2>3
    <3>2. p \in Nat /\ var(p) \in K /\ neg(p) \in Nat /\ var(neg(p)) \in K /\ neg(p) \notin m
      BY <1>2, <2>2
    <3>3. neg(r) = mapVar(met, neg(p)) /\ var(r) \in N
      BY <1>2, <3>1, <3>2
    <3>4. ASSUME NEW q \in m, neg(r) = mapVar(met, q) PROVE FALSE
      <4>1. q \in Nat /\ var(q) \in K
        BY <2>2
      <4>2. q = neg(p)
        BY <1>2, <3>2, <3>3, <3>4, <4>1
      <4>3. QED
        BY <3>2, <3>4, <4>2
    <3>5. QED
      BY <2>3, <3>3, <3>4
  <2>6. ASSUME NEW r \in Nat, var(r) \in N PROVE r \in w \/ neg(r) \in w
    <3>1. PICK p \in Nat : var(p) \in K /\ mapVar(met, p) = r
      BY <1>2, <2>6
    <3>2. (p \in m \/ neg(p) \in m) /\ mapVar(met, neg(p)) = neg(r)
      BY <1>2, <2>2, <3>1
    <3>3. QED
      BY <2>3, <3>1, <3>2
  <2>7. w \in TotalOver(N)
    BY <1>1, <2>4, <2>5, <2>6, TotalFrom
  <2>8. ASSUME NEW C \in F PROVE Printed(met, C) \cap w # {}
    <3>1. PICK p \in C : p \in m
      BY <2>1 DEF Satisfies
    <3>2. mapVar(met, p) \in Printed(met, C) /\ mapVar(met, p) \in w
      BY <1>3, <2>3, <3>1
    <3>3. QED
      BY <3>2
  <2>9. QED
    BY <2>7, <2>8 DEF ModelsOf, Satisfies, w
<1>6. ASSUME NEW w \in ModelsOf(G, N) PROVE \E m \in ModelsOf(F, K) : w = Printed(met, m)
  <2> DEFINE m == {p \in Nat : var(p) \in K /\ mapVar(met, p) \in w}
  <2>1. w \in TotalOver(N) /\ Satisfies(w, G)
    BY DEF ModelsOf
  <2>2. /\ w \subseteq Nat
        /\ \A r \in Nat : r \in w => var(r) \in N /\ neg(r) \notin w
        /\ \A r \in Nat : var(r) \in N => r \in w \/ neg(r) \in w
    BY <1>1, <2>1, TotalAssignment DEF Literal
  <2>3. \A p : p \in m <=> p \in Nat /\ var(p) \in K /\ mapVar(met, p) \in w
    OBVIOUS
  <2> HIDE DEF m
  <2>4. ASSUME NEW p \in m PROVE var(p) \in K /\ neg(p) \notin m
    <3>1. p \in Nat /\ var(p) \in K /\ mapVar(met, p) \in w
      BY <2>3
    <3>2. mapVar(met, neg(p)) = neg(mapVar(met, p)) /\ mapVar(met, p) \in Nat
      BY <1>2, <3>1
    <3>3. mapVar(met, neg(p)) \notin w
      BY <2>2, <3>1, <3>2
    <3>4. QED
      BY <2>3, <3>1, <3>3
  <2>5. ASSUME NEW p \in Nat, var(p) \in K PROVE p \in m \/ neg(p) \in m
    <3>1. /\ mapVar(met, neg(p)) = neg(mapVar(met, p)) /\ mapVar(met, p) \in Nat
          /\ var(mapVar(met, p)) \in N /\ neg(p) \in Nat /\ var(neg(p)) = var(p)
      BY <1>2, <2>5
    <3>2. mapVar(met, p) \in w \/ mapVar(met, neg(p)) \in w
      BY <2>2, <3>1
    <3>3. QED
      BY <2>3, <2>5, <3>1, <3>2
  <2>6. m \in TotalOver(K)
    <3>1. m \in SUBSET Nat
      BY <2>3
    <3>2. QED
      BY <1>1, <2>4, <2>5, <3>1, TotalFrom
  <2>7. ASSUME NEW C \in F PROVE C \cap m # {}
    <3>1. PICK r \in Printed(met, C) : r \in w
      BY <2>1 DEF Satisfies, G
    <3>2. PICK p \in C : r = mapVar(met, p)
      BY <1>3
    <3>3. p \in m
      BY <1>4, <2>3, <3>1, <3>2
    <3>4. QED
      BY <3>3
  <2>8. \A r : r \in w <=> \E p \in m : r = mapVar(met, p)
    <3>1. ASSUME NEW r \in w PROVE \E p \in m : r = mapVar(met, p)
      <4>1. r \in Nat /\ var(r) \in N
        BY <2>2
      <4>2. PICK p \in Nat : var(p) \in K /\ mapVar(met, p) = r
        BY <1>2, <4>1
      <4>3. QED
        BY <2>3, <4>2
    <3>2. QED
      BY <2>3, <3>1
  <2>9. w = Printed(met, m)
    BY <1>3, <2>8
  <2>10. m \in ModelsOf(F, K)
    BY <2>6, <2>7 DEF ModelsOf, Satisfies
  <2>11. QED
    BY <2>9, <2>10
<1>7. ModelsOf(G, N) = {Printed(met, m) : m \in ModelsOf(F, K)}
  BY <1>5, <1>6
<1>8. QED
  BY <1>7 DEF G, K, N

-----------------------------------------------------------------------------
Open == {cr \in db.clauses : ~satisfied(db, cr)}
OpenClauses == {ToSet(Written(cr)) : cr \in Open}

(* What is kept of a sequence.                                             *)
LEMMA KeptElements ==
    ASSUME NEW T, NEW s \in Seq(T), NEW P \in SUBSET (1 .. Len(s))
    PROVE  /\ Kept(s, P) \in Seq(T)
           /\ \A x : x \in ToSet(Kept(s, P)) <=> \E i \in P : s[i] = x
<1> DEFINE t == Kept(s, P)
<1>1. t \in Seq(T)
  BY KeptIs
<1>2. PICK f \in [1 .. Len(t) -> P] :
        /\ \A i, j \in 1 .. Len(t) : f[i] = f[j] => i = j
        /\ \A x \in P : \E i \in 1 .. Len(t) : f[i] = x
        /\ \A i \in 1 .. Len(t) : t[i] = s[f[i]]
  BY KeptIs
<1> HIDE DEF t
<1>3. \A x : x \in ToSet(t) <=> \E i \in 1 .. Len(t) : t[i] = x
  BY <1>1, ToSetIs
<1>4. \A x : x \in ToSet(t) <=> \E i \in P : s[i] = x
  <2>1. ASSUME NEW x \in ToSet(t) PROVE \E i \in P : s[i] = x
    <3>1. PICK i \in 1 .. Len(t) : t[i] = x
      BY <1>3
    <3>2. f[i] \in P /\ s[f[i]] = x
      BY <1>2, <3>1
    <3>3. QED
      BY <3>2
  <2>2. ASSUME NEW j \in P PROVE s[j] \in ToSet(t)
    <3>1. PICK i \in 1 .. Len(t) : f[i] = j
      BY <1>2
    <3>2. t[i] = s[j]
      BY <1>2, <3>1
    <3>3. QED
      BY <1>3, <3>2
  <2>3. QED
    BY <2>1, <2>2
<1>5. QED
  BY <1>1, <1>4 DEF t

(* What is written of a clause: its literals that are not false.           *)
LEMMA WrittenIs ==
    ASSUME BaseInv, NEW cr \in db.clauses
    PROVE  /\ Written(cr) \in Seq(Nat)
           /\ \A p : p \in ToSet(Written(cr)) <=> p \in ToSet(lits(db, cr)) /\ ~IsFalse(p)
           /\ \A p \in ToSet(lits(db, cr)) : p \in Nat /\ var(p) \in AllVars
<1> DEFINE c == lits(db, cr)
           P == {i \in DOMAIN c : ~IsFalse(c[i])}
           w == Kept(c, P)
<1>1. DbType(db, AllVars) /\ AllVars \in SUBSET Nat /\ cr \in live(db)
  BY DEF BaseInv, DbInv, DbType, VarsInv
<1>2. cr \in 1 .. Len(db.ca)
  BY <1>1, LiveIs
<1>3. c \in Seq(Lits(AllVars))
  BY <1>1, <1>2, ClauseIs
<1>4. \A p \in Lits(AllVars) : p \in Nat /\ var(p) \in AllVars
  BY <1>1, LitsAre
<1>5. Written(cr) = w
  BY Zenon DEF Written
<1> HIDE DEF c
<1>6. /\ DOMAIN c = 1 .. Len(c) /\ c \in Seq(Nat)
      /\ \A i \in 1 .. Len(c) : c[i] \in Nat /\ var(c[i]) \in AllVars
      /\ \A p : p \in ToSet(c) <=> \E i \in 1 .. Len(c) : c[i] = p
  <2>1. \A i \in 1 .. Len(c) : c[i] \in Lits(AllVars)
    BY <1>3
  <2>2. c \in Seq(Nat)
    BY <1>3, <1>4, <2>1
  <2>3. QED
    BY <1>3, <1>4, <2>1, <2>2, ToSetIs
<1>7. P \in SUBSET (1 .. Len(c)) /\ \A i : i \in P <=> i \in 1 .. Len(c) /\ ~IsFalse(c[i])
  BY <1>6
<1> HIDE DEF P
<1>8. w \in Seq(Nat) /\ \A p : p \in ToSet(w) <=> \E i \in P : c[i] = p
  BY <1>6, <1>7, KeptElements
<1> HIDE DEF w
<1>9. \A p : p \in ToSet(w) <=> p \in ToSet(c) /\ ~IsFalse(p)
  BY <1>6, <1>7, <1>8
<1>10. QED
  BY <1>5, <1>6, <1>8, <1>9 DEF c

(* The clauses that are written, and their literals in a row.              *)
LEMMA OpenClausesAre ==
    ASSUME BaseInv
    PROVE  /\ Unsatisfied \in Seq(Open) /\ ToSet(Unsatisfied) = Open
           /\ \A C \in OpenClauses : \A p \in C : p \in Nat /\ var(p) \in AllVars
           /\ ClauseLits \in Seq(Nat)
           /\ VarsOf(ToSet(ClauseLits)) = UNION {VarsOf(C) : C \in OpenClauses}
<1> DEFINE parts == [i \in DOMAIN Unsatisfied |-> Written(Unsatisfied[i])]
<1>1. /\ live(db) \subseteq 1 .. Len(db.ca) /\ db.clauses \subseteq live(db)
      /\ Len(db.ca) \in Nat
  <2>1. DbType(db, AllVars)
    BY DEF BaseInv, DbInv
  <2>2. db.clauses \subseteq live(db) /\ Len(db.ca) \in Nat
    BY <2>1 DEF DbType
  <2>3. QED
    BY <2>1, <2>2, LiveIs
<1>2. Open \in SUBSET Nat /\ IsFiniteSet(Open) /\ Open \subseteq db.clauses
  <2>1. PICK n \in Int : n = Len(db.ca) /\ 1 \in Int
    BY <1>1
  <2>2. IsFiniteSet(1 .. n)
    BY FS_Interval
  <2>3. Open \in SUBSET (1 .. n)
    BY <1>1, <2>1 DEF Open
  <2>4. IsFiniteSet(Open)
    BY <2>2, <2>3, FS_Subset
  <2>5. QED
    BY <2>3, <2>4 DEF Open
<1>3. Unsatisfied \in Seq(Open) /\ ToSet(Unsatisfied) = Open
  <2>1. Unsatisfied = Sorted(Open)
    BY Zenon DEF Unsatisfied, Open
  <2>2. Sorted(Open) \in Seq(Open) /\ Range(Sorted(Open)) = Open
    BY <1>2, RangeOfSorted
  <2>3. QED
    BY <2>1, <2>2, Zenon DEF ToSet, Range
<1>4. ASSUME NEW cr \in Open
      PROVE  /\ Written(cr) \in Seq(Nat)
             /\ \A p \in ToSet(Written(cr)) : p \in Nat /\ var(p) \in AllVars
  <2>1. cr \in db.clauses
    BY <1>2
  <2>2. QED
    BY <2>1, WrittenIs
<1>5. \A C \in OpenClauses : \A p \in C : p \in Nat /\ var(p) \in AllVars
  BY <1>4 DEF OpenClauses
<1>6. /\ DOMAIN Unsatisfied = 1 .. Len(Unsatisfied) /\ Len(Unsatisfied) \in Nat
      /\ \A i \in 1 .. Len(Unsatisfied) : Unsatisfied[i] \in Open
      /\ \A cr \in Open : \E i \in 1 .. Len(Unsatisfied) : Unsatisfied[i] = cr
  BY <1>3, ToSetIs
<1>7. /\ parts \in Seq(Seq(Nat)) /\ DOMAIN parts = 1 .. Len(Unsatisfied)
      /\ \A i \in 1 .. Len(Unsatisfied) : parts[i] = Written(Unsatisfied[i])
  <2>1. \A i \in 1 .. Len(Unsatisfied) : Written(Unsatisfied[i]) \in Seq(Nat)
    BY <1>4, <1>6
  <2>2. QED
    BY <1>6, <2>1
<1>8. ClauseLits = FlattenSeq(parts)
  BY Zenon DEF ClauseLits
<1> HIDE DEF parts
<1>9. ClauseLits \in Seq(Nat) /\ ToSet(ClauseLits) = UNION {ToSet(parts[i]) : i \in DOMAIN parts}
  <2>1. /\ FlattenSeq(parts) \in Seq(Nat)
        /\ Range(FlattenSeq(parts)) = UNION {Range(parts[i]) : i \in DOMAIN parts}
    BY <1>7, FlattenIs
  <2>2. \A f : ToSet(f) = Range(f)
    BY Zenon DEF ToSet, Range
  <2>3. QED
    BY <1>8, <2>1, <2>2, Zenon
<1>10. \A p : p \in ToSet(ClauseLits) <=> \E C \in OpenClauses : p \in C
  <2>1. \A p : p \in ToSet(ClauseLits) <=> \E i \in 1 .. Len(Unsatisfied) : p \in ToSet(Written(Unsatisfied[i]))
    BY <1>7, <1>9
  <2>2. QED
    BY <1>6, <2>1 DEF OpenClauses
<1>11. VarsOf(ToSet(ClauseLits)) = UNION {VarsOf(C) : C \in OpenClauses}
  <2>1. \A v : v \in VarsOf(ToSet(ClauseLits)) <=> \E C \in OpenClauses : \E p \in C : v = var(p)
    BY <1>10 DEF VarsOf
  <2>2. \A v : v \in UNION {VarsOf(C) : C \in OpenClauses} <=> \E C \in OpenClauses : \E p \in C : v = var(p)
    BY DEF VarsOf
  <2>3. QED
    BY <2>1, <2>2
<1>12. ClauseLits \in Seq(Nat)
  BY <1>9
<1>13. QED
  BY <1>3, <1>5, <1>11, <1>12

-----------------------------------------------------------------------------
(* The question ask: its variables, and the clauses and variables of its    *)
(* file, not numbered.                                                     *)
AskedVars(ask) == AllVars \cup VarsOf(ToSet(ask))
FileClauses(ask) == Units(ToSet(ask)) \cup OpenClauses
FileVars(ask) == VarsOf(ToSet(ask)) \cup UNION {VarsOf(C) : C \in OpenClauses}

(* A question that may be written: unless the clauses are contradictory,   *)
(* no assumption is false already.                                         *)
Askable(ask) == ask \in Seq(Nat) /\ (ok => \A p \in ToSet(ask) : ~IsFalse(p))

(* What the file's clauses and the question's clauses are about.           *)
LEMMA AskedIs ==
    ASSUME BaseInv, NEW ask, Askable(ask)
    PROVE  /\ AskedVars(ask) \in SUBSET Nat
           /\ FileVars(ask) \in SUBSET AskedVars(ask)
           /\ \A p \in ToSet(ask) : p \in Nat /\ var(p) \in FileVars(ask)
           /\ \A C \in FileClauses(ask) : \A p \in C : p \in Nat /\ var(p) \in FileVars(ask)
           /\ \A C \in added \cup Units(ToSet(ask)) : \A p \in C : p \in Nat /\ var(p) \in AskedVars(ask)
<1>1. AllVars \in SUBSET Nat /\ \A C \in added : \A p \in C : p \in Nat /\ var(p) \in AllVars
  BY DEF BaseInv, VarsInv, ClientInv, IsClause
<1>2. \A p \in ToSet(ask) : p \in Nat /\ var(p) \in Nat /\ var(p) \in VarsOf(ToSet(ask))
  <2>1. ToSet(ask) \subseteq Nat
    BY ToSetIs DEF Askable
  <2>2. QED
    BY <2>1, Negation DEF Literal, VarsOf
<1>3. \A v \in VarsOf(ToSet(ask)) : \E p \in ToSet(ask) : v = var(p)
  BY DEF VarsOf
<1>4. \A C \in OpenClauses : \A p \in C : p \in Nat /\ var(p) \in AllVars
  BY OpenClausesAre
<1>5. AskedVars(ask) \in SUBSET Nat
  BY <1>1, <1>2, <1>3 DEF AskedVars
<1>6. ASSUME NEW v \in FileVars(ask) PROVE v \in AskedVars(ask)
  <2>1. CASE v \in VarsOf(ToSet(ask))
    BY <2>1 DEF AskedVars
  <2>2. CASE v \notin VarsOf(ToSet(ask))
    <3>1. PICK C \in OpenClauses : v \in VarsOf(C)
      BY <2>2 DEF FileVars
    <3>2. PICK p \in C : v = var(p)
      BY <3>1 DEF VarsOf
    <3>3. QED
      BY <1>4, <3>2 DEF AskedVars
  <2>3. QED
    BY <2>1, <2>2
<1>7. \A p \in ToSet(ask) : p \in Nat /\ var(p) \in FileVars(ask)
  BY <1>2 DEF FileVars
<1>8. ASSUME NEW C \in FileClauses(ask), NEW p \in C PROVE p \in Nat /\ var(p) \in FileVars(ask)
  <2>1. CASE C \in OpenClauses
    <3>1. var(p) \in VarsOf(C)
      BY DEF VarsOf
    <3>2. QED
      BY <1>4, <2>1, <3>1 DEF FileVars
  <2>2. CASE C \in Units(ToSet(ask))
    <3>1. p \in ToSet(ask)
      BY <2>2 DEF Units
    <3>2. QED
      BY <1>7, <3>1
  <2>3. QED
    BY <2>1, <2>2 DEF FileClauses
<1>9. ASSUME NEW C \in added \cup Units(ToSet(ask)), NEW p \in C
      PROVE  p \in Nat /\ var(p) \in AskedVars(ask)
  <2>1. CASE C \in added
    BY <1>1, <2>1 DEF AskedVars
  <2>2. CASE C \in Units(ToSet(ask))
    <3>1. p \in ToSet(ask)
      BY <2>2 DEF Units
    <3>2. QED
      BY <1>2, <3>1 DEF AskedVars
  <2>3. QED
    BY <2>1, <2>2
<1>10. QED
  BY <1>5, <1>6, <1>7, <1>8, <1>9

(* Between two questions every assignment is one of the root level.        *)
LEMMA IdleFacts ==
    ASSUME BaseInv, pc = "idle", NEW m
    PROVE  Facts(m) <=> HoldIn(m, db, db.clauses) /\ ToSet(trail) \subseteq m
<1>1. Len(trail_lim) = 0 /\ TrailType(trail, trail_lim, AllVars)
  BY IdleIs DEF BaseInv, TrailOK
<1>2. \A p : p \in ToSet(trail) <=> \E i \in 1 .. Len(trail) : trail[i] = p
  BY <1>1, TrailIs
<1>3. RootsIn(m, trail, trail_lim) <=> \A i \in 1 .. Len(trail) : trail[i] \in m
  BY <1>1 DEF RootsIn, RootLen
<1>4. QED
  BY <1>2, <1>3 DEF Facts

(* A model of everything that was added, and of the assumptions, is one of *)
(* what is written.                                                        *)
LEMMA AskedGivesFile ==
    ASSUME BaseInv, MeaningInv, ok, pc = "idle", NEW ask, Askable(ask),
           NEW m \in ModelsOf(added \cup Units(ToSet(ask)), AskedVars(ask))
    PROVE  Restricted(m, FileVars(ask)) \in ModelsOf(FileClauses(ask), FileVars(ask))
<1> DEFINE V == AskedVars(ask)
           K == FileVars(ask)
           F == FileClauses(ask)
           A == added \cup Units(ToSet(ask))
           M == Extended(m, V)
<1>1. /\ V \in SUBSET Nat /\ K \in SUBSET V
      /\ \A C \in F : \A p \in C : p \in Nat /\ var(p) \in K
      /\ \A C \in A : \A p \in C : p \in Nat /\ var(p) \in V
  BY AskedIs
<1>2. m \in TotalOver(V) /\ Satisfies(m, A)
  BY DEF ModelsOf
<1> HIDE DEF V, K, F, A
<1>3. Total(M) /\ (\A p \in Nat : var(p) \in V => (p \in M <=> p \in m))
  BY <1>1, <1>2, ExtendedIs
<1>4. Satisfies(M, A)
  BY <1>1, <1>2, ExtendedSatisfies
<1> HIDE DEF M
<1>5. Satisfies(M, added) /\ \A p \in ToSet(ask) : p \in M
  <2>1. Satisfies(M, added)
    BY <1>4 DEF Satisfies, A
  <2>2. ASSUME NEW p \in ToSet(ask) PROVE p \in M
    <3>1. {p} \in A
      BY DEF A, Units
    <3>2. {p} \cap M # {}
      BY <1>4, <3>1 DEF Satisfies
    <3>3. QED
      BY <3>2
  <2>3. QED
    BY <2>1, <2>2
<1>6. HoldIn(M, db, db.clauses) /\ ToSet(trail) \subseteq M
  BY <1>3, <1>5, MeaningIs, IdleFacts
<1>7. ASSUME NEW C \in F PROVE C \cap M # {}
  <2>1. CASE C \in Units(ToSet(ask))
    BY <1>5, <2>1 DEF Units
  <2>2. CASE C \in OpenClauses
    <3>1. PICK cr \in db.clauses : C = ToSet(Written(cr))
      BY <2>2 DEF OpenClauses, Open
    <3>2. PICK q \in ToSet(lits(db, cr)) : q \in M
      BY <1>6 DEF HoldIn
    <3>3. q \in Nat
      BY <3>2, WrittenIs
    <3>4. ~IsFalse(q)
      BY <1>3, <1>6, <3>2, <3>3 DEF IsFalse, Total
    <3>5. q \in C
      BY <3>1, <3>2, <3>4, WrittenIs
    <3>6. QED
      BY <3>2, <3>5
  <2>3. QED
    BY <2>1, <2>2 DEF F, FileClauses
<1>8. Satisfies(M, F)
  BY <1>7 DEF Satisfies
<1>9. Restricted(M, K) = Restricted(m, K)
  <2>1. M \in SUBSET Nat /\ m \subseteq Nat
    BY <1>1, <1>2, <1>3, TotalAssignment DEF Total, Literal
  <2>2. \A p : p \in Restricted(M, K) <=> p \in Restricted(m, K)
    BY <1>1, <1>3, <2>1 DEF Restricted
  <2>3. QED
    BY <2>2
<1>10. Restricted(M, K) \in TotalOver(K) /\ Satisfies(Restricted(M, K), F)
  <2>1. K \in SUBSET Nat
    BY <1>1
  <2>2. QED
    BY <1>1, <1>3, <1>8, <2>1, RestrictedIs
<1>11. QED
  BY <1>9, <1>10 DEF ModelsOf, K, F

(* An assigned variable that occurs in the file is one of an assumption    *)
(* that is true already: the written literals of a clause are unassigned.  *)
LEMMA WrittenAssigned ==
    ASSUME BaseInv, ok, NEW ask, Askable(ask), NEW p \in ToSet(trail), var(p) \in FileVars(ask)
    PROVE  p \in ToSet(ask)
<1>1. ToSet(trail) \in SUBSET Nat /\ ToSet(ask) \subseteq Nat
  <2>1. TrailType(trail, trail_lim, AllVars) /\ AllVars \in SUBSET Nat
    BY DEF BaseInv, TrailOK, VarsInv
  <2>2. \A q \in Lits(AllVars) : q \in Nat
    BY <2>1, LitsAre
  <2>3. ToSet(trail) \subseteq Nat
    BY <2>1, <2>2, TrailIs
  <2>4. ToSet(ask) \subseteq Nat
    BY ToSetIs DEF Askable
  <2>5. QED
    BY <2>3, <2>4
<1>2. ASSUME NEW q \in Nat, var(q) = var(p) PROVE q = p \/ neg(q) = p
  <2>1. p \in Nat
    BY <1>1
  <2>2. q = p \/ q = neg(p)
    BY <1>2, <2>1, TwoLiterals DEF Literal
  <2>3. neg(neg(p)) = p
    BY <2>1, Negation DEF Literal
  <2>4. QED
    BY <2>2, <2>3
<1>3. CASE var(p) \in VarsOf(ToSet(ask))
  <2>1. PICK q \in ToSet(ask) : var(q) = var(p)
    BY <1>3 DEF VarsOf
  <2>2. ~IsFalse(q)
    BY DEF Askable
  <2>3. q \in Nat /\ neg(q) # p
    BY <1>1, <2>2 DEF IsFalse
  <2>4. QED
    BY <1>2, <2>1, <2>3
<1>4. CASE var(p) \notin VarsOf(ToSet(ask))
  <2>1. PICK C \in OpenClauses : var(p) \in VarsOf(C)
    BY <1>4 DEF FileVars
  <2>2. PICK cr \in db.clauses : C = ToSet(Written(cr)) /\ ~satisfied(db, cr)
    BY DEF OpenClauses, Open
  <2>3. PICK q \in C : var(q) = var(p)
    BY <2>1 DEF VarsOf
  <2>4. q \in ToSet(lits(db, cr)) /\ ~IsFalse(q) /\ q \in Nat
    BY <2>2, <2>3, WrittenIs
  <2>5. q # p /\ neg(q) # p
    BY <2>2, <2>4 DEF satisfied, IsTrue, IsFalse
  <2>6. QED
    BY <1>2, <2>3, <2>4, <2>5
<1>5. QED
  BY <1>3, <1>4

(* w says what the variables K are, the trail and what completes it the    *)
(* others.                                                                 *)
Joined(w, K) == w \cup {p \in Completed : var(p) \notin K}

(* The join is total and agrees with w on K.                               *)
LEMMA JoinedIs ==
    ASSUME BaseInv, NEW K \in SUBSET Nat, NEW w \in TotalOver(K)
    PROVE  /\ Total(Joined(w, K))
           /\ \A p \in Nat : var(p) \in K => (p \in Joined(w, K) <=> p \in w)
           /\ w \subseteq Nat /\ \A p \in w : var(p) \in K
           /\ \A p \in ToSet(trail) : var(p) \in K \/ p \in Joined(w, K)
<1> DEFINE M == Joined(w, K)
<1>1. /\ w \subseteq Nat
      /\ \A p \in Nat : p \in w => var(p) \in K /\ neg(p) \notin w
      /\ \A p \in Nat : var(p) \in K => p \in w \/ neg(p) \in w
  BY TotalAssignment DEF Literal
<1>2. Total(Completed) /\ ToSet(trail) \subseteq Completed
  <2>1. TrailType(trail, trail_lim, AllVars) /\ AllVars \in SUBSET Nat
    BY DEF BaseInv, TrailOK, VarsInv
  <2>2. QED
    BY <2>1, CompletedIs
<1>3. Completed \in SUBSET Nat /\ \A p \in Nat : p \in Completed <=> neg(p) \notin Completed
  BY <1>2 DEF Total
<1>4. \A p : p \in M <=> p \in w \/ (p \in Completed /\ var(p) \notin K)
  BY DEF Joined
<1> HIDE DEF M
<1>5. ASSUME NEW p \in Nat PROVE p \in M <=> neg(p) \notin M
  <2>1. neg(p) \in Nat /\ var(neg(p)) = var(p) /\ neg(neg(p)) = p
    BY Negation DEF Literal
  <2>2. CASE var(p) \in K
    BY <1>1, <1>4, <2>1, <2>2
  <2>3. CASE var(p) \notin K
    BY <1>1, <1>3, <1>4, <2>1, <2>3
  <2>4. QED
    BY <2>2, <2>3
<1>6. M \in SUBSET Nat
  BY <1>1, <1>3, <1>4
<1>7. \A p \in Nat : var(p) \in K => (p \in M <=> p \in w)
  BY <1>4
<1>8. \A p \in ToSet(trail) : var(p) \in K \/ p \in M
  BY <1>2, <1>4
<1>9. QED
  BY <1>1, <1>5, <1>6, <1>7, <1>8 DEF M, Total

(* A model of what is written is what the file says of a model of all that *)
(* was added and the assumptions.                                          *)
LEMMA FileGivesAsked ==
    ASSUME BaseInv, MeaningInv, ok, pc = "idle", NEW ask, Askable(ask),
           NEW w \in ModelsOf(FileClauses(ask), FileVars(ask))
    PROVE  \E m \in ModelsOf(added \cup Units(ToSet(ask)), AskedVars(ask)) :
              w = Restricted(m, FileVars(ask))
<1> DEFINE V == AskedVars(ask)
           K == FileVars(ask)
           F == FileClauses(ask)
           A == added \cup Units(ToSet(ask))
           M == Joined(w, K)
           m == Restricted(M, V)
<1>1. /\ V \in SUBSET Nat /\ K \in SUBSET V /\ K \in SUBSET Nat
      /\ \A p \in ToSet(ask) : p \in Nat /\ var(p) \in K
      /\ \A C \in F : \A p \in C : p \in Nat /\ var(p) \in K
      /\ \A C \in A : \A p \in C : p \in Nat /\ var(p) \in V
  BY AskedIs
<1>2. w \in TotalOver(K) /\ Satisfies(w, F)
  BY DEF ModelsOf
<1>3. \A p \in ToSet(trail) : var(p) \in K => p \in ToSet(ask)
  BY WrittenAssigned
<1> HIDE DEF V, K
<1>4. /\ Total(M) /\ w \subseteq Nat
      /\ \A p \in Nat : var(p) \in K => (p \in M <=> p \in w)
      /\ \A p \in w : var(p) \in K
      /\ \A p \in ToSet(trail) : var(p) \in K \/ p \in M
  BY <1>1, <1>2, JoinedIs
<1> HIDE DEF M
<1>5. ASSUME NEW p \in ToSet(ask) PROVE p \in M
  <2>1. {p} \in F
    BY DEF FileClauses, Units
  <2>2. {p} \cap w # {}
    BY <1>2, <2>1 DEF Satisfies
  <2>3. QED
    BY <1>1, <1>4, <2>2
<1>6. ToSet(trail) \subseteq M
  BY <1>3, <1>4, <1>5
<1>7. ASSUME NEW cr \in db.clauses PROVE \E q \in ToSet(lits(db, cr)) : q \in M
  <2>1. CASE satisfied(db, cr)
    BY <1>6, <2>1 DEF satisfied, IsTrue
  <2>2. CASE ~satisfied(db, cr)
    <3>1. ToSet(Written(cr)) \in F
      BY <2>2 DEF FileClauses, OpenClauses, Open
    <3>2. PICK q \in ToSet(Written(cr)) : q \in w
      BY <1>2, <3>1 DEF Satisfies
    <3>3. q \in ToSet(lits(db, cr))
      BY <3>2, WrittenIs
    <3>4. q \in M
      BY <1>4, <3>2
    <3>5. QED
      BY <3>3, <3>4
  <2>3. QED
    BY <2>1, <2>2
<1> HIDE DEF F
<1>8. Satisfies(M, added)
  <2>1. Facts(M)
    BY <1>6, <1>7, IdleFacts DEF HoldIn
  <2>2. QED
    BY <1>4, <2>1, MeaningIs
<1>9. Satisfies(M, A)
  <2>1. \A C \in Units(ToSet(ask)) : C \cap M # {}
    BY <1>5 DEF Units
  <2>2. QED
    BY <1>8, <2>1 DEF Satisfies
<1> HIDE DEF A
<1>10. m \in ModelsOf(A, V)
  <2>1. m \in TotalOver(V) /\ Satisfies(m, A)
    BY <1>1, <1>4, <1>9, RestrictedIs
  <2>2. QED
    BY <2>1 DEF ModelsOf
<1>11. w = Restricted(m, K)
  <2>1. M \in SUBSET Nat
    BY <1>4 DEF Total
  <2>2. \A p : p \in Restricted(m, K) <=> p \in w
    BY <1>1, <1>4, <2>1 DEF Restricted
  <2>3. QED
    BY <2>2
<1>12. QED
  BY <1>10, <1>11 DEF A, V, K

-----------------------------------------------------------------------------
(* The lines of the file, by toDimacs.                                     *)
LinesOf(met, ask) ==
    [i \in DOMAIN ask |-> Printed(met, ToSet(<<ask[i]>>))]
    \o [i \in DOMAIN Unsatisfied |-> Printed(met, ToSet(Written(Unsatisfied[i])))]

(* A sequence is a function of its positions.                              *)
LEMMA SequenceFrom ==
    ASSUME NEW T, NEW n \in Nat, NEW f \in [1 .. n -> T]
    PROVE  f \in Seq(T) /\ Len(f) = n
  OBVIOUS

(* They are the clauses of the question, numbered.                         *)
LEMMA LinesAre ==
    ASSUME BaseInv, NEW ask, Askable(ask), NEW met
    PROVE  /\ ToSet(LinesOf(met, ask)) = {Printed(met, C) : C \in FileClauses(ask)}
           /\ Len(LinesOf(met, ask)) = Len(Unsatisfied) + Len(ask)
<1> DEFINE u == [i \in DOMAIN ask |-> Printed(met, ToSet(<<ask[i]>>))]
           c == [i \in DOMAIN Unsatisfied |-> Printed(met, ToSet(Written(Unsatisfied[i])))]
           T == {Printed(met, C) : C \in FileClauses(ask)}
<1> HIDE DEF u, c, T
<1>1. /\ ask \in Seq(Nat) /\ Len(ask) \in Nat /\ DOMAIN ask = 1 .. Len(ask)
      /\ \A p : p \in ToSet(ask) <=> \E i \in 1 .. Len(ask) : ask[i] = p
  <2>1. ask \in Seq(Nat)
    BY DEF Askable
  <2>2. \A p : p \in ToSet(ask) <=> \E i \in 1 .. Len(ask) : ask[i] = p
    BY <2>1, ToSetIs
  <2>3. Len(ask) \in Nat /\ DOMAIN ask = 1 .. Len(ask)
    BY <2>1
  <2>4. QED
    BY <2>1, <2>2, <2>3, Zenon
<1>2. /\ Unsatisfied \in Seq(Open) /\ Len(Unsatisfied) \in Nat
      /\ DOMAIN Unsatisfied = 1 .. Len(Unsatisfied)
      /\ \A r : r \in Open <=> \E i \in 1 .. Len(Unsatisfied) : Unsatisfied[i] = r
  <2>1. Unsatisfied \in Seq(Open) /\ ToSet(Unsatisfied) = Open
    BY OpenClausesAre
  <2>2. QED
    BY <2>1, ToSetIs
<1>3. \A x : ToSet(<<x>>) = {x}
  BY DEF ToSet
<1>4. \A i \in 1 .. Len(ask) : Printed(met, {ask[i]}) \in T
  BY <1>1 DEF FileClauses, Units, T
<1>5. \A i \in 1 .. Len(Unsatisfied) : Printed(met, ToSet(Written(Unsatisfied[i]))) \in T
  BY <1>2 DEF FileClauses, OpenClauses, T
<1>6. ASSUME NEW x \in T
      PROVE  \/ \E i \in 1 .. Len(ask) : x = Printed(met, {ask[i]})
             \/ \E i \in 1 .. Len(Unsatisfied) : x = Printed(met, ToSet(Written(Unsatisfied[i])))
  <2>1. PICK C \in FileClauses(ask) : x = Printed(met, C)
    BY DEF T
  <2>2. CASE C \in Units(ToSet(ask))
    <3>1. PICK p \in ToSet(ask) : C = {p}
      BY <2>2 DEF Units
    <3>2. PICK i \in 1 .. Len(ask) : ask[i] = p
      BY <1>1
    <3>3. QED
      BY <2>1, <3>1, <3>2
  <2>3. CASE C \in OpenClauses
    <3>1. PICK r \in Open : C = ToSet(Written(r))
      BY <2>3 DEF OpenClauses
    <3>2. PICK i \in 1 .. Len(Unsatisfied) : Unsatisfied[i] = r
      BY <1>2
    <3>3. QED
      BY <2>1, <3>1, <3>2
  <2>4. QED
    BY <2>2, <2>3 DEF FileClauses
<1>7. /\ u \in Seq(T) /\ Len(u) = Len(ask)
      /\ \A i \in 1 .. Len(ask) : u[i] = Printed(met, {ask[i]})
  <2>1. \A i \in 1 .. Len(ask) : Printed(met, ToSet(<<ask[i]>>)) = Printed(met, {ask[i]})
    BY <1>3
  <2>2. \A i \in 1 .. Len(ask) : u[i] = Printed(met, {ask[i]})
    BY <1>1, <2>1 DEF u
  <2>3. u = [i \in 1 .. Len(ask) |-> u[i]]
    BY <1>1 DEF u
  <2>4. u \in [1 .. Len(ask) -> T]
    BY <1>4, <2>2, <2>3
  <2>5. u \in Seq(T) /\ Len(u) = Len(ask)
    BY <1>1, <2>4, SequenceFrom
  <2>6. QED
    BY <2>2, <2>5
<1>8. /\ c \in Seq(T) /\ Len(c) = Len(Unsatisfied)
      /\ \A i \in 1 .. Len(Unsatisfied) : c[i] = Printed(met, ToSet(Written(Unsatisfied[i])))
  <2>1. \A i \in 1 .. Len(Unsatisfied) : c[i] = Printed(met, ToSet(Written(Unsatisfied[i])))
    BY <1>2 DEF c
  <2>2. c = [i \in 1 .. Len(Unsatisfied) |-> c[i]]
    BY <1>2 DEF c
  <2>3. c \in [1 .. Len(Unsatisfied) -> T]
    BY <1>5, <2>1, <2>2
  <2>4. c \in Seq(T) /\ Len(c) = Len(Unsatisfied)
    BY <1>2, <2>3, SequenceFrom
  <2>5. QED
    BY <2>1, <2>4
<1>9. LinesOf(met, ask) = u \o c
  BY Zenon DEF LinesOf, u, c
<1>10. Range(u \o c) = Range(u) \cup Range(c) /\ Len(u \o c) = Len(u) + Len(c)
  <2>1. u \in Seq(T) /\ c \in Seq(T)
    BY <1>7, <1>8
  <2>2. Range(u \o c) = Range(u) \cup Range(c)
    BY <2>1, RangeOfConcat
  <2>3. Len(u \o c) = Len(u) + Len(c)
    BY <2>1
  <2>4. QED
    BY <2>2, <2>3
<1>11. \A f : ToSet(f) = Range(f)
  BY Zenon DEF ToSet, Range
<1>12. ToSet(u \o c) = ToSet(u) \cup ToSet(c)
  BY <1>10, <1>11
<1>13. /\ \A x : x \in ToSet(u) <=> \E i \in 1 .. Len(u) : u[i] = x
       /\ \A x : x \in ToSet(c) <=> \E i \in 1 .. Len(c) : c[i] = x
       /\ ToSet(u) \subseteq T /\ ToSet(c) \subseteq T
  BY <1>7, <1>8, ToSetIs
<1>14. ASSUME NEW x \in T PROVE x \in ToSet(u) \cup ToSet(c)
  <2>1. CASE \E i \in 1 .. Len(ask) : x = Printed(met, {ask[i]})
    BY <1>7, <1>13, <2>1
  <2>2. CASE \E i \in 1 .. Len(Unsatisfied) : x = Printed(met, ToSet(Written(Unsatisfied[i])))
    BY <1>8, <1>13, <2>2
  <2>3. QED
    BY <1>6, <2>1, <2>2
<1>15. ToSet(u \o c) = T
  BY <1>12, <1>13, <1>14
<1>16. Len(u) + Len(c) = Len(Unsatisfied) + Len(ask)
  <2>1. PICK k \in Nat, l \in Nat : k = Len(ask) /\ l = Len(Unsatisfied)
    BY <1>1, <1>2
  <2>2. Len(u) = k /\ Len(c) = l
    BY <1>7, <1>8, <2>1
  <2>3. QED
    BY <2>1, <2>2
<1>17. QED
  BY <1>9, <1>10, <1>15, <1>16 DEF T

(* The sequence that lists every element of a set once has its size.       *)
LEMMA DistinctSize ==
    ASSUME NEW T, NEW s \in Seq(T), Distinct(s)
    PROVE  Len(s) = Cardinality(ToSet(s))
<1>1. Len(s) \in Nat /\ DOMAIN s = 1 .. Len(s)
      /\ \A x : x \in ToSet(s) <=> \E i \in 1 .. Len(s) : s[i] = x
  BY ToSetIs
<1>2. IsFiniteSet(1 .. Len(s)) /\ Cardinality(1 .. Len(s)) = Len(s)
  <2>1. PICK n \in Nat : n = Len(s)
    BY <1>1
  <2>2. n \in Int /\ 1 \in Int /\ (1 > n <=> n = 0)
    OBVIOUS
  <2>3. IsFiniteSet(1 .. n) /\ Cardinality(1 .. n) = IF 1 > n THEN 0 ELSE n - 1 + 1
    BY <2>2, FS_Interval
  <2>4. QED
    BY <2>1, <2>2, <2>3
<1>3. s \in Bijection(1 .. Len(s), ToSet(s))
  <2>1. s \in [1 .. Len(s) -> ToSet(s)]
    BY <1>1
  <2>2. \A i, j \in 1 .. Len(s) : s[i] = s[j] => i = j
    BY DEF Distinct
  <2>3. \A x \in ToSet(s) : \E i \in 1 .. Len(s) : s[i] = x
    BY <1>1
  <2>4. QED
    BY <2>1, <2>2, <2>3 DEF Bijection, Injection, Surjection, IsInjective
<1>4. ExistsBijection(1 .. Len(s), ToSet(s))
  BY <1>3 DEF ExistsBijection
<1>5. QED
  BY <1>2, <1>4, FS_Bijection

(* The numbering of the file's variables: those of the clauses first.      *)
ClauseMet == FirstMet(<<>>, ClauseLits)
FileMet(ask) == FirstMet(ClauseMet, ask)

(* Every variable of the file has one number, and no other variable has.   *)
LEMMA FileMetIs ==
    ASSUME BaseInv, NEW ask, Askable(ask)
    PROVE  /\ ClauseMet \in Seq(Nat) /\ Distinct(ClauseMet)
           /\ ToSet(ClauseMet) = VarsOf(ToSet(ClauseLits))
           /\ FileMet(ask) \in Seq(Nat) /\ Distinct(FileMet(ask))
           /\ ToSet(FileMet(ask)) = FileVars(ask)
<1>1. ClauseLits \in Seq(Nat)
      /\ VarsOf(ToSet(ClauseLits)) = UNION {VarsOf(C) : C \in OpenClauses}
  BY OpenClausesAre
<1>2. <<>> \in Seq(Nat) /\ Distinct(<<>>) /\ ToSet(<<>>) = {}
  <2>1. <<>> \in Seq(Nat) /\ Len(<<>>) = 0 /\ DOMAIN <<>> = {}
    OBVIOUS
  <2>2. ToSet(<<>>) = {}
    BY <2>1 DEF ToSet
  <2>3. Distinct(<<>>)
    BY <2>1 DEF Distinct
  <2>4. QED
    BY <2>1, <2>2, <2>3
<1>3. /\ ClauseMet \in Seq(Nat) /\ Distinct(ClauseMet)
      /\ ToSet(ClauseMet) = {} \cup VarsOf(ToSet(ClauseLits))
  <2>1. /\ FirstMet(<<>>, ClauseLits) \in Seq(Nat) /\ Distinct(FirstMet(<<>>, ClauseLits))
        /\ ToSet(FirstMet(<<>>, ClauseLits)) = ToSet(<<>>) \cup VarsOf(ToSet(ClauseLits))
    BY <1>1, <1>2, FirstMetIs
  <2>2. QED
    BY <1>2, <2>1, Zenon DEF ClauseMet
<1>4. ask \in Seq(Nat)
  BY DEF Askable
<1>5. /\ FileMet(ask) \in Seq(Nat) /\ Distinct(FileMet(ask))
      /\ ToSet(FileMet(ask)) = ToSet(ClauseMet) \cup VarsOf(ToSet(ask))
  BY <1>3, <1>4, FirstMetIs DEF FileMet
<1>6. QED
  BY <1>1, <1>3, <1>5 DEF FileVars

(* What toDimacs returns when the clauses are not contradictory.           *)
LEMMA FileIs ==
    ASSUME ok, NEW as
    PROVE  /\ toDimacs(as).vars = Len(ClauseMet)
           /\ toDimacs(as).count = Len(Unsatisfied) + Len(assumptions)
           /\ toDimacs(as).met = FileMet(assumptions)
           /\ toDimacs(as).lines = LinesOf(FileMet(assumptions), assumptions)
<1> DEFINE met == FirstMet(FirstMet(<<>>, ClauseLits), assumptions)
           line(ps) == {mapVar(met, p) : p \in ToSet(ps)}
           units == [i \in DOMAIN assumptions |-> line(<<assumptions[i]>>)]
           rest == [i \in DOMAIN Unsatisfied |-> line(Written(Unsatisfied[i]))]
<1>1. toDimacs(as) = [vars |-> Len(FirstMet(<<>>, ClauseLits)), count |-> Len(Unsatisfied) + Len(assumptions),
                       met |-> met, lines |-> units \o rest]
  BY Zenon DEF toDimacs
<1>2. units \o rest = LinesOf(met, assumptions)
  BY Zenon DEF LinesOf, Printed
<1>3. met = FileMet(assumptions) /\ FirstMet(<<>>, ClauseLits) = ClauseMet
  BY Zenon DEF FileMet, ClauseMet
<1> HIDE DEF met, units, rest
<1>4. /\ toDimacs(as).vars = Len(FirstMet(<<>>, ClauseLits))
      /\ toDimacs(as).count = Len(Unsatisfied) + Len(assumptions)
      /\ toDimacs(as).met = met
      /\ toDimacs(as).lines = units \o rest
  <2> DEFINE v == Len(FirstMet(<<>>, ClauseLits))
             n == Len(Unsatisfied) + Len(assumptions)
             l == units \o rest
  <2> HIDE DEF v, n, l
  <2>1. toDimacs(as) = [vars |-> v, count |-> n, met |-> met, lines |-> l]
    BY <1>1 DEF v, n, l
  <2>2. toDimacs(as).vars = v /\ toDimacs(as).count = n
        /\ toDimacs(as).met = met /\ toDimacs(as).lines = l
    BY <2>1
  <2>3. QED
    BY <2>2 DEF v, n, l
<1>5. QED
  BY <1>2, <1>3, <1>4, Zenon

(* The file of contradictory clauses: x and not x.                         *)
LEMMA RefutedFileIs ==
    ASSUME ~ok, NEW as
    PROVE  /\ toDimacs(as).count = Len(toDimacs(as).lines)
           /\ ModelsOf(ToSet(toDimacs(as).lines), 0 .. Len(toDimacs(as).met) - 1) = {}
<1> DEFINE x == mkLit(0, FALSE)
           y == mkLit(0, TRUE)
           N == 0 .. Len(toDimacs(as).met) - 1
<1>1. toDimacs(as) = [vars |-> 1, count |-> 2, met |-> <<0>>, lines |-> <<{x}, {y}>>]
  BY Zenon DEF toDimacs
<1>2. x \in Nat /\ y = neg(x) /\ x \in Literal
  BY LiteralOf DEF Literal
<1> HIDE DEF x, y
<1>3. /\ toDimacs(as).count = 2 /\ toDimacs(as).met = <<0>>
      /\ toDimacs(as).lines = <<{x}, {y}>>
  BY <1>1
<1>4. Len(<<{x}, {y}>>) = 2 /\ {x} \in ToSet(<<{x}, {y}>>) /\ {y} \in ToSet(<<{x}, {y}>>)
  BY DEF ToSet
<1>5. N \in SUBSET Nat
  BY <1>3
<1> HIDE DEF N
<1>6. ASSUME NEW m \in TotalOver(N), Satisfies(m, ToSet(<<{x}, {y}>>)) PROVE FALSE
  <2>1. x \in m /\ y \in m
    BY <1>4, <1>6 DEF Satisfies
  <2>2. neg(x) \notin m
    BY <1>2, <1>5, <2>1, TotalAssignment
  <2>3. QED
    BY <1>2, <2>1, <2>2
<1>7. ModelsOf(ToSet(<<{x}, {y}>>), N) = {}
  BY <1>6 DEF ModelsOf
<1>8. QED
  BY <1>3, <1>4, <1>7 DEF N

(* Contradictory clauses have no model with any assumptions.               *)
LEMMA NothingAsked ==
    ASSUME BaseInv, MeaningInv, ~ok, NEW ask, Askable(ask)
    PROVE  ModelsOf(added \cup Units(ToSet(ask)), AskedVars(ask)) = {}
<1> DEFINE V == AskedVars(ask)
           A == added \cup Units(ToSet(ask))
<1>1. V \in SUBSET Nat /\ \A C \in A : \A p \in C : p \in Nat /\ var(p) \in V
  BY AskedIs
<1> HIDE DEF V
<1>2. ASSUME NEW m \in TotalOver(V), Satisfies(m, A) PROVE FALSE
  <2> DEFINE M == Extended(m, V)
  <2> HIDE DEF A
  <2>1. Total(M) /\ Satisfies(M, A)
    BY <1>1, <1>2, ExtendedIs, ExtendedSatisfies
  <2> HIDE DEF M
  <2>2. Satisfies(M, added)
    BY <2>1 DEF Satisfies, A
  <2>3. QED
    BY <2>1, <2>2, MeaningIs
<1>3. QED
  BY <1>2 DEF ModelsOf, V

(* The file's models are the question's, renamed.                          *)
LEMMA FileModels ==
    ASSUME BaseInv, MeaningInv, ok, pc = "idle", NEW ask, Askable(ask)
    PROVE  ModelsOf(ToSet(LinesOf(FileMet(ask), ask)), 0 .. Len(FileMet(ask)) - 1)
             = {Printed(FileMet(ask), Restricted(m, FileVars(ask))) :
                   m \in ModelsOf(added \cup Units(ToSet(ask)), AskedVars(ask))}
<1> DEFINE met == FileMet(ask)
           K == FileVars(ask)
           F == FileClauses(ask)
           X == ModelsOf(added \cup Units(ToSet(ask)), AskedVars(ask))
           Y == ModelsOf(ToSet(LinesOf(met, ask)), 0 .. Len(met) - 1)
<1>1. met \in Seq(Nat) /\ Distinct(met) /\ ToSet(met) = K
  BY FileMetIs
<1>2. \A C \in F : \A p \in C : p \in Nat /\ var(p) \in K
  BY AskedIs
<1>3. ToSet(LinesOf(met, ask)) = {Printed(met, C) : C \in F}
  BY LinesAre
<1>4. (\A m \in X : Restricted(m, K) \in ModelsOf(F, K))
      /\ \A w \in ModelsOf(F, K) : \E m \in X : w = Restricted(m, K)
  BY AskedGivesFile, FileGivesAsked
<1> HIDE DEF met, K, F, X
<1>5. ModelsOf({Printed(met, C) : C \in F}, 0 .. Len(met) - 1)
        = {Printed(met, m) : m \in ModelsOf(F, K)}
  BY <1>1, <1>2, PrintedModels
<1>6. Y = {Printed(met, m) : m \in ModelsOf(F, K)}
  BY <1>3, <1>5
<1> HIDE DEF Y
<1>7. Y = {Printed(met, Restricted(m, K)) : m \in X}
  BY <1>4, <1>6
<1>8. QED
  BY <1>7 DEF met, K, X, Y

(* The header counts the variables of the clauses.                         *)
LEMMA HeaderIs ==
    ASSUME BaseInv, NEW ask, Askable(ask)
    PROVE  Len(ClauseMet)
             = Cardinality(FileVars(ask) \ (VarsOf(ToSet(ask)) \ VarsOf(ToSet(ClauseLits))))
<1>1. Len(ClauseMet) = Cardinality(VarsOf(ToSet(ClauseLits)))
  BY FileMetIs, DistinctSize
<1>2. FileVars(ask) = VarsOf(ToSet(ask)) \cup VarsOf(ToSet(ClauseLits))
  BY OpenClausesAre DEF FileVars
<1>3. FileVars(ask) \ (VarsOf(ToSet(ask)) \ VarsOf(ToSet(ClauseLits))) = VarsOf(ToSet(ClauseLits))
  BY <1>2
<1>4. QED
  BY <1>1, <1>3

(* What the question ask may answer, over its variables.                   *)
AskedModels(ask) == ModelsOf(added \cup Units(ToSet(ask)), AllVars \cup VarsOf(ToSet(ask)))

(* The file asks the question that the solver was asked last, with the     *)
(* clauses added since, whatever is passed to toDimacs.                    *)
LEMMA DumpOfQuestion ==
    ASSUME BaseInv, MeaningInv, pc = "idle", NEW as, Askable(assumptions)
    PROVE  Asks(toDimacs(as), assumptions)
<1> DEFINE file == toDimacs(as)
           printed(m) == {mapVar(file.met, p) : p \in {q \in m : var(q) \in ToSet(file.met)}}
           Y == ModelsOf(ToSet(file.lines), 0 .. Len(file.met) - 1)
<1>1. CASE ok
  <2>1. /\ file.vars = Len(ClauseMet) /\ file.count = Len(Unsatisfied) + Len(assumptions)
        /\ file.met = FileMet(assumptions)
        /\ file.lines = LinesOf(FileMet(assumptions), assumptions)
    BY <1>1, FileIs
  <2>2. ToSet(file.met) = FileVars(assumptions)
    BY <2>1, FileMetIs
  <2>3. Y = {Printed(FileMet(assumptions), Restricted(m, FileVars(assumptions))) :
                m \in AskedModels(assumptions)}
    BY <1>1, <2>1, FileModels DEF AskedModels, AskedVars
  <2>4. \A m : printed(m) = Printed(FileMet(assumptions), Restricted(m, FileVars(assumptions)))
    BY <2>1, <2>2, Zenon DEF Printed, Restricted
  <2>5. file.count = Len(file.lines)
    BY <2>1, LinesAre
  <2>6. file.vars = Cardinality(ToSet(file.met)
                                  \ (VarsOf(ToSet(assumptions)) \ VarsOf(ToSet(ClauseLits))))
    BY <2>1, <2>2, HeaderIs
  <2> HIDE DEF Y, printed
  <2>7. Y = {printed(m) : m \in AskedModels(assumptions)}
    BY <2>3, <2>4
  <2>8. QED
    BY <2>5, <2>6, <2>7, Zenon DEF Asks, AskedModels, Y, printed
<1>2. CASE ~ok
  <2>1. file.count = Len(file.lines) /\ Y = {}
    BY <1>2, RefutedFileIs
  <2>2. AskedModels(assumptions) = {}
    BY <1>2, NothingAsked DEF AskedModels, AskedVars
  <2> HIDE DEF Y, printed
  <2>3. Y = {printed(m) : m \in AskedModels(assumptions)}
    BY <2>1, <2>2
  <2>4. QED
    BY <1>2, <2>1, <2>3, Zenon DEF Asks, AskedModels, Y, printed
<1>3. QED
  BY <1>1, <1>2

(* The DIMACS file that is written between two questions is the last       *)
(* question with the clauses added since: renamed back, its models are     *)
(* those of all the clauses added and the last assumptions, whatever       *)
(* assumptions are passed (SolverProps' DumpIsTheLastQuestion).            *)
THEOREM DumpCorrect == Spec => []DumpIsTheLastQuestion
<1>1. BaseInv /\ MeaningInv => DumpIsTheLastQuestion
  <2> SUFFICES ASSUME BaseInv, MeaningInv, pc = "idle", ~AssertFails, NEW as \in Questions
               PROVE  Asks(toDimacs(as), assumptions)
    BY Zenon DEF DumpIsTheLastQuestion
  <2>1. assumptions \in Seq(Lits(AllVars)) /\ AllVars \in SUBSET Nat
    BY DEF BaseInv, VarsInv
  <2>2. Lits(AllVars) \subseteq Nat
    BY <2>1, LitsAre
  <2>3. assumptions \in Seq(Nat)
    BY <2>1, <2>2
  <2>4. Askable(assumptions)
    BY <2>3, Zenon DEF Askable, AssertFails
  <2>5. QED
    BY <2>4, DumpOfQuestion
<1>2. QED
  BY <1>1, BaseInvariant, MeaningInvariant, PTL

=============================================================================
