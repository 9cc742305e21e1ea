---------------------------- MODULE SolverProofs ----------------------------
(***************************************************************************)
(* The invariant of the solver's data structures, for every number of      *)
(* variables, all clauses and all questions the caller may have:           *)
(*   VarsInv     the variables, the heap, the assumptions                  *)
(*   DbInv       clauses, watch lists and reasons (ClauseProofs)           *)
(*   TrailOK     the trail, its levels, the reasons on it                  *)
(*   FlowInv     where the solver is and how far propagation has come      *)
(*   WalkInv     a visit of a watch list                                   *)
(*   ConflInv    a clause in conflict                                      *)
(*   ClientInv   what the caller has added                                 *)
(* Their conjunction BaseInv is inductive.                                 *)
(***************************************************************************)
EXTENDS ClauseProofs

(* What follows from the type of a trail.                                  *)
LEMMA TrailIs ==
    ASSUME NEW V, NEW t, NEW lim, TrailType(t, lim, V)
    PROVE  /\ t \in Seq(Lits(V)) /\ Len(t) \in Nat /\ DOMAIN t = 1 .. Len(t)
           /\ \A i \in 1 .. Len(t) : t[i] \in Lits(V)
           /\ \A p : p \in ToSet(t) <=> \E i \in 1 .. Len(t) : t[i] = p
           /\ \A i, j \in 1 .. Len(t) : var(t[i]) = var(t[j]) => i = j
           /\ lim \in Seq(Nat) /\ Len(lim) \in Nat /\ DOMAIN lim = 1 .. Len(lim)
           /\ \A k \in 1 .. Len(lim) : lim[k] \in Nat /\ lim[k] <= Len(t)
           /\ \A k, l \in 1 .. Len(lim) : k <= l => lim[k] <= lim[l]
<1>1. /\ t \in Seq(Lits(V)) /\ Len(t) \in Nat /\ DOMAIN t = 1 .. Len(t)
      /\ lim \in Seq(Nat) /\ Len(lim) \in Nat /\ DOMAIN lim = 1 .. Len(lim)
  BY DEF TrailType
<1>2. \A p : p \in ToSet(t) <=> \E i \in 1 .. Len(t) : t[i] = p
  BY <1>1, Zenon DEF ToSet
<1>3. \A i \in 1 .. Len(t) : t[i] \in Lits(V)
  BY <1>1
<1>4. \A k \in 1 .. Len(lim) : lim[k] \in Nat /\ lim[k] <= Len(t)
  BY <1>1 DEF TrailType
<1>5. QED
  BY <1>1, <1>2, <1>3, <1>4 DEF TrailType

(* s begins t.                                                             *)
Begins(s, t) == Len(s) <= Len(t) /\ \A i \in 1 .. Len(s) : s[i] = t[i]

(* The trail and its levels when all but l levels are undone.              *)
Cut(t, lim, V, l, s, k) ==
    /\ TrailType(s, k, V)
    /\ Begins(s, t) /\ Begins(k, lim)
    /\ Len(s) = lim[l + 1] /\ Len(k) = l

(* cancelUntil's shrinking leaves a prefix of the trail that is a trail.   *)
LEMMA CutIs ==
    ASSUME NEW V, NEW t, NEW lim, TrailType(t, lim, V), NEW l \in 0 .. Len(lim) - 1,
           NEW s, s = SubSeq(t, 1, lim[l + 1]), NEW k, k = SubSeq(lim, 1, l)
    PROVE  Cut(t, lim, V, l, s, k)
<1>1. /\ t \in Seq(Lits(V)) /\ Len(t) \in Nat /\ DOMAIN t = 1 .. Len(t)
      /\ \A i, j \in 1 .. Len(t) : var(t[i]) = var(t[j]) => i = j
      /\ lim \in Seq(Nat) /\ Len(lim) \in Nat /\ DOMAIN lim = 1 .. Len(lim)
      /\ \A i \in 1 .. Len(lim) : lim[i] \in Nat /\ lim[i] <= Len(t)
      /\ \A i, j \in 1 .. Len(lim) : i <= j => lim[i] <= lim[j]
  BY DEF TrailType
<1>2. l + 1 \in 1 .. Len(lim) /\ l \in Nat
  BY <1>1
<1> DEFINE m == lim[l + 1]
<1>3. m \in Nat /\ m <= Len(t)
  BY <1>1, <1>2
<1>4. s \in Seq(Lits(V)) /\ Len(s) = m /\ \A i \in 1 .. m : s[i] = t[i]
  BY <1>1, <1>3
<1>5. k \in Seq(Nat) /\ Len(k) = l /\ \A i \in 1 .. l : k[i] = lim[i]
  BY <1>1, <1>2
<1> HIDE DEF m
<1>6. \A i \in 1 .. m : i \in 1 .. Len(t)
  BY <1>1, <1>3
<1>7. \A i \in 1 .. l : i \in 1 .. Len(lim) /\ lim[i] <= m
  <2>1. \A i \in 1 .. l : i \in 1 .. Len(lim) /\ i <= l + 1
    BY <1>1, <1>2
  <2>2. QED
    BY <1>1, <1>2, <2>1 DEF m
<1>8. TrailType(s, k, V)
  <2>1. \A i, j \in 1 .. Len(s) : var(s[i]) = var(s[j]) => i = j
    BY <1>1, <1>4, <1>6
  <2>2. \A i \in 1 .. Len(k) : k[i] <= Len(s)
    BY <1>4, <1>5, <1>7
  <2>3. \A i, j \in 1 .. Len(k) : i <= j => k[i] <= k[j]
    BY <1>1, <1>5, <1>7
  <2>4. QED
    BY <1>4, <1>5, <2>1, <2>2, <2>3 DEF TrailType
<1>9. Len(s) <= Len(t) /\ Len(k) <= Len(lim)
  BY <1>1, <1>2, <1>3, <1>4, <1>5
<1>10. QED
  BY <1>4, <1>5, <1>8, <1>9 DEF Cut, Begins, m

(* What is left of a trail keeps its reasons and its decisions.            *)
LEMMA BeginsReasons ==
    ASSUME NEW V, NEW t, NEW lim, TrailType(t, lim, V), NEW s, NEW k, TrailType(s, k, V),
           Begins(s, t), NEW d, ReasonInv(d, t)
    PROVE  ReasonInv(d, s)
<1>1. Len(s) \in Nat /\ Len(t) \in Nat
  BY TrailIs
<1>2. \A i \in 1 .. Len(s) : i \in 1 .. Len(t) /\ s[i] = t[i]
  BY <1>1 DEF Begins
<1> SUFFICES ASSUME NEW i \in 1 .. Len(s), NEW r, r = d.reason[var(s[i])], r # CRef_Undef
             PROVE  /\ r \in live(d) /\ lits(d, r)[1] = s[i]
                    /\ \A h \in 2 .. Len(lits(d, r)) : \E j \in 1 .. i - 1 : s[j] = neg(lits(d, r)[h])
  BY DEF ReasonInv
<1>3. /\ r \in live(d) /\ lits(d, r)[1] = t[i]
      /\ \A h \in 2 .. Len(lits(d, r)) : \E j \in 1 .. i - 1 : t[j] = neg(lits(d, r)[h])
  BY <1>2 DEF ReasonInv
<1>4. \A j \in 1 .. i - 1 : s[j] = t[j]
  <2>1. \A j \in 1 .. i - 1 : j \in 1 .. Len(s)
    BY <1>1
  <2>2. QED
    BY <1>2, <2>1
<1>5. QED
  BY <1>2, <1>3, <1>4

(* The decisions of the levels that stay stay decisions.                   *)
LEMMA CutDecisions ==
    ASSUME NEW V, NEW t, NEW lim, TrailType(t, lim, V), NEW l \in 0 .. Len(lim) - 1,
           NEW s, NEW k, Cut(t, lim, V, l, s, k), NEW d, DecisionInv(d, t, lim)
    PROVE  DecisionInv(d, s, k)
<1>1. /\ Len(t) \in Nat /\ Len(lim) \in Nat
      /\ \A i \in 1 .. Len(lim) : lim[i] \in Nat /\ lim[i] <= Len(t)
      /\ \A i, j \in 1 .. Len(lim) : i <= j => lim[i] <= lim[j]
  BY TrailIs
<1>2. l + 1 \in 1 .. Len(lim) /\ l \in Nat /\ Len(k) = l /\ Len(s) = lim[l + 1]
  BY <1>1 DEF Cut
<1>3. \A i \in 1 .. Len(s) : i \in 1 .. Len(t) /\ s[i] = t[i]
  BY <1>1, <1>2 DEF Cut, Begins
<1>4. \A i \in 1 .. l : i \in 1 .. Len(lim) /\ k[i] = lim[i]
  BY <1>1, <1>2 DEF Cut, Begins
<1> SUFFICES ASSUME NEW i \in 1 .. Len(s), d.reason[var(s[i])] = CRef_Undef,
                    NEW x \in 1 .. l, k[x] < i
             PROVE  \E y \in 1 .. l : k[y] + 1 = i
  BY <1>2 DEF DecisionInv
<1>5. PICK y \in 1 .. Len(lim) : lim[y] + 1 = i
  BY <1>3, <1>4 DEF DecisionInv
<1>6. y <= l
  <2>1. CASE y >= l + 1
    <3>1. lim[l + 1] <= lim[y]
      BY <1>1, <1>2, <2>1
    <3>2. QED
      BY <1>1, <1>2, <1>5, <3>1
  <2>2. QED
    BY <1>1, <1>2, <2>1
<1>7. QED
  BY <1>1, <1>2, <1>4, <1>5, <1>6

(* One more assignment at the end.                                         *)
LEMMA Pushed ==
    ASSUME NEW V, NEW t, NEW lim, TrailType(t, lim, V), NEW p \in Lits(V),
           \A i \in 1 .. Len(t) : var(t[i]) # var(p), NEW s, s = Append(t, p)
    PROVE  TrailType(s, lim, V) /\ Begins(t, s) /\ Len(s) = Len(t) + 1 /\ s[Len(t) + 1] = p
<1>1. /\ t \in Seq(Lits(V)) /\ Len(t) \in Nat
      /\ \A i, j \in 1 .. Len(t) : var(t[i]) = var(t[j]) => i = j
      /\ lim \in Seq(Nat) /\ Len(lim) \in Nat
      /\ \A i \in 1 .. Len(lim) : lim[i] \in Nat /\ lim[i] <= Len(t)
      /\ \A i, j \in 1 .. Len(lim) : i <= j => lim[i] <= lim[j]
  BY TrailIs
<1>2. /\ s \in Seq(Lits(V)) /\ Len(s) = Len(t) + 1 /\ s[Len(t) + 1] = p
      /\ \A i \in 1 .. Len(t) : s[i] = t[i]
  BY <1>1
<1>3. ASSUME NEW i \in 1 .. Len(s), NEW j \in 1 .. Len(s), var(s[i]) = var(s[j]) PROVE i = j
  <2>1. (i \in 1 .. Len(t) \/ i = Len(t) + 1) /\ (j \in 1 .. Len(t) \/ j = Len(t) + 1)
    BY <1>1, <1>2
  <2>2. QED
    BY <1>1, <1>2, <1>3, <2>1
<1>4. \A i \in 1 .. Len(lim) : lim[i] <= Len(s)
  BY <1>1, <1>2
<1>5. TrailType(s, lim, V)
  BY <1>1, <1>2, <1>3, <1>4 DEF TrailType
<1>6. QED
  BY <1>1, <1>2, <1>5 DEF Begins

(* The reasons do not depend on how the database stores the clauses.       *)
LEMMA ReasonsKept ==
    ASSUME NEW V, NEW t, NEW lim, TrailType(t, lim, V), NEW d, ReasonInv(d, t),
           NEW e, \A i \in 1 .. Len(t) :
                    /\ e.reason[var(t[i])] = d.reason[var(t[i])]
                    /\ d.reason[var(t[i])] # CRef_Undef =>
                         /\ d.reason[var(t[i])] \in live(e)
                         /\ lits(e, d.reason[var(t[i])]) = lits(d, d.reason[var(t[i])])
    PROVE  /\ ReasonInv(e, t)
           /\ DecisionInv(d, t, lim) => DecisionInv(e, t, lim)
<1>1. ReasonInv(e, t)
  BY DEF ReasonInv
<1>2. DecisionInv(d, t, lim) => DecisionInv(e, t, lim)
  BY DEF DecisionInv
<1>3. QED
  BY <1>1, <1>2

(* The assignment at the end has its reason r, or none.                    *)
LEMMA ReasonsPushed ==
    ASSUME NEW V, NEW t, NEW lim, TrailType(t, lim, V), NEW p, NEW s, Begins(t, s),
           Len(s) = Len(t) + 1, s[Len(t) + 1] = p,
           NEW d, ReasonInv(d, t),
           d.reason[var(p)] # CRef_Undef =>
              /\ d.reason[var(p)] \in live(d) /\ lits(d, d.reason[var(p)])[1] = p
              /\ \A k \in 2 .. Len(lits(d, d.reason[var(p)])) :
                   neg(lits(d, d.reason[var(p)])[k]) \in ToSet(t)
    PROVE  ReasonInv(d, s)
<1>1. Len(t) \in Nat /\ \A q : q \in ToSet(t) <=> \E i \in 1 .. Len(t) : t[i] = q
  BY TrailIs
<1>2. \A i \in 1 .. Len(t) : s[i] = t[i]
  BY DEF Begins
<1> SUFFICES ASSUME NEW i \in 1 .. Len(s), NEW r, r = d.reason[var(s[i])], r # CRef_Undef
             PROVE  /\ r \in live(d) /\ lits(d, r)[1] = s[i]
                    /\ \A h \in 2 .. Len(lits(d, r)) : \E j \in 1 .. i - 1 : s[j] = neg(lits(d, r)[h])
  BY DEF ReasonInv
<1>3. CASE i \in 1 .. Len(t)
  <2>1. /\ r \in live(d) /\ lits(d, r)[1] = t[i]
        /\ \A h \in 2 .. Len(lits(d, r)) : \E j \in 1 .. i - 1 : t[j] = neg(lits(d, r)[h])
    BY <1>2, <1>3 DEF ReasonInv
  <2>2. \A j \in 1 .. i - 1 : j \in 1 .. Len(t)
    BY <1>1, <1>3
  <2>3. QED
    BY <1>2, <1>3, <2>1, <2>2
<1>4. CASE i = Len(t) + 1
  <2>1. /\ r \in live(d) /\ lits(d, r)[1] = s[i]
        /\ \A h \in 2 .. Len(lits(d, r)) : neg(lits(d, r)[h]) \in ToSet(t)
    BY <1>4
  <2>2. i - 1 = Len(t)
    BY <1>1, <1>4
  <2>3. QED
    BY <1>1, <1>2, <2>1, <2>2
<1>5. QED
  BY <1>1, <1>3, <1>4

(* So does the decision that begins a level, or an assignment with a       *)
(* reason, or any assignment at the root.                                  *)
LEMMA DecisionsPushed ==
    ASSUME NEW V, NEW t, NEW lim, TrailType(t, lim, V), NEW p, NEW s, Begins(t, s),
           Len(s) = Len(t) + 1, s[Len(t) + 1] = p,
           NEW d, DecisionInv(d, t, lim),
           \/ d.reason[var(p)] # CRef_Undef
           \/ Len(lim) = 0
           \/ Len(lim) >= 1 /\ lim[Len(lim)] = Len(t)
    PROVE  DecisionInv(d, s, lim)
<1>1. Len(t) \in Nat /\ Len(lim) \in Nat
  BY TrailIs
<1>2. \A i \in 1 .. Len(t) : s[i] = t[i]
  BY DEF Begins
<1> SUFFICES ASSUME NEW i \in 1 .. Len(s), d.reason[var(s[i])] = CRef_Undef,
                    NEW x \in 1 .. Len(lim), lim[x] < i
             PROVE  \E y \in 1 .. Len(lim) : lim[y] + 1 = i
  BY DEF DecisionInv
<1>3. CASE i \in 1 .. Len(t)
  BY <1>2, <1>3 DEF DecisionInv
<1>4. CASE i = Len(t) + 1
  <2>1. Len(lim) >= 1 /\ lim[Len(lim)] = Len(t)
    BY <1>1, <1>4
  <2>2. Len(lim) \in 1 .. Len(lim)
    BY <1>1, <2>1
  <2>3. QED
    BY <1>4, <2>1, <2>2
<1>5. QED
  BY <1>1, <1>3, <1>4

(* A level begins at the end of the trail.                                 *)
LEMMA LevelPushed ==
    ASSUME NEW V, NEW t, NEW lim, TrailType(t, lim, V), NEW k, k = Append(lim, Len(t)),
           NEW d, DecisionInv(d, t, lim)
    PROVE  TrailType(t, k, V) /\ DecisionInv(d, t, k) /\ Len(k) = Len(lim) + 1
           /\ k[Len(k)] = Len(t)
<1>1. /\ t \in Seq(Lits(V)) /\ Len(t) \in Nat
      /\ \A i, j \in 1 .. Len(t) : var(t[i]) = var(t[j]) => i = j
      /\ lim \in Seq(Nat) /\ Len(lim) \in Nat
      /\ \A i \in 1 .. Len(lim) : lim[i] \in Nat /\ lim[i] <= Len(t)
      /\ \A i, j \in 1 .. Len(lim) : i <= j => lim[i] <= lim[j]
  BY TrailIs
<1>2. /\ k \in Seq(Nat) /\ Len(k) = Len(lim) + 1 /\ k[Len(lim) + 1] = Len(t)
      /\ \A i \in 1 .. Len(lim) : k[i] = lim[i]
  BY <1>1
<1>3. \A i \in 1 .. Len(k) : i \in 1 .. Len(lim) \/ i = Len(lim) + 1
  BY <1>1, <1>2
<1>4. \A i \in 1 .. Len(k) : k[i] \in Nat /\ k[i] <= Len(t)
  BY <1>1, <1>2, <1>3
<1>5. ASSUME NEW i \in 1 .. Len(k), NEW j \in 1 .. Len(k), i <= j PROVE k[i] <= k[j]
  <2>1. CASE j \in 1 .. Len(lim)
    <3>1. i \in 1 .. Len(lim)
      BY <1>1, <1>5, <2>1
    <3>2. QED
      BY <1>1, <1>2, <1>5, <2>1, <3>1
  <2>2. CASE j = Len(lim) + 1
    BY <1>2, <1>4, <2>2
  <2>3. QED
    BY <1>3, <2>1, <2>2
<1>6. TrailType(t, k, V)
  BY <1>1, <1>2, <1>4, <1>5 DEF TrailType
<1>7. DecisionInv(d, t, k)
  <2> SUFFICES ASSUME NEW i \in 1 .. Len(t), d.reason[var(t[i])] = CRef_Undef,
                      NEW x \in 1 .. Len(k), k[x] < i
               PROVE  \E y \in 1 .. Len(k) : k[y] + 1 = i
    BY DEF DecisionInv
  <2>1. x \in 1 .. Len(lim) /\ lim[x] < i
    BY <1>1, <1>2, <1>3
  <2>2. PICK y \in 1 .. Len(lim) : lim[y] + 1 = i
    BY <2>1 DEF DecisionInv
  <2>3. y \in 1 .. Len(k) /\ k[y] = lim[y]
    BY <1>1, <1>2
  <2>4. QED
    BY <2>2, <2>3
<1>8. QED
  BY <1>1, <1>2, <1>6, <1>7

-----------------------------------------------------------------------------
(* What holds at n and passes from i + 1 to i holds down to 0.             *)
LEMMA Descent ==
    ASSUME NEW n \in Nat, NEW G, n \in G, \A i \in 0 .. n - 1 : i + 1 \in G => i \in G
    PROVE  \A i \in 0 .. n : i \in G
<1> DEFINE Bad == {k \in 0 .. n : n - k \notin G}
<1> SUFFICES ASSUME NEW i \in 0 .. n, i \notin G PROVE FALSE
  OBVIOUS
<1>1. Bad \in SUBSET Nat /\ n - i \in Bad
  <2>1. n - i \in 0 .. n /\ n - (n - i) = i
    OBVIOUS
  <2>2. QED
    BY <2>1
<1>2. PICK t \in Bad : \A u \in Bad : t <= u
  BY <1>1, Least
<1>3. t \in 0 .. n /\ n - t \notin G
  BY <1>2
<1>4. t # 0
  BY <1>3
<1>5. t - 1 \in 0 .. n /\ ~(t <= t - 1)
  BY <1>3, <1>4
<1>6. n - (t - 1) \in G
  BY <1>2, <1>5
<1>7. n - t \in 0 .. n - 1 /\ n - t + 1 = n - (t - 1)
  BY <1>3, <1>4
<1>8. QED
  BY <1>3, <1>6, <1>7

(* One step of the walk down the trail, at the position i.                 *)
WalkStep(i, S) ==
    LET v == var(trail[i])
        open == {u \in S : level(u) = decisionLevel}
    IN  IF v \in S /\ Cardinality(open) > 1
        THEN (S \ {v}) \cup VarsOf(Antecedents(v)) ELSE S

WalkStart == {v \in VarsOf(ToSet(lits(db, confl))) : level(v) > 0}

(* Seen is what the walk finds.                                            *)
LEMMA SeenIs ==
    ASSUME Len(trail) \in Nat
    PROVE  /\ Seen[Len(trail)] = WalkStart
           /\ \A i \in 0 .. Len(trail) - 1 : Seen[i] = WalkStep(i + 1, Seen[i + 1])
<1> DEFINE n == Len(trail)
           F(f) == [i \in 0 .. n |-> IF i = n THEN WalkStart ELSE WalkStep(i + 1, f[i + 1])]
           Partial(i, f) == /\ f = [j \in i .. n |-> f[j]] /\ f[n] = WalkStart
                            /\ \A j \in i .. n - 1 : f[j] = WalkStep(j + 1, f[j + 1])
           G == {i \in 0 .. n : \E f : Partial(i, f)}
<1>1. Seen = CHOOSE f : f = F(f)
  BY Zenon DEF Seen, WalkStart, WalkStep
<1>2. \E f : f = F(f)
  <2>1. n \in G
    <3> DEFINE f == [i \in n .. n |-> WalkStart]
    <3>1. Partial(n, f)
      OBVIOUS
    <3>2. \E h : Partial(n, h)
      BY <3>1
    <3> HIDE DEF Partial
    <3>3. QED
      BY <3>2
  <2>2. ASSUME NEW i \in 0 .. n - 1, i + 1 \in G PROVE i \in G
    <3>1. PICK f : Partial(i + 1, f)
      BY <2>2
    <3> DEFINE e == WalkStep(i + 1, f[i + 1])
               h == [j \in i .. n |-> IF j = i THEN e ELSE f[j]]
    <3> HIDE DEF e
    <3>2. DOMAIN h = i .. n /\ h[i] = e /\ \A j \in i + 1 .. n : h[j] = f[j]
      OBVIOUS
    <3> HIDE DEF h
    <3>3. h[n] = WalkStart
      BY <3>1, <3>2
    <3>4. ASSUME NEW j \in i .. n - 1 PROVE h[j] = WalkStep(j + 1, h[j + 1])
      <4>1. j + 1 \in i + 1 .. n /\ h[j + 1] = f[j + 1]
        BY <3>2
      <4>2. CASE j = i
        BY <3>2, <4>1, <4>2 DEF e
      <4>3. CASE j # i
        <5>1. j \in i + 1 .. n - 1 /\ j \in i + 1 .. n
          BY <4>3
        <5>2. f[j] = WalkStep(j + 1, f[j + 1]) /\ h[j] = f[j]
          BY <3>1, <3>2, <5>1
        <5>3. QED
          BY <4>1, <5>2
      <4>4. QED
        BY <4>2, <4>3
    <3>5. Partial(i, h)
      <4>1. h = [j \in i .. n |-> h[j]]
        BY DEF h
      <4>2. QED
        BY <3>3, <3>4, <4>1
    <3> HIDE DEF Partial
    <3>6. QED
      BY <3>5
  <2> HIDE DEF Partial, G
  <2>3. 0 \in G
    BY <2>1, <2>2, Descent
  <2>4. PICK f : Partial(0, f)
    BY <2>3 DEF G
  <2>5. f = F(f)
    <3>0. f = [i \in 0 .. n |-> f[i]]
      BY <2>4, Zenon DEF Partial
    <3>1. f[n] = WalkStart /\ \A j \in 0 .. n - 1 : f[j] = WalkStep(j + 1, f[j + 1])
      BY <2>4, Zenon DEF Partial
    <3>2. \A i \in 0 .. n : f[i] = IF i = n THEN WalkStart ELSE WalkStep(i + 1, f[i + 1])
      BY <3>1
    <3>3. [i \in 0 .. n |-> f[i]] = F(f)
      BY <3>2
    <3> HIDE DEF F
    <3>4. QED
      BY <3>0, <3>3, Zenon
  <2>6. QED
    BY <2>5
<1> HIDE DEF F
<1>3. Seen = F(Seen)
  BY <1>1, <1>2
<1>4. Seen = [i \in 0 .. n |-> IF i = n THEN WalkStart ELSE WalkStep(i + 1, Seen[i + 1])]
  BY <1>3 DEF F
<1>5. n \in 0 .. n /\ \A i \in 0 .. n - 1 : i \in 0 .. n /\ i # n
  OBVIOUS
<1>6. Seen[n] = WalkStart
  BY <1>4, <1>5
<1>7. ASSUME NEW i \in 0 .. n - 1 PROVE Seen[i] = WalkStep(i + 1, Seen[i + 1])
  BY <1>4, <1>5
<1>8. QED
  BY <1>6, <1>7

-----------------------------------------------------------------------------
(* What f takes the first n numbers to is finite.                          *)
LEMMA ImageIsFinite ==
    ASSUME NEW n \in Nat, NEW f, NEW R, \A x \in R : \E j \in 1 .. n : f[j] = x
    PROVE  IsFiniteSet(R)
<1> DEFINE P == {j \in 1 .. n : f[j] \in R}
           g == [j \in P |-> f[j]]
<1>1. IsFiniteSet(1 .. n)
  BY FS_Interval
<1>2. IsFiniteSet(P)
  BY <1>1, FS_Subset
<1>3. g \in [P -> R] /\ \A x \in R : \E j \in P : g[j] = x
  OBVIOUS
<1>4. g \in Surjection(P, R)
  BY <1>3, Zenon DEF Surjection
<1> HIDE DEF P, g
<1>5. QED
  BY <1>2, <1>4, FS_Surjection

(* What analyze() relies on: the conflicting clause is false, one of its   *)
(* literals since the last decision.                                       *)
ConflictInv ==
    /\ confl \in live(db)
    /\ \A q \in ToSet(lits(db, confl)) : IsFalse(q)
    /\ Len(trail_lim) >= 1 =>
         \E i \in 1 .. Len(trail) : /\ trail_lim[Len(trail_lim)] < i
                                    /\ neg(trail[i]) \in ToSet(lits(db, confl))

CanAnalyze(V) ==
    /\ V \in SUBSET Nat
    /\ DbType(db, V)
    /\ TrailType(trail, trail_lim, V)
    /\ ReasonInv(db, trail)
    /\ DecisionInv(db, trail, trail_lim)
    /\ Len(trail_lim) >= 1
    /\ ConflictInv

(* The position j is above the root, the last decision at the latest.      *)
AboveRoot(j) == trail_lim[1] < j
OnTop(j) == trail_lim[Len(trail_lim)] < j

(* Two assigned literals of the last level have their variables in S.      *)
TwoOpen(S) ==
    \E j, k \in 1 .. Len(trail) :
        j # k /\ OnTop(j) /\ OnTop(k) /\ var(trail[j]) \in S /\ var(trail[k]) \in S

(* What the walk has seen when it is at the position i.                    *)
SeenOK(i, S) ==
    /\ \A v \in S : \E j \in 1 .. Len(trail) : AboveRoot(j) /\ var(trail[j]) = v
    /\ \E j \in 1 .. Len(trail) : OnTop(j) /\ var(trail[j]) \in S
    /\ TwoOpen(S) => \A j \in 1 .. Len(trail) : OnTop(j) /\ var(trail[j]) \in S => j <= i

(* The levels of the literals of a trail that has a decision.              *)
LEMMA LevelsAre ==
    ASSUME NEW V, TrailType(trail, trail_lim, V), Len(trail_lim) >= 1, NEW j \in 1 .. Len(trail)
    PROVE  /\ level(var(trail[j])) > 0 <=> AboveRoot(j)
           /\ level(var(trail[j])) = decisionLevel <=> OnTop(j)
           /\ level(var(trail[j])) \in 0 .. decisionLevel
           /\ OnTop(j) => AboveRoot(j)
<1>1. /\ Len(trail_lim) \in Nat
      /\ \A k \in 1 .. Len(trail_lim) : trail_lim[k] \in Nat
      /\ \A k, l \in 1 .. Len(trail_lim) : k <= l => trail_lim[k] <= trail_lim[l]
  BY TrailIs
<1>2. /\ level(var(trail[j])) \in 0 .. Len(trail_lim)
      /\ \A k \in 1 .. Len(trail_lim) : k <= level(var(trail[j])) <=> trail_lim[k] < j
  BY LevelIs
<1>3. 1 \in 1 .. Len(trail_lim) /\ Len(trail_lim) \in 1 .. Len(trail_lim)
  BY <1>1
<1>4. trail_lim[1] <= trail_lim[Len(trail_lim)] /\ trail_lim[1] \in Nat /\ trail_lim[Len(trail_lim)] \in Nat
  BY <1>1, <1>3
<1>5. 1 <= level(var(trail[j])) <=> trail_lim[1] < j
  BY <1>2, <1>3
<1>6. Len(trail_lim) <= level(var(trail[j])) <=> trail_lim[Len(trail_lim)] < j
  BY <1>2, <1>3
<1>7. QED
  BY <1>1, <1>2, <1>4, <1>5, <1>6 DEF AboveRoot, OnTop, decisionLevel

(* The walk goes on while two variables of the last level are open.        *)
LEMMA OpenIs ==
    ASSUME NEW V, TrailType(trail, trail_lim, V), Len(trail_lim) >= 1, NEW S,
           \A v \in S : \E j \in 1 .. Len(trail) : AboveRoot(j) /\ var(trail[j]) = v
    PROVE  Cardinality({u \in S : level(u) = decisionLevel}) > 1 <=> TwoOpen(S)
<1> DEFINE n == Len(trail)
           Open == {u \in S : level(u) = decisionLevel}
           f == [j \in 1 .. n |-> var(trail[j])]
<1>1. n \in Nat /\ \A i, j \in 1 .. n : var(trail[i]) = var(trail[j]) => i = j
  BY TrailIs
<1>2. \A u : u \in Open <=> \E j \in 1 .. n : OnTop(j) /\ var(trail[j]) = u /\ u \in S
  <2>1. ASSUME NEW u \in Open PROVE \E j \in 1 .. n : OnTop(j) /\ var(trail[j]) = u /\ u \in S
    <3>1. PICK j \in 1 .. n : var(trail[j]) = u
      OBVIOUS
    <3>2. OnTop(j)
      BY <3>1, LevelsAre
    <3>3. QED
      BY <3>1, <3>2
  <2>2. ASSUME NEW j \in 1 .. n, OnTop(j), var(trail[j]) \in S PROVE var(trail[j]) \in Open
    BY <2>2, LevelsAre
  <2>3. QED
    BY <2>1, <2>2
<1>3. IsFiniteSet(Open)
  <2>2. \A j \in 1 .. n : f[j] = var(trail[j])
    OBVIOUS
  <2> HIDE DEF f, Open
  <2>3. \A u \in Open : \E j \in 1 .. n : f[j] = u
    BY <1>2, <2>2
  <2>4. QED
    BY <1>1, <2>3, ImageIsFinite
<1> HIDE DEF Open
<1>4. Cardinality(Open) \in Nat
  BY <1>3, FS_CardinalityType
<1>5. ASSUME Cardinality(Open) > 1 PROVE TwoOpen(S)
  <2>1. Open # {}
    BY <1>4, <1>5, FS_EmptySet
  <2>2. PICK u \in Open : TRUE
    BY <2>1
  <2>3. Cardinality({u}) = 1
    BY FS_Singleton, Zenon
  <2>4. Open # {u}
    <3>1. Cardinality(Open) # 1
      BY <1>4, <1>5
    <3>2. QED
      BY <2>3, <3>1, Zenon
  <2>5. PICK w \in Open : w # u
    BY <2>2, <2>4
  <2>6. PICK j \in 1 .. n : OnTop(j) /\ var(trail[j]) = u /\ u \in S
    BY <1>2, <2>2
  <2>7. PICK k \in 1 .. n : OnTop(k) /\ var(trail[k]) = w /\ w \in S
    BY <1>2, <2>5
  <2>8. j # k
    BY <2>5, <2>6, <2>7
  <2>9. QED
    BY <2>6, <2>7, <2>8, Zenon DEF TwoOpen
<1>6. ASSUME TwoOpen(S) PROVE Cardinality(Open) > 1
  <2>1. PICK j, k \in 1 .. n :
           j # k /\ OnTop(j) /\ OnTop(k) /\ var(trail[j]) \in S /\ var(trail[k]) \in S
    BY <1>6, Zenon DEF TwoOpen
  <2>2. var(trail[j]) \in Open /\ var(trail[k]) \in Open /\ var(trail[j]) # var(trail[k])
    BY <1>1, <1>2, <2>1
  <2> DEFINE u == var(trail[j])
             w == var(trail[k])
  <2>3. {u} \subseteq Open /\ {u} # Open
    BY <2>2
  <2>4. Cardinality({u}) = 1
    BY FS_Singleton, Zenon
  <2>5. Cardinality({u}) <= Cardinality(Open) /\ Cardinality({u}) # Cardinality(Open)
    <3> HIDE DEF u
    <3>1. QED
      BY <1>3, <2>3, FS_Subset
  <2>6. QED
    BY <1>4, <2>4, <2>5
<1>7. QED
  BY <1>5, <1>6 DEF Open

(* The reason of an assignment, and the literals that it leads to.         *)
ReasonOf(i, r) ==
    /\ r = db.reason[var(trail[i])] /\ r # CRef_Undef
    /\ r \in live(db) /\ lits(db, r)[1] = trail[i]
    /\ \A q : q \in ToSet(lits(db, r)) <=> q = trail[i] \/ q \in ToSet(Tail(lits(db, r)))
    /\ \A q \in ToSet(Tail(lits(db, r))) : q \in Nat /\ \E j \in 1 .. i - 1 : trail[j] = neg(q)
    /\ \A q : q \in Antecedents(var(trail[i])) <=>
         q \in ToSet(Tail(lits(db, r))) /\ \E j \in 1 .. i - 1 : trail[j] = neg(q) /\ AboveRoot(j)

(* A reference in the reason of an assigned variable is that of its        *)
(* reason, and the first literal aside its literals are false before.      *)
LEMMA ReasonIsOne ==
    ASSUME NEW V \in SUBSET Nat, DbType(db, V), TrailType(trail, trail_lim, V), ReasonInv(db, trail),
           Len(trail_lim) >= 1,
           NEW i \in 1 .. Len(trail), NEW r, r = db.reason[var(trail[i])], r # CRef_Undef
    PROVE  ReasonOf(i, r)
<1> DEFINE c == lits(db, r)
           n == Len(trail)
<1>1. n \in Nat /\ (\A j \in 1 .. n : trail[j] \in Lits(V))
      /\ \A j, k \in 1 .. n : var(trail[j]) = var(trail[k]) => j = k
  BY TrailIs
<1>2. /\ r \in live(db) /\ c[1] = trail[i]
      /\ \A k \in 2 .. Len(c) : \E j \in 1 .. i - 1 : trail[j] = neg(c[k])
  BY DEF ReasonInv
<1>3. c \in Seq(Lits(V)) /\ Len(c) \in Nat /\ Len(c) >= 2
  BY <1>2, LiveIs, ClauseIs
<1> HIDE DEF c
<1>4. \A q : q \in ToSet(Tail(c)) <=> \E k \in 2 .. Len(c) : c[k] = q
  <2>1. Len(c) >= 1
    BY <1>3
  <2>2. QED
    BY <1>3, <2>1, ToSetTail
<1>5. \A q : q \in ToSet(c) <=> \E k \in 1 .. Len(c) : c[k] = q
  <2>1. DOMAIN c = 1 .. Len(c)
    BY <1>3
  <2>2. QED
    BY <2>1, Zenon DEF ToSet
<1>6. \A q : q \in ToSet(c) <=> q = trail[i] \/ q \in ToSet(Tail(c))
  <2>1. \A k : k \in 1 .. Len(c) <=> k = 1 \/ k \in 2 .. Len(c)
    BY <1>3
  <2>2. QED
    BY <1>2, <1>4, <1>5, <2>1
<1>7. \A q \in ToSet(Tail(c)) : q \in Nat /\ \E j \in 1 .. i - 1 : trail[j] = neg(q)
  <2>1. ASSUME NEW q \in ToSet(Tail(c)) PROVE q \in Nat /\ \E j \in 1 .. i - 1 : trail[j] = neg(q)
    <3>1. PICK k \in 2 .. Len(c) : c[k] = q
      BY <1>4
    <3>2. q \in Lits(V)
      BY <1>3, <3>1
    <3>3. QED
      BY <1>2, <3>1, <3>2, LitsAre
  <2>2. QED
    BY <2>1
<1>8. ASSUME NEW q PROVE q \in Antecedents(var(trail[i])) <=>
         q \in ToSet(Tail(c)) /\ \E j \in 1 .. i - 1 : trail[j] = neg(q) /\ AboveRoot(j)
  <2>1. q \in Antecedents(var(trail[i])) <=> q \in ToSet(Tail(c)) /\ level(var(q)) > 0
    BY DEF Antecedents, c
  <2>2. ASSUME NEW j \in 1 .. i - 1, q \in ToSet(Tail(c)), trail[j] = neg(q)
        PROVE  level(var(q)) > 0 <=> AboveRoot(j)
    <3>1. j \in 1 .. n
      BY <1>1
    <3>2. q \in Nat /\ var(neg(q)) = var(q)
      BY <1>7, <2>2, Negation DEF Literal
    <3>3. QED
      BY <2>2, <3>1, <3>2, LevelsAre
  <2>3. QED
    BY <1>7, <2>1, <2>2
<1>9. QED
  BY <1>2, <1>6, <1>7, <1>8 DEF ReasonOf, c

-----------------------------------------------------------------------------
(* What analyze() relies on, by name.                                      *)
LEMMA AnalyzeIs ==
    ASSUME NEW V, CanAnalyze(V)
    PROVE  /\ V \in SUBSET Nat /\ DbType(db, V) /\ TrailType(trail, trail_lim, V)
           /\ ReasonInv(db, trail) /\ DecisionInv(db, trail, trail_lim)
           /\ Len(trail_lim) >= 1 /\ Len(trail_lim) \in Nat
           /\ Len(trail) \in Nat /\ \A j \in 1 .. Len(trail) : trail[j] \in Lits(V) /\ trail[j] \in Nat
           /\ \A j, k \in 1 .. Len(trail) : var(trail[j]) = var(trail[k]) => j = k
           /\ \A j \in 1 .. Len(trail) : j \in Nat
           /\ \A k \in 1 .. Len(trail_lim) : /\ trail_lim[k] \in Nat
                                             /\ trail_lim[k] <= trail_lim[Len(trail_lim)]
           /\ trail_lim[Len(trail_lim)] \in Nat
<1>1. V \in SUBSET Nat /\ DbType(db, V) /\ TrailType(trail, trail_lim, V)
      /\ ReasonInv(db, trail) /\ DecisionInv(db, trail, trail_lim) /\ Len(trail_lim) >= 1
  BY DEF CanAnalyze
<1>2. /\ Len(trail) \in Nat /\ Len(trail_lim) \in Nat
      /\ (\A j \in 1 .. Len(trail) : trail[j] \in Lits(V))
      /\ (\A j, k \in 1 .. Len(trail) : var(trail[j]) = var(trail[k]) => j = k)
      /\ (\A k \in 1 .. Len(trail_lim) : trail_lim[k] \in Nat)
      /\ \A k, l \in 1 .. Len(trail_lim) : k <= l => trail_lim[k] <= trail_lim[l]
  BY <1>1, TrailIs
<1>3. Len(trail_lim) \in 1 .. Len(trail_lim) /\ \A k \in 1 .. Len(trail_lim) : k <= Len(trail_lim)
  BY <1>1, <1>2
<1>4. \A j \in 1 .. Len(trail) : trail[j] \in Nat
  BY <1>1, <1>2, LitsAre
<1>5. QED
  BY <1>1, <1>2, <1>3, <1>4

(* The walk starts at the end of the trail with the conflicting clause.    *)
LEMMA WalkStarts ==
    ASSUME NEW V, CanAnalyze(V)
    PROVE  SeenOK(Len(trail), WalkStart)
<1> DEFINE c == lits(db, confl)
           n == Len(trail)
<1>1. /\ V \in SUBSET Nat /\ DbType(db, V) /\ TrailType(trail, trail_lim, V) /\ Len(trail_lim) >= 1
      /\ n \in Nat /\ \A j \in 1 .. n : j \in Nat
  BY AnalyzeIs
<1>2. /\ \A q \in ToSet(c) : neg(q) \in ToSet(trail)
      /\ \E i \in 1 .. n : OnTop(i) /\ neg(trail[i]) \in ToSet(c)
      /\ ToSet(c) \subseteq Nat
  <2>1. confl \in live(db)
    BY DEF CanAnalyze, ConflictInv
  <2>2. c \in Seq(Lits(V))
    BY <1>1, <2>1, LiveIs, ClauseIs
  <2>3. ToSet(c) \subseteq Lits(V)
    BY <2>2, ToSetIs
  <2>4. \A q \in ToSet(c) : q \in Nat
    BY <1>1, <2>3, LitsAre
  <2>5. \A q \in ToSet(c) : neg(q) \in ToSet(trail)
    BY Zenon DEF CanAnalyze, ConflictInv, IsFalse
  <2>6. \E i \in 1 .. n : OnTop(i) /\ neg(trail[i]) \in ToSet(c)
    BY <1>1 DEF CanAnalyze, ConflictInv, OnTop
  <2>7. QED
    BY <2>4, <2>5, <2>6
<1> HIDE DEF c
<1>3. ASSUME NEW v \in WalkStart PROVE \E j \in 1 .. n : AboveRoot(j) /\ var(trail[j]) = v
  <2>1. v \in VarsOf(ToSet(c)) /\ level(v) > 0
    BY DEF WalkStart, c
  <2>2. PICK q \in ToSet(c) : var(q) = v
    BY <2>1 DEF VarsOf
  <2>3. PICK j \in 1 .. n : trail[j] = neg(q)
    BY <1>1, <1>2, TrailIs
  <2>4. var(trail[j]) = v
    BY <1>2, <2>2, <2>3, Negation DEF Literal
  <2>5. QED
    BY <1>1, <2>1, <2>4, LevelsAre
<1>4. \E j \in 1 .. n : OnTop(j) /\ var(trail[j]) \in WalkStart
  <2>1. PICK i \in 1 .. n : OnTop(i) /\ neg(trail[i]) \in ToSet(c)
    BY <1>2
  <2>2. trail[i] \in Nat
    BY AnalyzeIs
  <2>3. var(neg(trail[i])) = var(trail[i])
    BY <2>2, Negation DEF Literal
  <2>4. level(var(trail[i])) > 0
    BY <1>1, <2>1, LevelsAre
  <2>5. var(trail[i]) \in VarsOf(ToSet(c))
    BY <2>1, <2>3 DEF VarsOf
  <2>6. QED
    BY <2>1, <2>4, <2>5 DEF WalkStart, c
<1>5. \A j \in 1 .. n : j <= n
  BY <1>1
<1>6. QED
  BY <1>3, <1>4, <1>5, Zenon DEF SeenOK

(* What a step of the walk does where it replaces a variable by its        *)
(* reason: the assignment is on top, and another one of S is before it.    *)
LEMMA Replaced ==
    ASSUME NEW V, CanAnalyze(V), NEW i \in 1 .. Len(trail), NEW S, SeenOK(i, S),
           var(trail[i]) \in S, TwoOpen(S)
    PROVE  /\ ReasonOf(i, db.reason[var(trail[i])])
           /\ \E j \in 1 .. i - 1 : OnTop(j) /\ var(trail[j]) \in S
<1>1. /\ V \in SUBSET Nat /\ DbType(db, V) /\ TrailType(trail, trail_lim, V)
      /\ ReasonInv(db, trail) /\ Len(trail_lim) >= 1 /\ Len(trail_lim) \in Nat
      /\ Len(trail) \in Nat
      /\ (\A k \in 1 .. Len(trail_lim) : /\ trail_lim[k] \in Nat
                                         /\ trail_lim[k] <= trail_lim[Len(trail_lim)])
      /\ trail_lim[Len(trail_lim)] \in Nat
  BY AnalyzeIs
<1>2. \A j \in 1 .. Len(trail) : OnTop(j) /\ var(trail[j]) \in S => j <= i
  BY Zenon DEF SeenOK
<1>3. PICK j \in 1 .. Len(trail) : j # i /\ OnTop(j) /\ var(trail[j]) \in S
  <2>1. PICK k, l \in 1 .. Len(trail) :
           k # l /\ OnTop(k) /\ OnTop(l) /\ var(trail[k]) \in S /\ var(trail[l]) \in S
    BY Zenon DEF TwoOpen
  <2>2. QED
    BY <2>1
<1>4. j \in 1 .. i - 1
  BY <1>1, <1>2, <1>3
<1>5. db.reason[var(trail[i])] # CRef_Undef
  <2>1. SUFFICES ASSUME db.reason[var(trail[i])] = CRef_Undef PROVE FALSE
    OBVIOUS
  <2>2. trail_lim[Len(trail_lim)] < j
    BY <1>3 DEF OnTop
  <2>3. trail_lim[Len(trail_lim)] < i /\ Len(trail_lim) \in 1 .. Len(trail_lim)
    BY <1>1, <1>4, <2>2
  <2>4. PICK k \in 1 .. Len(trail_lim) : trail_lim[k] + 1 = i
    BY <2>1, <2>3, AnalyzeIs DEF DecisionInv
  <2>5. QED
    BY <1>1, <1>4, <2>2, <2>4
<1>6. ReasonOf(i, db.reason[var(trail[i])])
  BY <1>1, <1>5, ReasonIsOne
<1>7. QED
  BY <1>3, <1>4, <1>6

(* A step replaces a variable or keeps S.                                  *)
LEMMA StepIs ==
    ASSUME NEW V, CanAnalyze(V), NEW i \in 1 .. Len(trail), NEW S, SeenOK(i, S)
    PROVE  IF var(trail[i]) \in S /\ TwoOpen(S)
           THEN WalkStep(i, S) = (S \ {var(trail[i])}) \cup VarsOf(Antecedents(var(trail[i])))
           ELSE WalkStep(i, S) = S
<1>1. \A v \in S : \E j \in 1 .. Len(trail) : AboveRoot(j) /\ var(trail[j]) = v
  BY Zenon DEF SeenOK
<1>2. Cardinality({u \in S : level(u) = decisionLevel}) > 1 <=> TwoOpen(S)
  BY <1>1, AnalyzeIs, OpenIs
<1>3. QED
  BY <1>2, Zenon DEF WalkStep

(* One step down the trail of analyze keeps what holds of the variables    *)
(* seen.                                                                   *)
LEMMA WalkKeeps ==
    ASSUME NEW V, CanAnalyze(V), NEW i \in 1 .. Len(trail), NEW S, SeenOK(i, S)
    PROVE  SeenOK(i - 1, WalkStep(i, S))
<1> DEFINE n == Len(trail)
           v == var(trail[i])
           T == WalkStep(i, S)
<1>1. /\ n \in Nat /\ \A j, k \in 1 .. n : var(trail[j]) = var(trail[k]) => j = k
  BY AnalyzeIs
<1>2. /\ \A u \in S : \E j \in 1 .. n : AboveRoot(j) /\ var(trail[j]) = u
      /\ \E j \in 1 .. n : OnTop(j) /\ var(trail[j]) \in S
      /\ TwoOpen(S) => \A j \in 1 .. n : OnTop(j) /\ var(trail[j]) \in S => j <= i
  BY Zenon DEF SeenOK
<1>3. CASE v \in S /\ TwoOpen(S)
  <2>1. T = (S \ {v}) \cup VarsOf(Antecedents(v))
    BY <1>3, StepIs
  <2>2. ReasonOf(i, db.reason[v]) /\ \E j \in 1 .. i - 1 : OnTop(j) /\ var(trail[j]) \in S
    BY <1>3, Replaced
  <2>3. ASSUME NEW u \in VarsOf(Antecedents(v))
        PROVE  \E j \in 1 .. i - 1 : AboveRoot(j) /\ var(trail[j]) = u
    <3>1. PICK q \in Antecedents(v) : u = var(q)
      BY DEF VarsOf
    <3>2. q \in Nat /\ \E j \in 1 .. i - 1 : trail[j] = neg(q) /\ AboveRoot(j)
      BY <2>2, <3>1 DEF ReasonOf
    <3>3. var(neg(q)) = var(q)
      BY <3>2, Negation DEF Literal
    <3>4. QED
      BY <3>1, <3>2, <3>3
  <2> HIDE DEF T, v
  <2>4. ASSUME NEW u \in T PROVE \E j \in 1 .. n : AboveRoot(j) /\ var(trail[j]) = u
    <3>1. CASE u \in S
      BY <1>2, <3>1
    <3>2. CASE u \in VarsOf(Antecedents(v))
      <4>1. PICK j \in 1 .. i - 1 : AboveRoot(j) /\ var(trail[j]) = u
        BY <2>3, <3>2
      <4>2. j \in 1 .. n
        BY <1>1
      <4>3. QED
        BY <4>1, <4>2
    <3>3. QED
      BY <2>1, <3>1, <3>2
  <2>5. \E j \in 1 .. n : OnTop(j) /\ var(trail[j]) \in T
    <3>1. PICK j \in 1 .. i - 1 : OnTop(j) /\ var(trail[j]) \in S
      BY <2>2
    <3>2. j \in 1 .. n /\ j # i
      BY <1>1
    <3>3. var(trail[j]) # v
      BY <1>1, <3>2 DEF v
    <3>4. QED
      BY <2>1, <3>1, <3>2, <3>3
  <2>6. ASSUME NEW j \in 1 .. n, OnTop(j), var(trail[j]) \in T PROVE j <= i - 1
    <3>1. CASE var(trail[j]) \in VarsOf(Antecedents(v))
      <4>1. PICK k \in 1 .. i - 1 : var(trail[k]) = var(trail[j])
        BY <2>3, <3>1
      <4>2. k \in 1 .. n
        BY <1>1
      <4>3. k = j
        BY <1>1, <4>1, <4>2
      <4>4. QED
        BY <1>1, <4>3
    <3>2. CASE var(trail[j]) \in S \ {v}
      <4>1. j <= i /\ j # i
        BY <1>2, <1>3, <2>6, <3>2 DEF v
      <4>2. QED
        BY <1>1, <4>1
    <3>3. QED
      BY <2>1, <2>6, <3>1, <3>2
  <2>7. QED
    BY <2>4, <2>5, <2>6, Zenon DEF SeenOK, T
<1>4. CASE ~(v \in S /\ TwoOpen(S))
  <2>1. T = S
    BY <1>4, StepIs
  <2>2. ASSUME TwoOpen(S), NEW j \in 1 .. n, OnTop(j), var(trail[j]) \in S PROVE j <= i - 1
    <3>1. j <= i /\ j # i
      BY <1>2, <1>4, <2>2
    <3>2. QED
      BY <1>1, <3>1
  <2> HIDE DEF T, v
  <2>3. SeenOK(i - 1, S)
    BY <1>2, <2>2, Zenon DEF SeenOK
  <2>4. QED
    BY <2>1, <2>3, Zenon DEF T
<1>5. QED
  BY <1>3, <1>4

(* What analyze() has seen in the end: assignments above the root, exactly *)
(* one of them since the last decision.                                    *)
Asserting(S, u) ==
    /\ \A v \in S : \E j \in 1 .. Len(trail) : AboveRoot(j) /\ var(trail[j]) = v
    /\ u \in 1 .. Len(trail) /\ OnTop(u) /\ var(trail[u]) \in S
    /\ \A j \in 1 .. Len(trail) : OnTop(j) /\ var(trail[j]) \in S => j = u

(* At the end of the walk one variable of the conflict level is left:      *)
(* analyze finds the first unique implication point.                       *)
LEMMA SeenInTheEnd ==
    ASSUME NEW V, CanAnalyze(V)
    PROVE  \E u : Asserting(Seen[0], u)
<1> DEFINE n == Len(trail)
           G == {i \in 0 .. n : SeenOK(i, Seen[i])}
<1>1. n \in Nat /\ Seen[n] = WalkStart /\ \A i \in 0 .. n - 1 : Seen[i] = WalkStep(i + 1, Seen[i + 1])
  BY AnalyzeIs, SeenIs
<1>2. n \in G
  BY <1>1, WalkStarts
<1>3. ASSUME NEW i \in 0 .. n - 1, i + 1 \in G PROVE i \in G
  <2>1. i + 1 \in 1 .. n /\ i + 1 - 1 = i /\ i \in 0 .. n
    BY <1>1
  <2>2. SeenOK(i + 1, Seen[i + 1])
    BY <1>3
  <2>3. SeenOK(i + 1 - 1, WalkStep(i + 1, Seen[i + 1]))
    BY <2>1, <2>2, WalkKeeps
  <2>4. SeenOK(i, Seen[i])
    BY <1>1, <2>1, <2>3
  <2>5. QED
    BY <2>1, <2>4
<1> HIDE DEF G
<1>4. 0 \in G
  BY <1>1, <1>2, <1>3, Descent
<1>5. SeenOK(0, Seen[0])
  BY <1>4 DEF G
<1>6. /\ \A u \in Seen[0] : \E j \in 1 .. n : AboveRoot(j) /\ var(trail[j]) = u
      /\ \E j \in 1 .. n : OnTop(j) /\ var(trail[j]) \in Seen[0]
      /\ TwoOpen(Seen[0]) => \A j \in 1 .. n : OnTop(j) /\ var(trail[j]) \in Seen[0] => j <= 0
  BY <1>5, Zenon DEF SeenOK
<1>7. PICK u \in 1 .. n : OnTop(u) /\ var(trail[u]) \in Seen[0]
  BY <1>6
<1>8. ~TwoOpen(Seen[0])
  BY <1>1, <1>6, <1>7
<1>9. \A j \in 1 .. n : OnTop(j) /\ var(trail[j]) \in Seen[0] => j = u
  BY <1>7, <1>8, Zenon DEF TwoOpen
<1>10. QED
  BY <1>6, <1>7, <1>9, Zenon DEF Asserting

-----------------------------------------------------------------------------
(* The literals that rule out what the assignment gives to a set of        *)
(* variables.                                                              *)
LEMMA BlockingIs ==
    ASSUME NEW V \in SUBSET Nat, TrailType(trail, trail_lim, V), NEW S
    PROVE  /\ \A p : p \in Blocking(S) <=>
                \E j \in 1 .. Len(trail) : var(trail[j]) \in S /\ p = neg(trail[j])
           /\ Blocking(S) \subseteq Lits(V) /\ IsFiniteSet(Blocking(S))
           /\ \A j \in 1 .. Len(trail) : var(neg(trail[j])) = var(trail[j])
<1> DEFINE n == Len(trail)
           f == [j \in 1 .. n |-> neg(trail[j])]
<1>1. /\ n \in Nat /\ (\A j \in 1 .. n : trail[j] \in Lits(V))
      /\ \A p : p \in ToSet(trail) <=> \E j \in 1 .. n : trail[j] = p
  BY TrailIs
<1>2. \A p : p \in Blocking(S) <=> \E j \in 1 .. n : var(trail[j]) \in S /\ p = neg(trail[j])
  BY <1>1 DEF Blocking
<1>3. \A j \in 1 .. n : trail[j] \in Nat /\ neg(trail[j]) \in Lits(V)
  BY <1>1, LitsAre
<1>4. \A j \in 1 .. n : f[j] = neg(trail[j])
  OBVIOUS
<1> HIDE DEF f
<1>5. \A p \in Blocking(S) : \E j \in 1 .. n : f[j] = p
  BY <1>2, <1>4
<1>6. IsFiniteSet(Blocking(S))
  BY <1>1, <1>5, ImageIsFinite
<1>7. \A j \in 1 .. n : var(neg(trail[j])) = var(trail[j])
  BY <1>3, Negation DEF Literal
<1>8. Blocking(S) \subseteq Lits(V)
  BY <1>2, <1>3
<1>9. QED
  BY <1>2, <1>6, <1>7, <1>8

(* The clause c with which the search goes back to level b: its first      *)
(* literal rules out an assignment of the last level, the others are false *)
(* at level b, the second one not before.                                  *)
Learned(V, c, b) ==
    /\ b \in 0 .. Len(trail_lim) - 1
    /\ c[1] \in Lits(V)
    /\ \E u \in 1 .. Len(trail) : OnTop(u) /\ c[1] = neg(trail[u])
    /\ Len(c) \in Nat /\ Len(c) >= 1
    /\ Len(c) = 1 => b = 0
    /\ Len(c) = 1 => ToSet(c) \subseteq {c[1]}
    /\ Len(c) # 1 =>
         /\ IsLits(c, V)
         /\ \A k \in 2 .. Len(c) : \E j \in 1 .. trail_lim[b + 1] : trail[j] = neg(c[k])
         /\ \E j \in 1 .. trail_lim[b + 1] :
              trail[j] = neg(c[2]) /\ \A k \in 1 .. b : trail_lim[k] < j
    /\ Blocking(Seen[0] \ Redundant(Seen[0])) \subseteq ToSet(c)

(* The first two literals of a clause, then the others in their order.     *)
Arranged(c, p, q, R) ==
    /\ c \in Seq(R \cup {p, q}) /\ Len(c) \in Nat /\ Len(c) >= 2
    /\ c[1] = p /\ c[2] = q
    /\ \A k \in 2 .. Len(c) : c[k] \in R \cup {q}
    /\ \A i, j \in 1 .. Len(c) : c[i] = c[j] => i = j
    /\ ToSet(c) = R \cup {p, q}

(* A sequence of elements of S is one of T, if T includes S.               *)
LEMMA SeqWider ==
    ASSUME NEW S, NEW T, S \subseteq T, NEW s \in Seq(S)
    PROVE  s \in Seq(T)
  OBVIOUS

(* c is p, q and then s.                                                   *)
Behind(c, p, q, s) ==
    /\ Len(c) = Len(s) + 2
    /\ c[1] = p /\ c[2] = q
    /\ \A i \in 1 .. Len(s) : c[i + 2] = s[i]

(* The elements of a sequence behind two others.                           *)
LEMMA BehindIs ==
    ASSUME NEW T, NEW p \in T, NEW q \in T, NEW s \in Seq(T), NEW c, c = <<p, q>> \o s
    PROVE  c \in Seq(T) /\ Behind(c, p, q, s)
<1> DEFINE b == <<p, q>>
<1>1. Len(b) = 2 /\ b[1] = p /\ b[2] = q /\ b \in Seq(T)
  OBVIOUS
<1>2. c = b \o s
  BY Zenon
<1> HIDE DEF b
<1>3. b \o s \in Seq(T)
  BY <1>1, ConcatProperties
<1>4. Len(b \o s) = Len(b) + Len(s)
  BY <1>1, ConcatProperties
<1>5. \A i \in 1 .. Len(b) + Len(s) : (b \o s)[i] = IF i <= Len(b) THEN b[i] ELSE s[i - Len(b)]
  BY <1>1, ConcatProperties
<1>6. Len(s) \in Nat
  OBVIOUS
<1>7. 1 \in 1 .. Len(b) + Len(s) /\ 2 \in 1 .. Len(b) + Len(s)
  BY <1>1, <1>6
<1>8. c[1] = p /\ c[2] = q
  BY <1>1, <1>2, <1>5, <1>7
<1>9. ASSUME NEW i \in 1 .. Len(s) PROVE c[i + 2] = s[i]
  <2>1. i + 2 \in 1 .. Len(b) + Len(s) /\ ~(i + 2 <= Len(b)) /\ i + 2 - Len(b) = i
    BY <1>1, <1>6
  <2>2. (b \o s)[i + 2] = s[i + 2 - Len(b)]
    BY <1>5, <2>1
  <2>3. QED
    BY <1>2, <2>1, <2>2
<1>10. Len(c) = Len(s) + 2
  BY <1>1, <1>2, <1>4, <1>6
<1>11. QED
  BY <1>2, <1>3, <1>8, <1>9, <1>10 DEF Behind

(* The learnt clause, built with its two watched literals in front, has    *)
(* each literal once.                                                      *)
LEMMA ArrangedFrom ==
    ASSUME NEW R, NEW p, NEW q, p # q, p \notin R, q \notin R,
           NEW s \in Seq(R), \A i, j \in 1 .. Len(s) : s[i] = s[j] => i = j,
           \A x \in R : \E i \in 1 .. Len(s) : s[i] = x,
           NEW c \in Seq(R \cup {p, q}), Behind(c, p, q, s)
    PROVE  Arranged(c, p, q, R)
<1>1. Len(s) \in Nat /\ \A i \in 1 .. Len(s) : s[i] \in R
  OBVIOUS
<1>4. Len(c) = Len(s) + 2 /\ Len(c) \in Nat /\ Len(c) >= 2 /\ c[1] = p /\ c[2] = q
  BY <1>1 DEF Behind
<1>5. \A i \in 1 .. Len(s) : c[i + 2] = s[i]
  BY DEF Behind
<1>6. \A k \in 3 .. Len(c) : k - 2 \in 1 .. Len(s) /\ c[k] = s[k - 2] /\ c[k] \in R
  <2>1. ASSUME NEW k \in 3 .. Len(c) PROVE k - 2 \in 1 .. Len(s) /\ c[k] = s[k - 2] /\ c[k] \in R
    <3>1. k - 2 \in 1 .. Len(s) /\ k - 2 + 2 = k
      BY <1>1, <1>4
    <3>2. c[k - 2 + 2] = s[k - 2] /\ s[k - 2] \in R
      BY <1>1, <1>5, <3>1
    <3>3. QED
      BY <3>1, <3>2
  <2>2. QED
    BY <2>1
<1>7. \A k \in 1 .. Len(c) : k = 1 \/ k = 2 \/ k \in 3 .. Len(c)
  BY <1>1, <1>4
<1>8. \A k \in 2 .. Len(c) : c[k] \in R \cup {q}
  <2>1. \A k \in 2 .. Len(c) : k = 2 \/ k \in 3 .. Len(c)
    BY <1>1, <1>4
  <2>2. QED
    BY <1>4, <1>6, <2>1
<1>9. ASSUME NEW i \in 1 .. Len(c), NEW j \in 1 .. Len(c), c[i] = c[j] PROVE i = j
  <2>1. CASE i \in 3 .. Len(c) /\ j \in 3 .. Len(c)
    <3>1. s[i - 2] = s[j - 2] /\ i - 2 \in 1 .. Len(s) /\ j - 2 \in 1 .. Len(s)
      BY <1>6, <1>9, <2>1
    <3>2. i - 2 = j - 2
      BY <3>1
    <3>3. QED
      BY <1>4, <3>2
  <2>2. CASE ~(i \in 3 .. Len(c) /\ j \in 3 .. Len(c))
    <3>1. ASSUME NEW k \in 3 .. Len(c) PROVE c[k] # p /\ c[k] # q
      BY <1>6
    <3>2. CASE i \in {1, 2} /\ j \in {1, 2}
      BY <1>4, <1>9, <3>2
    <3>3. CASE i \in 3 .. Len(c) /\ j \in {1, 2}
      BY <1>4, <1>9, <3>1, <3>3
    <3>4. CASE i \in {1, 2} /\ j \in 3 .. Len(c)
      BY <1>4, <1>9, <3>1, <3>4
    <3>5. QED
      BY <1>7, <2>2, <3>2, <3>3, <3>4
  <2>3. QED
    BY <2>1, <2>2
<1>10. ToSet(c) = R \cup {p, q}
  <2>1. ToSet(c) \subseteq R \cup {p, q}
    BY <1>4, ToSetIs
  <2>2. 1 \in 1 .. Len(c) /\ 2 \in 1 .. Len(c) /\ \A i \in 1 .. Len(s) : i + 2 \in 1 .. Len(c)
    <3>1. Len(c) = Len(s) + 2 /\ Len(s) \in Nat
      BY <1>1, <1>4
    <3>2. QED
      BY <3>1
  <2>3. \A x : x \in ToSet(c) <=> \E i \in 1 .. Len(c) : c[i] = x
    BY <1>4, ToSetIs
  <2>4. p \in ToSet(c) /\ q \in ToSet(c)
    BY <1>4, <2>2, <2>3
  <2>5. ASSUME NEW x \in R PROVE x \in ToSet(c)
    <3>1. PICK i \in 1 .. Len(s) : s[i] = x
      BY <1>1
    <3>2. QED
      BY <1>5, <2>2, <2>3, <3>1
  <2>6. QED
    BY <2>1, <2>4, <2>5
<1>11. QED
  BY <1>4, <1>8, <1>9, <1>10 DEF Arranged

(* Two literals in front of the sorted rest.                               *)
LEMMA ArrangedIs ==
    ASSUME NEW R \in SUBSET Nat, IsFiniteSet(R), NEW p, NEW q, p # q, p \notin R, q \notin R,
           NEW c, c = <<p, q>> \o Sorted(R)
    PROVE  Arranged(c, p, q, R)
<1> DEFINE s == Sorted(R)
           T == R \cup {p, q}
<1>1. /\ s \in Seq(R) /\ Len(s) \in Nat
      /\ \A i, j \in 1 .. Len(s) : s[i] = s[j] => i = j
      /\ \A x \in R : \E i \in 1 .. Len(s) : s[i] = x
  BY SortedIs
<1> HIDE DEF s
<1>2. c = <<p, q>> \o s
  BY Zenon DEF s
<1>3. p \in T /\ q \in T /\ R \subseteq T
  OBVIOUS
<1> HIDE DEF T
<1>4. s \in Seq(T)
  BY <1>1, <1>3, SeqWider, Zenon
<1>5. c \in Seq(T) /\ Behind(c, p, q, s)
  BY <1>2, <1>3, <1>4, BehindIs
<1>6. QED
  BY <1>1, <1>5, ArrangedFrom DEF T

(* The literals of the clause that is learnt, but for the asserting one.   *)
Rest(u) == Blocking(Seen[0] \ (Redundant(Seen[0]) \cup {var(trail[u])}))

(* The parts of Learnable, for the assignment u that it asserts against.   *)
LEMMA LearnableParts ==
    ASSUME NEW V, CanAnalyze(V), NEW u, Asserting(Seen[0], u), NEW c \in Learnable
    PROVE  \/ c = <<neg(trail[u])>> /\ Rest(u) = {}
           \/ \E q \in Rest(u) :
                /\ \A r \in Rest(u) : level(var(r)) <= level(var(q))
                /\ c = <<neg(trail[u]), q>> \o Sorted(Rest(u) \ {q})
<1> DEFINE S == Seen[0]
           uip == CHOOSE v \in S : level(v) = decisionLevel
           first == CHOOSE p \in Blocking({uip}) : TRUE
           rest == Blocking(S \ (Redundant(S) \cup {uip}))
           top == {q \in rest : \A r \in rest : level(var(r)) <= level(var(q))}
<1>1. c \in IF rest = {} THEN {<<first>>} ELSE {<<first, q>> \o Sorted(rest \ {q}) : q \in top}
  BY Zenon DEF Learnable
<1>2. uip = var(trail[u])
  <2>1. ASSUME NEW v \in S PROVE level(v) = decisionLevel <=> v = var(trail[u])
    <3>1. PICK j \in 1 .. Len(trail) : var(trail[j]) = v
      BY DEF Asserting
    <3>2. level(var(trail[j])) = decisionLevel <=> OnTop(j)
      BY AnalyzeIs, LevelsAre
    <3>3. OnTop(j) <=> j = u
      BY <3>1 DEF Asserting
    <3>4. j = u <=> var(trail[j]) = var(trail[u])
      <4>1. u \in 1 .. Len(trail)
        BY DEF Asserting
      <4>2. QED
        BY <4>1, AnalyzeIs
    <3>5. QED
      BY <3>1, <3>2, <3>3, <3>4
  <2>2. var(trail[u]) \in S
    BY DEF Asserting
  <2>3. QED
    BY <2>1, <2>2
<1>3. first = neg(trail[u])
  <2>1. u \in 1 .. Len(trail) /\ \A j \in 1 .. Len(trail) : var(trail[j]) = var(trail[u]) => j = u
    <3>1. u \in 1 .. Len(trail)
      BY DEF Asserting
    <3>2. QED
      BY <3>1, AnalyzeIs
  <2>2. \A p : p \in Blocking({uip}) <=>
           \E j \in 1 .. Len(trail) : var(trail[j]) \in {uip} /\ p = neg(trail[j])
    BY AnalyzeIs, BlockingIs
  <2> HIDE DEF uip
  <2>3. \A p : p \in Blocking({uip}) <=> p = neg(trail[u])
    BY <1>2, <2>1, <2>2
  <2>4. QED
    BY <2>3
<1> HIDE DEF uip, first
<1>4. rest = Rest(u)
  BY <1>2, Zenon DEF Rest
<1> HIDE DEF rest
<1>5. CASE rest = {}
  BY <1>1, <1>3, <1>4, <1>5
<1>6. CASE rest # {}
  <2>1. c \in {<<first, q>> \o Sorted(rest \ {q}) : q \in top}
    BY <1>1, <1>6, Zenon
  <2>2. PICK q \in top : c = <<first, q>> \o Sorted(rest \ {q})
    BY <2>1, Zenon
  <2>3. q \in rest /\ \A r \in rest : level(var(r)) <= level(var(q))
    BY <2>2, Zenon
  <2>4. QED
    BY <1>3, <1>4, <2>2, <2>3, Zenon
<1>7. QED
  BY <1>5, <1>6

(* A literal of the rest rules out an assignment above the root, not the   *)
(* one that is asserted against, and not on top.                           *)
LEMMA RestIs ==
    ASSUME NEW V, CanAnalyze(V), NEW u, Asserting(Seen[0], u)
    PROVE  /\ \A q \in Rest(u) : \E j \in 1 .. Len(trail) :
                q = neg(trail[j]) /\ j # u /\ ~OnTop(j) /\ var(q) = var(trail[j])
           /\ Rest(u) \subseteq Lits(V) /\ IsFiniteSet(Rest(u))
           /\ \A q, r \in Rest(u) : var(q) = var(r) => q = r
           /\ \A q \in Rest(u) : var(q) # var(trail[u])
           /\ Blocking(Seen[0] \ Redundant(Seen[0])) \subseteq Rest(u) \cup {neg(trail[u])}
<1> DEFINE S == Seen[0]
           n == Len(trail)
           X == S \ (Redundant(S) \cup {var(trail[u])})
<1>1. /\ V \in SUBSET Nat /\ TrailType(trail, trail_lim, V)
      /\ \A j, k \in 1 .. n : var(trail[j]) = var(trail[k]) => j = k
  BY AnalyzeIs
<1>2. /\ u \in 1 .. n /\ \A j \in 1 .. n : OnTop(j) /\ var(trail[j]) \in S => j = u
  BY DEF Asserting
<1> HIDE DEF S
<1>3. /\ \A p : p \in Blocking(X) <=> \E j \in 1 .. n : var(trail[j]) \in X /\ p = neg(trail[j])
      /\ Blocking(X) \subseteq Lits(V) /\ IsFiniteSet(Blocking(X))
      /\ \A j \in 1 .. n : var(neg(trail[j])) = var(trail[j])
  BY <1>1, BlockingIs
<1>4. Rest(u) = Blocking(X)
  BY Zenon DEF Rest, S
<1>5. ASSUME NEW q \in Rest(u)
      PROVE  \E j \in 1 .. n : q = neg(trail[j]) /\ j # u /\ ~OnTop(j) /\ var(q) = var(trail[j])
  <2>1. PICK j \in 1 .. n : var(trail[j]) \in X /\ q = neg(trail[j])
    BY <1>3, <1>4
  <2>2. j # u /\ var(trail[j]) \in S
    BY <2>1
  <2>3. QED
    BY <1>2, <1>3, <2>1, <2>2
<1>6. ASSUME NEW q \in Rest(u), NEW r \in Rest(u), var(q) = var(r) PROVE q = r
  BY <1>1, <1>5, <1>6
<1>7. ASSUME NEW q \in Rest(u) PROVE var(q) # var(trail[u])
  BY <1>1, <1>2, <1>5
<1>8. ASSUME NEW p, p \in Blocking(S \ Redundant(S)) PROVE p \in Rest(u) \cup {neg(trail[u])}
  <2>1. PICK j \in 1 .. n : var(trail[j]) \in S \ Redundant(S) /\ p = neg(trail[j])
    BY <1>1, <1>8, BlockingIs
  <2>2. CASE var(trail[j]) = var(trail[u])
    BY <1>1, <1>2, <2>1, <2>2
  <2>3. CASE var(trail[j]) # var(trail[u])
    BY <1>3, <1>4, <2>1, <2>3
  <2>4. QED
    BY <2>2, <2>3
<1>9. QED
  BY <1>3, <1>4, <1>5, <1>6, <1>7, <1>8 DEF S

-----------------------------------------------------------------------------
(* A literal that rules out an assignment below level b + 1 is false when  *)
(* the levels above b are undone.                                          *)
LEMMA StaysFalse ==
    ASSUME NEW V, CanAnalyze(V), NEW b \in 0 .. Len(trail_lim) - 1, NEW j \in 1 .. Len(trail),
           level(var(trail[j])) <= b
    PROVE  /\ j \in 1 .. trail_lim[b + 1]
           /\ level(var(trail[j])) = b => \A k \in 1 .. b : trail_lim[k] < j
<1>1. /\ Len(trail_lim) \in Nat /\ Len(trail) \in Nat /\ TrailType(trail, trail_lim, V)
      /\ \A k \in 1 .. Len(trail_lim) : trail_lim[k] \in Nat
  BY AnalyzeIs
<1>2. /\ level(var(trail[j])) \in 0 .. Len(trail_lim)
      /\ \A k \in 1 .. Len(trail_lim) : k <= level(var(trail[j])) <=> trail_lim[k] < j
  BY <1>1, LevelIs
<1>3. b + 1 \in 1 .. Len(trail_lim) /\ ~(b + 1 <= level(var(trail[j])))
  BY <1>1, <1>2
<1>4. ~(trail_lim[b + 1] < j) /\ trail_lim[b + 1] \in Nat
  BY <1>1, <1>2, <1>3
<1>5. j \in 1 .. trail_lim[b + 1]
  BY <1>1, <1>4
<1>6. ASSUME level(var(trail[j])) = b, NEW k \in 1 .. b PROVE trail_lim[k] < j
  <2>1. k \in 1 .. Len(trail_lim) /\ k <= level(var(trail[j]))
    BY <1>1, <1>6
  <2>2. QED
    BY <1>2, <2>1
<1>7. QED
  BY <1>5, <1>6

(* Every clause that analyze() may learn is one to go back with.           *)
LEMMA LearnableIs ==
    ASSUME NEW V, CanAnalyze(V), NEW c \in Learnable
    PROVE  Learned(V, c, btlevel(c))
<1> DEFINE b == btlevel(c)
           n == Len(trail)
<1>1. PICK u : Asserting(Seen[0], u)
  BY SeenInTheEnd
<1>2. /\ V \in SUBSET Nat /\ TrailType(trail, trail_lim, V) /\ Len(trail_lim) >= 1
      /\ Len(trail_lim) \in Nat
      /\ \A j \in 1 .. n : trail[j] \in Lits(V)
  BY AnalyzeIs
<1>3. u \in 1 .. n /\ OnTop(u)
  BY <1>1 DEF Asserting
<1>4. neg(trail[u]) \in Lits(V) /\ var(neg(trail[u])) = var(trail[u])
  <2>1. trail[u] \in Lits(V)
    BY <1>2, <1>3
  <2>2. neg(trail[u]) \in Lits(V) /\ trail[u] \in Nat
    BY <1>2, <2>1, LitsAre
  <2>3. QED
    BY <2>2, Negation DEF Literal
<1>5. /\ \A q \in Rest(u) : \E j \in 1 .. n :
           q = neg(trail[j]) /\ j # u /\ ~OnTop(j) /\ var(q) = var(trail[j])
      /\ Rest(u) \subseteq Lits(V) /\ IsFiniteSet(Rest(u))
      /\ \A q, r \in Rest(u) : var(q) = var(r) => q = r
      /\ \A q \in Rest(u) : var(q) # var(trail[u])
      /\ Blocking(Seen[0] \ Redundant(Seen[0])) \subseteq Rest(u) \cup {neg(trail[u])}
  BY <1>1, RestIs
<1> DEFINE B == Blocking(Seen[0] \ Redundant(Seen[0]))
<1> HIDE DEF B, b
<1>6. B \subseteq Rest(u) \cup {neg(trail[u])}
  BY <1>5 DEF B
<1>7. \/ c = <<neg(trail[u])>> /\ Rest(u) = {}
      \/ \E q \in Rest(u) :
           /\ \A r \in Rest(u) : level(var(r)) <= level(var(q))
           /\ c = <<neg(trail[u]), q>> \o Sorted(Rest(u) \ {q})
  BY <1>1, LearnableParts
<1>8. CASE c = <<neg(trail[u])>> /\ Rest(u) = {}
  <2>1. Len(c) = 1 /\ c[1] = neg(trail[u]) /\ ToSet(c) = {neg(trail[u])}
    <3>1. c = <<neg(trail[u])>>
      BY <1>8
    <3>2. QED
      BY <3>1 DEF ToSet
  <2>2. b = 0
    BY <2>1 DEF btlevel, b
  <2>3. B \subseteq ToSet(c)
    BY <1>6, <1>8, <2>1
  <2>4. b \in 0 .. Len(trail_lim) - 1
    BY <1>2, <2>2
  <2>5. Learned(V, c, b)
    <3>1. Len(c) \in Nat /\ Len(c) >= 1 /\ ~(Len(c) # 1) /\ ToSet(c) \subseteq {c[1]}
      BY <2>1
    <3>2. c[1] \in Lits(V) /\ \E w \in 1 .. n : OnTop(w) /\ c[1] = neg(trail[w])
      BY <1>3, <1>4, <2>1
    <3>3. Blocking(Seen[0] \ Redundant(Seen[0])) \subseteq ToSet(c)
      BY <2>3 DEF B
    <3>4. QED
      BY <2>2, <2>4, <3>1, <3>2, <3>3, Zenon DEF Learned
  <2>6. QED
    BY <2>5 DEF b
<1>9. ASSUME NEW q \in Rest(u), \A r \in Rest(u) : level(var(r)) <= level(var(q)),
             c = <<neg(trail[u]), q>> \o Sorted(Rest(u) \ {q})
      PROVE  Learned(V, c, b)
  <2> DEFINE R == Rest(u) \ {q}
             p == neg(trail[u])
  <2>1. Arranged(c, p, q, R)
    <3>1. IsFiniteSet(R)
      BY <1>5, FS_Subset
    <3>2. R \in SUBSET Nat
      BY <1>2, <1>5, LitsAre
    <3>3. p # q /\ p \notin R /\ q \notin R
      BY <1>4, <1>5
    <3>4. c = <<p, q>> \o Sorted(R)
      BY <1>9, Zenon
    <3> HIDE DEF R, p
    <3>5. QED
      BY <3>1, <3>2, <3>3, <3>4, ArrangedIs
  <2>2. /\ c \in Seq(R \cup {p, q}) /\ Len(c) \in Nat /\ Len(c) >= 2
        /\ c[1] = p /\ c[2] = q
        /\ (\A k \in 2 .. Len(c) : c[k] \in Rest(u))
        /\ (\A i, j \in 1 .. Len(c) : c[i] = c[j] => i = j)
        /\ ToSet(c) = Rest(u) \cup {p}
    <3>1. R \cup {q} = Rest(u) /\ R \cup {p, q} = Rest(u) \cup {p}
      OBVIOUS
    <3> HIDE DEF R, p
    <3>2. QED
      BY <2>1, <3>1 DEF Arranged
  <2>3. b = level(var(q))
    BY <2>2 DEF btlevel, b
  <2>4. b \in 0 .. Len(trail_lim) - 1
    <3>1. PICK j \in 1 .. n : ~OnTop(j) /\ var(q) = var(trail[j])
      BY <1>5
    <3>2. level(var(trail[j])) \in 0 .. decisionLevel /\ level(var(trail[j])) # decisionLevel
      BY <1>2, <3>1, LevelsAre
    <3>3. level(var(trail[j])) = b
      BY <2>3, <3>1
    <3>4. QED
      BY <1>2, <3>2, <3>3 DEF decisionLevel
  <2>5. ASSUME NEW r \in Rest(u)
        PROVE  \E j \in 1 .. trail_lim[b + 1] :
                 trail[j] = neg(r) /\ (r = q => \A k \in 1 .. b : trail_lim[k] < j)
    <3>1. PICK j \in 1 .. n : r = neg(trail[j]) /\ var(r) = var(trail[j])
      BY <1>5
    <3>2. level(var(trail[j])) <= b /\ (r = q => level(var(trail[j])) = b)
      <4>1. level(var(r)) = level(var(trail[j]))
        BY <3>1, Zenon
      <4>2. level(var(r)) <= level(var(q))
        BY <1>9
      <4>3. QED
        BY <2>3, <4>1, <4>2
    <3>3. j \in 1 .. trail_lim[b + 1] /\ (level(var(trail[j])) = b => \A k \in 1 .. b : trail_lim[k] < j)
      BY <2>4, <3>2, StaysFalse
    <3>4. neg(r) = trail[j]
      <4>1. trail[j] \in Nat
        BY <1>2, LitsAre
      <4>2. QED
        BY <3>1, <4>1, Negation DEF Literal
    <3>5. QED
      BY <3>2, <3>3, <3>4
  <2>6. IsLits(c, V)
    <3>1. R \cup {p, q} \subseteq Lits(V)
      BY <1>4, <1>5
    <3>2. \A k \in 1 .. Len(c) : k = 1 \/ k \in 2 .. Len(c)
      BY <2>2
    <3>3. var(p) = var(trail[u])
      BY <1>4
    <3> DEFINE W == R \cup {p, q}
    <3> HIDE DEF W
    <3>4. c \in Seq(W) /\ W \subseteq Lits(V)
      BY <2>2, <3>1 DEF W
    <3>5. c \in Seq(Lits(V))
      BY <3>4, SeqWider
    <3>6. \A i, j \in 1 .. Len(c) : var(c[i]) = var(c[j]) => i = j
      <4>1. \A k \in 2 .. Len(c) : var(c[k]) # var(c[1])
        BY <1>5, <2>2, <3>3
      <4>2. ASSUME NEW i \in 2 .. Len(c), NEW j \in 2 .. Len(c), var(c[i]) = var(c[j]) PROVE i = j
        <5>1. i \in 1 .. Len(c) /\ j \in 1 .. Len(c)
          BY <2>2
        <5>2. c[i] = c[j]
          BY <1>5, <2>2, <4>2
        <5>3. QED
          BY <2>2, <5>1, <5>2
      <4>3. QED
        BY <3>2, <4>1, <4>2
    <3>7. QED
      BY <2>2, <3>5, <3>6 DEF IsLits
  <2>7. \A k \in 2 .. Len(c) : \E j \in 1 .. trail_lim[b + 1] : trail[j] = neg(c[k])
    BY <2>2, <2>5
  <2>8. \E j \in 1 .. trail_lim[b + 1] : trail[j] = neg(c[2]) /\ \A k \in 1 .. b : trail_lim[k] < j
    BY <2>2, <2>5
  <2>9. B \subseteq ToSet(c)
    BY <1>6, <2>2
  <2>10. c[1] \in Lits(V) /\ \E w \in 1 .. n : OnTop(w) /\ c[1] = neg(trail[w])
    BY <1>3, <1>4, <2>2
  <2> HIDE DEF R, p
  <2>11. Len(c) \in Nat /\ Len(c) >= 1 /\ Len(c) # 1
    BY <2>2
  <2>12. QED
    BY <2>4, <2>6, <2>7, <2>8, <2>9, <2>10, <2>11 DEF Learned, B
<1>10. Learned(V, c, b)
  BY <1>7, <1>8, <1>9 DEF b
<1>11. QED
  BY <1>10 DEF b

-----------------------------------------------------------------------------
(* The largest of finitely many numbers.                                   *)
LEMMA MaxIs ==
    ASSUME NEW S \in SUBSET Nat, IsFiniteSet(S), S # {}
    PROVE  Max(S) \in S /\ \A y \in S : y <= Max(S)
<1> DEFINE n == Cardinality(S)
<1>1. n \in Nat /\ n # 0
  BY FS_CardinalityType, FS_EmptySet
<1>2. PICK g : g \in Bijection(1 .. n, S)
  BY FS_CardinalityType DEF ExistsBijection
<1> HIDE DEF n
<1>3. g \in [1 .. n -> S] /\ \A x \in S : \E i \in 1 .. n : g[i] = x
  BY <1>2, Zenon DEF Bijection, Surjection
<1> DEFINE Q(k) == \E x \in S : \A i \in 1 .. k : g[i] <= x
           Bad == {k \in 1 .. n : ~Q(k)}
<1>4. Bad = {}
  <2>1. SUFFICES ASSUME Bad # {} PROVE FALSE
    OBVIOUS
  <2>2. Bad \in SUBSET Nat
    BY <1>1
  <2>3. PICK k \in Bad : \A j \in Bad : k <= j
    BY <2>1, <2>2, Least
  <2>4. k \in 1 .. n /\ ~Q(k)
    OBVIOUS
  <2>5. g[k] \in S /\ g[k] \in Nat
    BY <1>3, <2>4
  <2>6. CASE k = 1
    <3>1. \A i \in 1 .. k : g[i] <= g[k]
      BY <2>5, <2>6
    <3>2. QED
      BY <2>4, <2>5, <3>1
  <2>7. CASE k # 1
    <3>1. k - 1 \in 1 .. n /\ ~(k <= k - 1)
      BY <1>1, <2>4, <2>7
    <3>2. Q(k - 1)
      BY <2>3, <3>1
    <3>3. PICK x \in S : \A i \in 1 .. k - 1 : g[i] <= x
      BY <3>2
    <3>4. \A i \in 1 .. k : i \in 1 .. k - 1 \/ i = k
      BY <2>4
    <3>5. CASE g[k] <= x
      BY <2>4, <3>3, <3>4, <3>5
    <3>6. CASE ~(g[k] <= x)
      <4>1. x \in Nat
        OBVIOUS
      <4>2. ASSUME NEW i \in 1 .. k PROVE g[i] <= g[k]
        <5>1. CASE i = k
          BY <2>5, <5>1
        <5>2. CASE i \in 1 .. k - 1
          <6>1. i \in 1 .. n
            BY <1>1, <2>4
          <6>2. g[i] \in Nat /\ g[i] <= x
            BY <1>3, <3>3, <5>2, <6>1
          <6>3. QED
            BY <2>5, <3>6, <4>1, <6>2
        <5>3. QED
          BY <3>4, <5>1, <5>2
      <4>3. QED
        BY <2>4, <2>5, <4>2
    <3>7. QED
      BY <3>5, <3>6
  <2>8. QED
    BY <2>6, <2>7
<1>5. Q(n)
  <2>1. n \in 1 .. n
    BY <1>1
  <2>2. QED
    BY <1>4, <2>1
<1>6. \E x \in S : \A y \in S : x >= y
  <2>1. PICK x \in S : \A i \in 1 .. n : g[i] <= x
    BY <1>5
  <2>2. ASSUME NEW y \in S PROVE x >= y
    <3>1. PICK i \in 1 .. n : g[i] = y
      BY <1>3
    <3>2. x \in Nat /\ y \in Nat /\ y <= x
      BY <2>1, <3>1
    <3>3. QED
      BY <3>2
  <2>3. QED
    BY <2>2
<1>7. Max(S) \in S /\ \A y \in S : Max(S) >= y
  BY <1>6 DEF Max
<1>8. QED
  <2>1. ASSUME NEW y \in S PROVE y <= Max(S)
    <3>1. Max(S) \in Nat /\ y \in Nat /\ Max(S) >= y
      BY <1>7
    <3>2. QED
      BY <3>1
  <2>2. QED
    BY <1>7, <2>1

(* The variables up to the largest one of C: add_clause and solve() create *)
(* them.                                                                   *)
Covering(W, C) == W \in SUBSET Nat /\ AllVars \subseteq W /\ \A p \in C : var(p) \in W

(* A clause has finitely many variables.                                   *)
LEMMA VarsAreFinite ==
    ASSUME NEW C, IsClause(C)
    PROVE  IsFiniteSet(VarsOf(C))
<1>1. C \in SUBSET Nat /\ IsFiniteSet(C)
  BY DEF IsClause
<1> DEFINE n == Cardinality(C)
           f == [i \in 1 .. n |-> var(Sorted(C)[i])]
           R == VarsOf(C)
<1>2. n \in Nat /\ \A x \in C : \E i \in 1 .. n : Sorted(C)[i] = x
  BY <1>1, SortedIs
<1>3. \A i \in 1 .. n : f[i] = var(Sorted(C)[i])
  OBVIOUS
<1> HIDE DEF n, f
<1>4. \A v \in R : \E i \in 1 .. n : f[i] = v
  BY <1>2, <1>3 DEF VarsOf
<1> HIDE DEF R
<1>5. n \in Nat
  BY <1>2
<1>6. IsFiniteSet(R)
  BY <1>4, <1>5, ImageIsFinite, Zenon
<1>7. QED
  BY <1>6 DEF R

(* newVar up to the largest variable of a clause covers the clause.        *)
LEMMA CoveringIs ==
    ASSUME NEW C, IsClause(C), AllVars \subseteq Nat,
           NEW T, T = VarsOf(C) \cup {0},
           NEW W, W = AllVars \cup 0 .. Max(T)
    PROVE  Covering(W, C) /\ Max(T) \in Nat
<1>1. C \in SUBSET Nat
  BY DEF IsClause
<1>2. IsFiniteSet(VarsOf(C))
  BY VarsAreFinite
<1>3. IsFiniteSet(T)
  BY <1>2, FS_AddElement
<1>4. \A p \in C : var(p) \in Nat /\ var(p) \in T
  BY <1>1 DEF VarsOf, var
<1>5. T \in SUBSET Nat /\ T # {}
  BY <1>4 DEF VarsOf
<1>6. Max(T) \in Nat /\ \A y \in T : y <= Max(T)
  BY <1>3, <1>5, MaxIs
<1>7. \A p \in C : var(p) \in 0 .. Max(T)
  <2>1. ASSUME NEW p \in C PROVE var(p) \in 0 .. Max(T)
    <3>1. var(p) \in Nat /\ var(p) <= Max(T)
      BY <1>4, <1>6
    <3>2. QED
      BY <1>6, <3>1
  <2>2. QED
    BY <2>1
<1>8. W \subseteq Nat
  <2> DEFINE k == Max(T)
  <2> HIDE DEF k
  <2>1. k \in Nat /\ W = AllVars \cup 0 .. k
    BY <1>6 DEF k
  <2>2. \A v \in 0 .. k : v \in Nat
    BY <2>1
  <2>3. QED
    BY <2>1, <2>2
<1>9. QED
  BY <1>6, <1>7, <1>8 DEF Covering

(* What newVars hands to add_clause and solve().                           *)
NewState(nv, W) ==
    /\ nv.decision = [v \in W |-> IF v \in W \ AllVars THEN FALSE ELSE decision[v]]
    /\ nv.db = Grew(db, AllVars, W)

(* What newVars returns: the variables so far unchanged, the new ones      *)
(* without clauses and no decision variables.                              *)
LEMMA NewStateIs ==
    ASSUME NEW n, NEW nv, nv = newVars(n, FALSE), NEW W, W = AllVars \cup 0 .. n
    PROVE  NewState(nv, W)
  BY Zenon DEF newVars, NewState, Grew, AllVars, Lits

-----------------------------------------------------------------------------
(* The variables, what waits in the heap and what a question assumes.      *)
VarsInv ==
    /\ AllVars \subseteq Nat
    /\ decision \in [AllVars -> BOOLEAN]
    /\ order_heap \subseteq AllVars
    /\ \A v \in AllVars : decision[v] => v \in assigned \/ v \in order_heap
    /\ assumptions \in Seq(Lits(AllVars))
    /\ ok \in BOOLEAN
    /\ answer \in {"none", "pending", "sat", "unsat"}

TrailOK ==
    /\ TrailType(trail, trail_lim, AllVars)
    /\ ReasonInv(db, trail)
    /\ DecisionInv(db, trail, trail_lim)

(* Where the solver is, and how far propagation has come.                  *)
FlowInv ==
    /\ pc \in {"idle", "add", "propagate", "search", "reduce", "decide", "refuse"}
    /\ ret \in {"add", "search"}
    /\ qhead \in 0 .. Len(trail) /\ wi \in Nat
    /\ pc \in {"idle", "add", "refuse"} => Len(trail_lim) = 0
    /\ pc = "propagate" /\ ret = "add" => Len(trail_lim) = 0
    /\ pc \notin {"idle", "refuse"} => ok
    /\ pc = "refuse" => ~ok
    /\ pc \in {"search", "reduce", "decide", "refuse"} => ret = "search"
    /\ pc # "propagate" => qhead = Len(trail)
    /\ \A k \in 1 .. Len(trail_lim) : trail_lim[k] <= qhead

WalkInv ==
    wi # 0 => /\ pc = "propagate" /\ qhead # 0
              /\ db.dirties = {} /\ confl = CRef_Undef
              /\ \A k \in 1 .. Len(trail_lim) : trail_lim[k] < qhead

ConflInv ==
    confl # CRef_Undef =>
        pc \in {"propagate", "add", "search"} /\ qhead = Len(trail) /\ ConflictInv

ClientInv ==
    /\ toAdd \in Seq(SUBSET Nat)
    /\ \A i \in 1 .. Len(toAdd) : IsClause(toAdd[i])
    /\ \A C \in added : IsClause(C) /\ \A p \in C : var(p) \in AllVars

(* The inductive invariant of the database, the trail and the search.      *)
BaseInv ==
    VarsInv /\ DbInv(db, AllVars) /\ TrailOK /\ FlowInv /\ WalkInv /\ ConflInv /\ ClientInv

(* What a step that leaves the variables alone keeps.                      *)
LEMMA SameVars ==
    ASSUME VarsInv, AllVars' = AllVars, decision' = decision, order_heap' = order_heap,
           assigned \subseteq assigned', assumptions' = assumptions, ok' \in BOOLEAN,
           answer' = answer
    PROVE  VarsInv'
  BY DEF VarsInv

(* A step that leaves the caller's clauses alone keeps what holds of them. *)
LEMMA SameClient ==
    ASSUME ClientInv, AllVars' = AllVars, added' = added, toAdd' = toAdd
    PROVE  ClientInv'
  BY DEF ClientInv

(* No conflict, no position in a list.                                     *)
LEMMA NoConfl ==
    ASSUME confl' = CRef_Undef
    PROVE  ConflInv'
  BY DEF ConflInv

(* Between two visits of propagate there is no position in a list.         *)
LEMMA NoWalk ==
    ASSUME wi' = 0
    PROVE  WalkInv'
  BY DEF WalkInv

(* A trail that goes on has the same assigned variables and more.          *)
LEMMA MoreAssigned ==
    ASSUME NEW V, NEW t, NEW lim, TrailType(t, lim, V), NEW s, NEW k, TrailType(s, k, V), Begins(t, s)
    PROVE  ToSet(t) \subseteq ToSet(s) /\ VarsOf(ToSet(t)) \subseteq VarsOf(ToSet(s))
<1>1. ToSet(t) \subseteq ToSet(s)
  <2>1. ASSUME NEW x \in ToSet(t) PROVE x \in ToSet(s)
    <3>1. PICK i \in 1 .. Len(t) : t[i] = x
      BY TrailIs
    <3>2. i \in 1 .. Len(s) /\ s[i] = x
      <4>1. Len(t) \in Nat /\ Len(s) \in Nat
        BY TrailIs
      <4>2. QED
        BY <3>1, <4>1 DEF Begins
    <3>3. QED
      BY <3>2, TrailIs
  <2>2. QED
    BY <2>1
<1>2. QED
  BY <1>1 DEF VarsOf

(* The variables that are assigned.                                        *)
LEMMA AssignedIs ==
    ASSUME NEW V, TrailType(trail, trail_lim, V)
    PROVE  \A v : v \in assigned <=> \E i \in 1 .. Len(trail) : var(trail[i]) = v
<1>1. \A p : p \in ToSet(trail) <=> \E i \in 1 .. Len(trail) : trail[i] = p
  BY TrailIs
<1>2. QED
  BY <1>1 DEF assigned, VarsOf

(* What is left of the trail and of its levels after cancelUntil(l).       *)
Undone(l, s, k) ==
    /\ TrailType(s, k, AllVars)
    /\ ReasonInv(db, s)
    /\ DecisionInv(db, s, k)
    /\ Begins(s, trail) /\ Begins(k, trail_lim)
    /\ Len(k) = l
    /\ IF Len(trail_lim) > l THEN Len(s) = trail_lim[l + 1] ELSE s = trail /\ k = trail_lim

KeptLevels(l) == IF decisionLevel > l THEN SubSeq(trail_lim, 1, l) ELSE trail_lim

(* cancelUntil(l) leaves the trail up to the level l.                      *)
LEMMA UndoneIs ==
    ASSUME TrailOK, NEW l \in 0 .. Len(trail_lim), NEW s, s = KeptTrail(l), NEW k, k = KeptLevels(l)
    PROVE  Undone(l, s, k)
<1>1. /\ TrailType(trail, trail_lim, AllVars) /\ ReasonInv(db, trail)
      /\ DecisionInv(db, trail, trail_lim)
  BY DEF TrailOK
<1>2. Len(trail_lim) \in Nat /\ Len(trail) \in Nat
  BY <1>1, TrailIs
<1>3. CASE Len(trail_lim) > l
  <2>1. s = SubSeq(trail, 1, trail_lim[l + 1]) /\ k = SubSeq(trail_lim, 1, l)
    BY <1>3 DEF KeptTrail, KeptLevels, decisionLevel
  <2>2. l \in 0 .. Len(trail_lim) - 1
    BY <1>2, <1>3
  <2>3. Cut(trail, trail_lim, AllVars, l, s, k)
    BY <1>1, <2>1, <2>2, CutIs
  <2>4. /\ TrailType(s, k, AllVars) /\ Begins(s, trail) /\ Begins(k, trail_lim)
        /\ Len(s) = trail_lim[l + 1] /\ Len(k) = l
    BY <2>3 DEF Cut
  <2>5. ReasonInv(db, s)
    BY <1>1, <2>4, BeginsReasons
  <2>6. DecisionInv(db, s, k)
    BY <1>1, <2>2, <2>3, CutDecisions
  <2>7. QED
    BY <1>3, <2>4, <2>5, <2>6 DEF Undone
<1>4. CASE ~(Len(trail_lim) > l)
  <2>1. s = trail /\ k = trail_lim /\ Len(trail_lim) = l
    BY <1>2, <1>4 DEF KeptTrail, KeptLevels, decisionLevel
  <2>2. Begins(trail, trail) /\ Begins(trail_lim, trail_lim)
    BY <1>2 DEF Begins
  <2>3. QED
    BY <1>1, <1>4, <2>1, <2>2 DEF Undone
<1>5. QED
  BY <1>3, <1>4

(* No decision variable is forgotten when assignments are undone.          *)
LEMMA HeapAgain ==
    ASSUME NEW l, NEW heap, AllVars \subseteq Nat, heap \subseteq AllVars,
           TrailType(trail, trail_lim, AllVars),
           \A v \in AllVars : decision[v] => v \in assigned \/ v \in heap,
           order_heap' = heap \cup Released(l), decision' = decision,
           VarsOf(ToSet(KeptTrail(l))) \subseteq assigned'
    PROVE  /\ order_heap' \subseteq AllVars
           /\ \A v \in AllVars : decision[v] => v \in assigned' \/ v \in order_heap'
<1>1. assigned \subseteq AllVars
  <2>1. \A i \in 1 .. Len(trail) : trail[i] \in Lits(AllVars)
    BY TrailIs
  <2>2. \A i \in 1 .. Len(trail) : var(trail[i]) \in AllVars
    BY <2>1, LitsAre
  <2>3. QED
    BY <2>2, AssignedIs
<1>2. Released(l) \subseteq assigned
  BY DEF Released
<1>3. ASSUME NEW v \in AllVars, decision[v] PROVE v \in assigned' \/ v \in order_heap'
  <2>1. CASE v \in assigned /\ v \notin VarsOf(ToSet(KeptTrail(l)))
    <3>1. v \in Released(l)
      BY <1>3, <2>1 DEF Released
    <3>2. QED
      BY <3>1
  <2>2. QED
    BY <1>3, <2>1
<1>4. QED
  BY <1>1, <1>2, <1>3

-----------------------------------------------------------------------------
(* The parts of the invariant after a step.                                *)
LEMMA BaseAfter ==
    ASSUME VarsInv', DbInv(db', AllVars'), TrailOK', FlowInv', WalkInv', ConflInv', ClientInv'
    PROVE  BaseInv'
  BY Zenon DEF BaseInv

(* The parts of the trail's invariant after a step.                        *)
LEMMA TrailAfter ==
    ASSUME TrailType(trail', trail_lim', AllVars'), ReasonInv(db', trail'),
           DecisionInv(db', trail', trail_lim')
    PROVE  TrailOK'
  BY Zenon DEF TrailOK

(* Nothing is added, nothing is assigned in the beginning.                 *)
LEMMA InitBase ==
    ASSUME SolverAssumption, Init
    PROVE  BaseInv
<1> DEFINE V == 0 .. ProblemVars - 1
<1>1. ProblemVars \in Nat /\ V \subseteq Nat
  BY DEF SolverAssumption
<1>2. AllVars = V /\ decision = [v \in V |-> TRUE] /\ order_heap = V
  BY DEF Init, AllVars
<1>3. Lits(V) = 0 .. 2 * ProblemVars - 1
  <2>1. \A p : p \in Lits(V) <=> p \in Nat /\ var(p) \in V
    BY <1>1, LitsAre
  <2>2. \A p \in Nat : var(p) \in V <=> p \in 0 .. 2 * ProblemVars - 1
    BY <1>1 DEF var
  <2>3. \A p \in 0 .. 2 * ProblemVars - 1 : p \in Nat
    BY <1>1
  <2>4. QED
    BY <2>1, <2>2, <2>3
<1>4. DbInv(db, V)
  <2> HIDE DEF V
  <2>1. db = [ca |-> <<>>, clauses |-> {}, learnts |-> {}, dirties |-> {},
              watches |-> [p \in 0 .. 2 * ProblemVars - 1 |-> <<>>],
              reason |-> [v \in V |-> CRef_Undef]]
    BY Zenon DEF Init, V
  <2>2. db = [ca |-> <<>>, clauses |-> {}, learnts |-> {}, dirties |-> {},
              watches |-> [p \in Lits(V) |-> <<>>],
              reason |-> [v \in V |-> CRef_Undef]]
    BY <1>3, <2>1, Zenon
  <2>3. QED
    BY <2>2, EmptyDb, Zenon
<1> HIDE DEF V
<1>5. /\ ok = TRUE /\ trail = <<>> /\ trail_lim = <<>> /\ qhead = 0 /\ wi = 0
      /\ confl = CRef_Undef /\ pc = "idle" /\ ret = "add" /\ assumptions = <<>>
      /\ answer = "none" /\ added = {} /\ toAdd \in Formulas
  BY DEF Init
<1>6. VarsInv
  <2>1. assumptions \in Seq(Lits(AllVars))
    BY <1>5
  <2>2. decision \in [AllVars -> BOOLEAN] /\ AllVars \subseteq Nat /\ order_heap = AllVars
    BY <1>1, <1>2
  <2>3. QED
    BY <1>5, <2>1, <2>2 DEF VarsInv
<1>7. TrailOK
  <2>1. TrailType(trail, trail_lim, AllVars)
    BY <1>5 DEF TrailType
  <2>2. ReasonInv(db, trail)
    BY <1>5 DEF ReasonInv
  <2>3. DecisionInv(db, trail, trail_lim)
    BY <1>5 DEF DecisionInv
  <2>4. QED
    BY <2>1, <2>2, <2>3 DEF TrailOK
<1>8. FlowInv
  BY <1>5 DEF FlowInv
<1>9. WalkInv /\ ConflInv
  BY <1>5 DEF WalkInv, ConflInv
<1>10. ClientInv
  <2>1. toAdd \in Seq(SUBSET Nat) /\ \A C \in ToSet(toAdd) : IsClause(C)
    BY <1>5 DEF SolverAssumption
  <2>2. \A i \in 1 .. Len(toAdd) : toAdd[i] \in ToSet(toAdd)
    BY <2>1, ToSetIs
  <2>3. QED
    BY <1>5, <2>1, <2>2 DEF ClientInv
<1>11. QED
  BY <1>2, <1>4, <1>6, <1>7, <1>8, <1>9, <1>10 DEF BaseInv

(* The reasons and their clauses stay.                                     *)
LEMMA SameReasons ==
    ASSUME NEW V, NEW t, NEW lim, TrailType(t, lim, V), NEW d, ReasonInv(d, t),
           DecisionInv(d, t, lim), NEW e,
           \A i \in 1 .. Len(t) : e.reason[var(t[i])] = d.reason[var(t[i])],
           \A i \in 1 .. Len(t) : d.reason[var(t[i])] \in live(d) =>
               /\ d.reason[var(t[i])] \in live(e)
               /\ lits(e, d.reason[var(t[i])]) = lits(d, d.reason[var(t[i])])
    PROVE  ReasonInv(e, t) /\ DecisionInv(e, t, lim)
<1>1. ASSUME NEW i \in 1 .. Len(t)
      PROVE  /\ e.reason[var(t[i])] = d.reason[var(t[i])]
             /\ d.reason[var(t[i])] # CRef_Undef =>
                  /\ d.reason[var(t[i])] \in live(e)
                  /\ lits(e, d.reason[var(t[i])]) = lits(d, d.reason[var(t[i])])
  <2>1. d.reason[var(t[i])] # CRef_Undef => d.reason[var(t[i])] \in live(d)
    BY DEF ReasonInv
  <2>2. QED
    BY <2>1
<1>2. QED
  BY <1>1, ReasonsKept

(* What a step of propagate() without an assignment leaves alone.          *)
LEMMA QuietStep ==
    ASSUME BaseInv, PropagateUnchanged, trail' = trail,
           DbInv(db', AllVars), ReasonInv(db', trail), DecisionInv(db', trail, trail_lim),
           FlowInv', WalkInv', ConflInv'
    PROVE  BaseInv'
<1>1. /\ ok' = ok /\ decision' = decision /\ order_heap' = order_heap /\ trail_lim' = trail_lim
      /\ assumptions' = assumptions /\ answer' = answer /\ added' = added /\ toAdd' = toAdd
  BY DEF PropagateUnchanged, searchVars, resultVars, clientVars
<1>2. AllVars' = AllVars /\ assigned' = assigned
  BY <1>1 DEF AllVars, assigned
<1>3. VarsInv'
  <2>1. VarsInv /\ ok' \in BOOLEAN
    BY <1>1 DEF BaseInv, VarsInv
  <2>2. QED
    BY <1>1, <1>2, <2>1, SameVars
<1>4. ClientInv'
  BY <1>1, <1>2, SameClient DEF BaseInv
<1>5. TrailOK'
  <2>1. TrailType(trail, trail_lim, AllVars)
    BY DEF BaseInv, TrailOK
  <2>2. QED
    BY <1>1, <1>2, <2>1, TrailAfter
<1>6. QED
  BY <1>2, <1>3, <1>4, <1>5, BaseAfter

(* The next fact, once the lists are cleaned.                              *)
LEMMA NextFactBase ==
    ASSUME BaseInv, NextFact
    PROVE  BaseInv'
<1>1. /\ pc = "propagate" /\ qhead < Len(trail) /\ qhead' = qhead + 1 /\ wi' = 1
      /\ db' = cleanAll(db) /\ trail' = trail /\ confl' = confl /\ pc' = pc
      /\ PropagateUnchanged
  BY DEF NextFact
<1>2. /\ AllVars \subseteq Nat /\ DbInv(db, AllVars)
      /\ TrailType(trail, trail_lim, AllVars) /\ ReasonInv(db, trail)
      /\ DecisionInv(db, trail, trail_lim) /\ FlowInv /\ ConflInv
  BY DEF BaseInv, VarsInv, TrailOK
<1>3. Cleaned(db, db', AllVars)
  BY <1>1, <1>2, CleanIs
<1>4. live(db') = live(db) /\ (\A r : lits(db', r) = lits(db, r)) /\ db'.reason = db.reason
  BY <1>3 DEF Cleaned, live, lits
<1>5. ReasonInv(db', trail) /\ DecisionInv(db', trail, trail_lim)
  BY <1>2, <1>4, SameReasons
<1>6. confl = CRef_Undef
  BY <1>1, <1>2 DEF ConflInv, FlowInv
<1>7. /\ trail_lim' = trail_lim /\ ret' = ret /\ ok' = ok
  BY <1>1 DEF PropagateUnchanged
<1>8. /\ qhead \in Nat /\ Len(trail) \in Nat
      /\ \A k \in 1 .. Len(trail_lim) : trail_lim[k] \in Nat
  BY <1>2, TrailIs DEF FlowInv
<1>9. FlowInv'
  BY <1>1, <1>2, <1>7, <1>8 DEF FlowInv
<1>10. WalkInv'
  <2>1. db'.dirties = {}
    BY <1>3 DEF Cleaned
  <2>2. \A k \in 1 .. Len(trail_lim) : trail_lim[k] < qhead'
    BY <1>1, <1>2, <1>8 DEF FlowInv
  <2>3. QED
    BY <1>1, <1>6, <1>7, <1>8, <2>1, <2>2 DEF WalkInv
<1>11. ConflInv'
  BY <1>1, <1>6 DEF ConflInv
<1>12. DbInv(db', AllVars)
  BY <1>3 DEF Cleaned
<1>13. QED
  BY <1>1, <1>5, <1>9, <1>10, <1>11, <1>12, QuietStep

(* The end of the trail.                                                   *)
LEMMA PropagateDoneBase ==
    ASSUME BaseInv, PropagateDone
    PROVE  BaseInv'
<1>1. /\ pc = "propagate" /\ qhead = Len(trail) /\ qhead' = qhead /\ wi' = 0
      /\ db' = cleanAll(db) /\ trail' = trail /\ confl' = confl /\ pc' = ret
      /\ PropagateUnchanged
  BY DEF PropagateDone
<1>2. /\ AllVars \subseteq Nat /\ DbInv(db, AllVars)
      /\ TrailType(trail, trail_lim, AllVars) /\ ReasonInv(db, trail)
      /\ DecisionInv(db, trail, trail_lim) /\ FlowInv /\ ConflInv
  BY DEF BaseInv, VarsInv, TrailOK
<1>3. Cleaned(db, db', AllVars)
  BY <1>1, <1>2, CleanIs
<1>4. live(db') = live(db) /\ (\A r : lits(db', r) = lits(db, r)) /\ db'.reason = db.reason
  BY <1>3 DEF Cleaned, live, lits
<1>5. ReasonInv(db', trail) /\ DecisionInv(db', trail, trail_lim)
  BY <1>2, <1>4, SameReasons
<1>6. /\ trail_lim' = trail_lim /\ ret' = ret /\ ok' = ok
  BY <1>1 DEF PropagateUnchanged
<1>7. FlowInv'
  BY <1>1, <1>2, <1>6 DEF FlowInv
<1>8. ConflInv'
  <2>1. SUFFICES ASSUME confl # CRef_Undef PROVE ConflInv'
    BY <1>1 DEF ConflInv
  <2>2. ConflictInv /\ pc' \in {"add", "search"} /\ qhead' = Len(trail')
    BY <1>1, <1>2, <2>1 DEF ConflInv, FlowInv
  <2>3. ConflictInv'
    BY <1>1, <1>4, <1>6, <2>2 DEF ConflictInv, IsFalse
  <2>4. QED
    BY <2>2, <2>3 DEF ConflInv
<1>9. DbInv(db', AllVars)
  BY <1>3 DEF Cleaned
<1>10. WalkInv'
  BY <1>1, NoWalk
<1>11. QED
  BY <1>1, <1>5, <1>7, <1>8, <1>9, <1>10, QuietStep

(* The watcher that propagate() visits.                                    *)
VisitedWatcher(p, cr, b) ==
    /\ pc = "propagate" /\ wi \in 1 .. Len(db.watches[p])
    /\ qhead \in 1 .. Len(trail) /\ p = trail[qhead] /\ p \in Lits(AllVars)
    /\ cr = db.watches[p][wi].cref /\ Watched = db.watches[p][wi] /\ p0 = p
    /\ cr \in live(db) /\ cr \in 1 .. Len(db.ca) /\ cr \in Nat
    /\ Turned = b
    /\ Permuted(lits(db, cr), b, AllVars)
    /\ {b[1], b[2]} = {lits(db, cr)[1], lits(db, cr)[2]}
    /\ b[2] = neg(p)
    /\ b = lits(db, cr) \/ lits(db, cr)[1] = neg(p)
    /\ IsLits(b, AllVars)
    /\ db.dirties = {} /\ confl = CRef_Undef
    /\ \A k \in 1 .. Len(trail_lim) : trail_lim[k] < qhead

(* What a watcher that propagate looks at is about: the clause watches the *)
(* false literal, whichever of the first two it was.                       *)
LEMMA VisitIs ==
    ASSUME BaseInv, Visiting
    PROVE  VisitedWatcher(p0, Watched.cref, Turned)
<1> DEFINE p == p0
           cr == Watched.cref
           a == lits(db, cr)
           V == AllVars
<1>1. /\ V \in SUBSET Nat /\ DbInv(db, V) /\ TrailType(trail, trail_lim, V)
      /\ FlowInv /\ WalkInv /\ DbType(db, V) /\ WatchInv(db, V)
  BY DEF BaseInv, VarsInv, TrailOK, DbInv
<1>2. pc = "propagate" /\ wi # 0 /\ ~(wi > Len(db.watches[p]))
  BY DEF Visiting, AtListEnd
<1>3. /\ qhead \in 1 .. Len(trail) /\ db.dirties = {} /\ confl = CRef_Undef
      /\ \A k \in 1 .. Len(trail_lim) : trail_lim[k] < qhead
  <2>1. Len(trail) \in Nat
    BY <1>1, TrailIs
  <2>2. QED
    BY <1>1, <1>2, <2>1 DEF WalkInv, FlowInv
<1>4. p = trail[qhead] /\ p \in Lits(V)
  BY <1>1, <1>3, TrailIs DEF p0
<1> HIDE DEF p
<1>5. wi \in 1 .. Len(db.watches[p])
  <2>1. Len(db.watches[p]) \in Nat
    BY <1>1, <1>4 DEF DbType
  <2>2. QED
    BY <1>1, <1>2, <2>1 DEF FlowInv
<1>6. Watched = db.watches[p][wi]
  BY DEF Watched, p
<1>7. GoodWatcher(db, p, Watched)
  BY <1>1, <1>4, <1>5, <1>6 DEF WatchInv, GoodList
<1>8. cr \in 1 .. Len(db.ca) /\ neg(p) \in {a[1], a[2]} /\ ~db.ca[cr].mark
  BY <1>3, <1>7 DEF GoodWatcher
<1>9. /\ IsLits(a, V) /\ a[1] # a[2] /\ cr \in live(db) /\ cr \in Nat
      /\ Len(a) \in Nat /\ Len(a) >= 2
  <2> HIDE DEF cr, V
  <2>1. /\ lits(db, cr) \in Seq(Lits(V)) /\ Len(lits(db, cr)) \in Nat /\ Len(lits(db, cr)) >= 2
        /\ (\A i, j \in 1 .. Len(lits(db, cr)) :
              var(lits(db, cr)[i]) = var(lits(db, cr)[j]) => i = j)
        /\ cr \in live(db) <=> ~db.ca[cr].mark
    BY <1>1, <1>8, ClauseIs
  <2>2. IsLits(a, V)
    BY <2>1 DEF IsLits
  <2>3. cr \in Nat
    BY <1>8
  <2>4. a[1] # a[2]
    <3>1. 1 \in 1 .. Len(a) /\ 2 \in 1 .. Len(a)
      BY <2>1
    <3>2. QED
      BY <2>1, <3>1
  <2>5. QED
    BY <1>8, <2>1, <2>2, <2>3, <2>4
<1> HIDE DEF a, cr
<1>10. Turned = IF a[1] = neg(p) THEN [a EXCEPT ![1] = a[2], ![2] = a[1]] ELSE a
  BY DEF Turned, a, cr, p
<1> DEFINE b == Turned
<1>11. CASE a[1] = neg(p)
  <2>1. b = Swap(a, 1, 2)
    BY <1>10, <1>11, Zenon DEF Swap
  <2>2. SwapOf(a, b, V, 1, 2)
    <3>1. 1 \in 1 .. Len(a) /\ 2 \in 1 .. Len(a) /\ 1 # 2
      BY <1>9
    <3> HIDE DEF b
    <3>2. QED
      BY <1>9, <2>1, <3>1, SwapIs
  <2> HIDE DEF b
  <2>3. Permuted(a, b, V) /\ b[1] = a[2] /\ b[2] = a[1] /\ IsLits(b, V)
    BY <1>9, <2>2 DEF SwapOf, Permuted
  <2>4. QED
    BY <1>1, <1>2, <1>3, <1>4, <1>5, <1>6, <1>8, <1>9, <1>11, <2>3 DEF VisitedWatcher, a, cr, p, b
<1>12. CASE a[1] # neg(p)
  <2>1. b = a /\ Permuted(a, b, V) /\ b[2] = neg(p)
    BY <1>8, <1>9, <1>10, <1>12 DEF Permuted
  <2> HIDE DEF b
  <2>2. QED
    BY <1>1, <1>2, <1>3, <1>4, <1>5, <1>6, <1>8, <1>9, <2>1 DEF VisitedWatcher, a, cr, p, b
<1>13. QED
  BY <1>11, <1>12

-----------------------------------------------------------------------------
(* The literals of the clause that is visited.                             *)
LEMMA VisitedClause ==
    ASSUME NEW p, NEW cr, NEW b, VisitedWatcher(p, cr, b), AllVars \subseteq Nat
    PROVE  /\ IsLits(b, AllVars) /\ Len(b) \in Nat /\ Len(b) >= 2
           /\ \A k \in 1 .. Len(b) : b[k] \in Lits(AllVars) /\ b[k] \in Nat
           /\ b[2] = neg(p) /\ p \in Nat /\ neg(neg(p)) = p
           /\ \A q : q \in ToSet(b) <=> \E k \in 1 .. Len(b) : b[k] = q
<1>1. IsLits(b, AllVars) /\ b[2] = neg(p) /\ p \in Lits(AllVars)
  BY Zenon DEF VisitedWatcher
<1>2. b \in Seq(Lits(AllVars)) /\ Len(b) \in Nat /\ Len(b) >= 2
  BY <1>1 DEF IsLits
<1>3. \A k \in 1 .. Len(b) : b[k] \in Lits(AllVars) /\ b[k] \in Nat
  BY <1>2, LitsAre
<1>4. p \in Nat /\ neg(neg(p)) = p
  BY <1>1, LitsAre, Negation DEF Literal
<1>5. \A q : q \in ToSet(b) <=> \E k \in 1 .. Len(b) : b[k] = q
  BY <1>2, ToSetIs
<1>6. QED
  BY <1>1, <1>2, <1>3, <1>4, <1>5

(* A literal and its opposite are never both on the trail.                 *)
LEMMA NotBoth ==
    ASSUME NEW V \in SUBSET Nat, TrailType(trail, trail_lim, V), NEW q, IsTrue(q), IsFalse(q)
    PROVE  FALSE
<1>1. PICK i \in 1 .. Len(trail) : trail[i] = q
  BY TrailIs DEF IsTrue
<1>2. PICK j \in 1 .. Len(trail) : trail[j] = neg(q)
  BY TrailIs DEF IsFalse
<1>3. q \in Nat
  <2>1. trail[i] \in Lits(V)
    BY TrailIs
  <2>2. QED
    BY <1>1, <2>1, LitsAre
<1>4. neg(q) # q /\ var(neg(q)) = var(q)
  BY <1>3, Negation DEF Literal
<1>5. i = j
  BY <1>1, <1>2, <1>4, TrailIs
<1>6. QED
  BY <1>1, <1>2, <1>4, <1>5

(* The reason of an assignment is never turned: its first literal is true. *)
LEMMA ReasonNotTurned ==
    ASSUME BaseInv, NEW p, NEW cr, NEW b, VisitedWatcher(p, cr, b),
           NEW i \in 1 .. Len(trail), db.reason[var(trail[i])] = cr
    PROVE  b = lits(db, cr) /\ IsTrue(b[1])
<1>1. /\ AllVars \in SUBSET Nat /\ TrailType(trail, trail_lim, AllVars) /\ ReasonInv(db, trail)
  BY DEF BaseInv, VarsInv, TrailOK
<1>2. /\ cr \in 1 .. Len(db.ca) /\ (b = lits(db, cr) \/ lits(db, cr)[1] = neg(p))
      /\ qhead \in 1 .. Len(trail) /\ p = trail[qhead]
  BY DEF VisitedWatcher
<1>3. cr # CRef_Undef
  BY <1>2 DEF CRef_Undef
<1>4. lits(db, cr)[1] = trail[i]
  BY <1>1, <1>3 DEF ReasonInv
<1>5. IsTrue(trail[i]) /\ IsTrue(p)
  BY <1>1, <1>2, TrailIs DEF IsTrue
<1>6. lits(db, cr)[1] # neg(p)
  <2>1. SUFFICES ASSUME lits(db, cr)[1] = neg(p) PROVE FALSE
    OBVIOUS
  <2>2. IsTrue(neg(p))
    BY <1>4, <1>5, <2>1
  <2>3. IsFalse(p)
    BY <2>2 DEF IsFalse, IsTrue
  <2>4. QED
    BY <1>1, <1>5, <2>3, NotBoth
<1>7. QED
  BY <1>2, <1>4, <1>5, <1>6

(* A clause whose first literal stays in place stays the reason it was.    *)
LEMMA ShuffledReasons ==
    ASSUME BaseInv, NEW p, NEW cr, NEW b, VisitedWatcher(p, cr, b),
           NEW c, c = b \/ ~IsTrue(b[1]), NEW e, Shuffled(db, e, AllVars, cr, c)
    PROVE  ReasonInv(e, trail) /\ DecisionInv(e, trail, trail_lim)
<1>1. /\ TrailType(trail, trail_lim, AllVars) /\ ReasonInv(db, trail)
      /\ DecisionInv(db, trail, trail_lim) /\ DbType(db, AllVars)
  BY DEF BaseInv, TrailOK, DbInv
<1>2. /\ live(e) = live(db) /\ e.reason = db.reason /\ lits(e, cr) = c
      /\ \A r \in 1 .. Len(db.ca) : r # cr => lits(e, r) = lits(db, r)
  BY DEF Shuffled
<1>3. ASSUME NEW i \in 1 .. Len(trail), db.reason[var(trail[i])] \in live(db)
      PROVE  lits(e, db.reason[var(trail[i])]) = lits(db, db.reason[var(trail[i])])
  <2>1. CASE db.reason[var(trail[i])] = cr
    <3>1. b = lits(db, cr) /\ IsTrue(b[1])
      BY <2>1, ReasonNotTurned
    <3>2. QED
      BY <1>2, <2>1, <3>1
  <2>2. CASE db.reason[var(trail[i])] # cr
    <3>1. db.reason[var(trail[i])] \in 1 .. Len(db.ca)
      BY <1>1, <1>3, LiveIs
    <3>2. QED
      BY <1>2, <2>2, <3>1
  <2>3. QED
    BY <2>1, <2>2
<1>4. QED
  BY <1>1, <1>2, <1>3, SameReasons

(* The clause that is visited stays in the list, turned.                   *)
LEMMA KeptIsShuffled ==
    ASSUME BaseInv, NEW p, NEW cr, NEW b, VisitedWatcher(p, cr, b), cr = Watched.cref,
           NEW e, e = KeepWatch(b)
    PROVE  /\ Shuffled(db, e, AllVars, cr, b)
           /\ SameCRefs(db, e, AllVars)
<1>1. AllVars \in SUBSET Nat /\ DbInv(db, AllVars)
  BY DEF BaseInv, VarsInv
<1>2. /\ p \in Lits(AllVars) /\ wi \in 1 .. Len(db.watches[p]) /\ cr = db.watches[p][wi].cref
      /\ Permuted(lits(db, cr), b, AllVars) /\ p0 = p
      /\ {b[1], b[2]} = {lits(db, cr)[1], lits(db, cr)[2]}
  BY DEF VisitedWatcher
<1>3. KeepTurned(db, e, p, wi, cr, b)
  BY <1>2, Zenon DEF KeepWatch, KeepTurned
<1>4. QED
  BY <1>1, <1>2, <1>3, KeepWatchIs

(* A step of the visit that goes on.                                       *)
LEMMA WalkOn ==
    ASSUME BaseInv, Visiting, PropagateUnchanged, trail' = trail, qhead' = qhead, confl' = confl,
           pc' = pc, wi' \in Nat, db'.dirties = db.dirties
    PROVE  FlowInv' /\ WalkInv' /\ ConflInv'
<1>1. VisitedWatcher(p0, Watched.cref, Turned) /\ FlowInv
  BY VisitIs DEF BaseInv
<1>2. /\ pc = "propagate" /\ qhead \in 1 .. Len(trail) /\ db.dirties = {} /\ confl = CRef_Undef
      /\ \A k \in 1 .. Len(trail_lim) : trail_lim[k] < qhead
  BY <1>1 DEF VisitedWatcher
<1>3. trail_lim' = trail_lim /\ ret' = ret /\ ok' = ok
  BY DEF PropagateUnchanged
<1>4. FlowInv'
  BY <1>1, <1>3 DEF FlowInv
<1>5. qhead # 0
  BY <1>2
<1>6. WalkInv'
  BY <1>2, <1>3, <1>5 DEF WalkInv
<1>7. QED
  BY <1>2, <1>4, <1>6, NoConfl

(* The blocker is true: the next watcher.                                  *)
LEMMA BlockerTrueBase ==
    ASSUME BaseInv, BlockerTrue
    PROVE  BaseInv'
<1>1. Visiting /\ wi' = wi + 1 /\ db' = db /\ trail' = trail /\ qhead' = qhead
      /\ confl' = confl /\ pc' = pc /\ PropagateUnchanged
  BY DEF BlockerTrue
<1>2. wi' \in Nat
  BY <1>1 DEF BaseInv, FlowInv
<1>3. FlowInv' /\ WalkInv' /\ ConflInv'
  BY <1>1, <1>2, WalkOn
<1>4. DbInv(db, AllVars) /\ ReasonInv(db, trail) /\ DecisionInv(db, trail, trail_lim)
  BY DEF BaseInv, TrailOK
<1>5. QED
  BY <1>1, <1>3, <1>4, QuietStep

(* The first literal is true: it becomes the blocker.                      *)
LEMMA FirstTrueBase ==
    ASSUME BaseInv, FirstTrue
    PROVE  BaseInv'
<1>1. Visiting /\ wi' = wi + 1 /\ db' = KeepWatch(Turned) /\ trail' = trail /\ qhead' = qhead
      /\ confl' = confl /\ pc' = pc /\ PropagateUnchanged
  BY DEF FirstTrue
<1> DEFINE p == p0
           cr == Watched.cref
           b == Turned
<1>2. VisitedWatcher(p, cr, b)
  BY <1>1, VisitIs
<1>3. db' = KeepWatch(b)
  BY <1>1
<1> HIDE DEF b
<1>4. Shuffled(db, db', AllVars, cr, b)
  BY <1>2, <1>3, KeptIsShuffled
<1>5. ReasonInv(db', trail) /\ DecisionInv(db', trail, trail_lim)
  BY <1>2, <1>4, ShuffledReasons
<1>6. db'.dirties = db.dirties /\ DbInv(db', AllVars)
  BY <1>4 DEF Shuffled
<1>7. wi' \in Nat
  BY <1>1 DEF BaseInv, FlowInv
<1>8. FlowInv' /\ WalkInv' /\ ConflInv'
  BY <1>1, <1>6, <1>7, WalkOn
<1>9. QED
  BY <1>1, <1>5, <1>6, <1>8, QuietStep

(* Another literal is watched instead.                                     *)
LEMMA MoveWatchIsShuffled ==
    ASSUME BaseInv, NEW p, NEW cr, NEW b, VisitedWatcher(p, cr, b), cr = Watched.cref, b = Turned,
           NEW k, k = Min(NewWatches(b)), MoveWatch, NEW c, c = Swap(b, 2, k)
    PROVE  /\ k \in NewWatches(b) /\ k \in 3 .. Len(b)
           /\ Shuffled(db, db', AllVars, cr, c)
           /\ WatchMoved(db, db', AllVars, p, wi, neg(b[k]), NewWatcher(cr, b[1]))
<1>1. /\ NewWatches(b) # {}
      /\ db' = [db EXCEPT !.ca[Watched.cref].lits = [b EXCEPT ![2] = b[k], ![k] = b[2]],
                          !.watches[p0] = RemoveAt(@, wi),
                          !.watches[neg(b[k])] =
                              Append(@, [cref |-> Watched.cref, blocker |-> b[1]])]
  BY Zenon DEF MoveWatch
<1>2. AllVars \in SUBSET Nat /\ DbInv(db, AllVars)
  BY DEF BaseInv, VarsInv
<1>3. /\ p \in Lits(AllVars) /\ wi \in 1 .. Len(db.watches[p]) /\ cr = db.watches[p][wi].cref
      /\ Permuted(lits(db, cr), b, AllVars) /\ p0 = p /\ b[2] = neg(p) /\ cr \in live(db)
      /\ {b[1], b[2]} = {lits(db, cr)[1], lits(db, cr)[2]}
  BY DEF VisitedWatcher
<1>4. k \in NewWatches(b) /\ k \in 3 .. Len(b)
  <2>1. NewWatches(b) \in SUBSET Nat
    BY DEF NewWatches
  <2>2. k \in NewWatches(b)
    BY <1>1, <2>1, MinIsLeast
  <2>3. QED
    BY <2>2 DEF NewWatches
<1>5. WatchTaken(db, db', p, wi, cr, b, k, c)
  BY <1>1, <1>3, Zenon DEF Swap, WatchTaken
<1>6. QED
  BY <1>2, <1>3, <1>4, <1>5, MoveWatchIs

(* A watch that moves: the watcher leaves one list and is appended to      *)
(* another one.                                                            *)
LEMMA MoveWatchBase ==
    ASSUME BaseInv, MoveWatch
    PROVE  BaseInv'
<1>1. Visiting /\ wi' = wi /\ ~IsTrue(Turned[1]) /\ trail' = trail /\ qhead' = qhead
      /\ confl' = confl /\ pc' = pc /\ PropagateUnchanged
  BY DEF MoveWatch
<1> DEFINE cr == Watched.cref
           b == Turned
           k == Min(NewWatches(b))
           c == Swap(b, 2, k)
<1>2. VisitedWatcher(p0, cr, b) /\ ~IsTrue(b[1])
  BY <1>1, VisitIs
<1> HIDE DEF b, k, c
<1>3. Shuffled(db, db', AllVars, cr, c)
  BY <1>2, MoveWatchIsShuffled DEF b, k, c
<1>4. ReasonInv(db', trail) /\ DecisionInv(db', trail, trail_lim)
  BY <1>2, <1>3, ShuffledReasons
<1>5. db'.dirties = db.dirties /\ DbInv(db', AllVars)
  BY <1>3 DEF Shuffled
<1>6. wi' \in Nat
  BY <1>1 DEF BaseInv, FlowInv
<1>7. FlowInv' /\ WalkInv' /\ ConflInv'
  BY <1>1, <1>5, <1>6, WalkOn
<1>8. QED
  BY <1>1, <1>4, <1>5, <1>7, QuietStep

-----------------------------------------------------------------------------
(* The variable of a literal that is neither true nor false.               *)
LEMMA Unassigned ==
    ASSUME NEW V \in SUBSET Nat, TrailType(trail, trail_lim, V), NEW q \in Nat, IsUndef(q)
    PROVE  \A i \in 1 .. Len(trail) : var(trail[i]) # var(q)
<1>1. SUFFICES ASSUME NEW i \in 1 .. Len(trail), var(trail[i]) = var(q) PROVE FALSE
  OBVIOUS
<1>2. trail[i] \in Nat
  <2>1. trail[i] \in Lits(V)
    BY TrailIs
  <2>2. QED
    BY <2>1, LitsAre
<1>3. trail[i] = q \/ trail[i] = neg(q)
  BY <1>1, <1>2, TwoLiterals DEF Literal
<1>4. trail[i] \in ToSet(trail)
  BY TrailIs
<1>5. QED
  BY <1>3, <1>4 DEF IsUndef, IsTrue, IsFalse

(* The trail s and the database e once p is assigned with the reason r.    *)
Enqueued(d, e, t, s, lim, V, p, r) ==
    /\ DbInv(e, V)
    /\ SameStore(d, e)
    /\ e.watches = d.watches
    /\ live(e) = live(d)
    /\ TrailType(s, lim, V)
    /\ ReasonInv(e, s)
    /\ DecisionInv(e, s, lim)
    /\ Begins(t, s)
    /\ Len(s) = Len(t) + 1
    /\ s[Len(t) + 1] = p
    /\ e.reason[var(p)] = r

(* A reason for the assignment of p at the end of the trail t.             *)
IsReason(d, t, p, r) ==
    /\ r \in live(d)
    /\ lits(d, r)[1] = p
    /\ \A k \in 2 .. Len(lits(d, r)) : neg(lits(d, r)[k]) \in ToSet(t)

(* The assignment at the end needs a reason above the root, but for the    *)
(* decision that begins a level.                                           *)
LEMMA EnqueueFrom ==
    ASSUME NEW V \in SUBSET Nat, NEW t, NEW lim, TrailType(t, lim, V), NEW d, DbInv(d, V),
           ReasonInv(d, t), DecisionInv(d, t, lim), NEW p \in Lits(V),
           \A i \in 1 .. Len(t) : var(t[i]) # var(p), NEW r \in Int,
           r # CRef_Undef => IsReason(d, t, p, r),
           r # CRef_Undef \/ Len(lim) = 0 \/ (Len(lim) >= 1 /\ lim[Len(lim)] = Len(t)),
           NEW s, s = Append(t, p), NEW e, Reasoned(d, e, V, var(p), r)
    PROVE  Enqueued(d, e, t, s, lim, V, p, r)
<1>3. /\ DbInv(e, V) /\ SameStore(d, e) /\ e.reason[var(p)] = r
      /\ \A u \in V : u # var(p) => e.reason[u] = d.reason[u]
  BY DEF Reasoned
<1>4. live(e) = live(d) /\ \A c : lits(e, c) = lits(d, c)
  BY <1>3 DEF SameStore, live, lits
<1>5. TrailType(s, lim, V) /\ Begins(t, s) /\ Len(s) = Len(t) + 1 /\ s[Len(t) + 1] = p
  <2>1. TrailType(s, lim, V)
    BY Pushed
  <2>2. Begins(t, s)
    BY Pushed
  <2>3. Len(s) = Len(t) + 1
    BY Pushed
  <2>4. s[Len(t) + 1] = p
    BY Pushed
  <2>5. QED
    BY <2>1, <2>2, <2>3, <2>4
<1>6. ReasonInv(e, t) /\ DecisionInv(e, t, lim)
  <2>1. \A i \in 1 .. Len(t) : var(t[i]) \in V
    <3>1. \A i \in 1 .. Len(t) : t[i] \in Lits(V)
      BY TrailIs
    <3>2. QED
      BY <3>1, LitsAre
  <2>2. \A i \in 1 .. Len(t) : e.reason[var(t[i])] = d.reason[var(t[i])]
    BY <1>3, <2>1
  <2>3. QED
    BY <1>4, <2>2, SameReasons
<1>7. ReasonInv(e, s)
  <2>1. e.reason[var(p)] # CRef_Undef =>
           /\ e.reason[var(p)] \in live(e) /\ lits(e, e.reason[var(p)])[1] = p
           /\ \A k \in 2 .. Len(lits(e, e.reason[var(p)])) :
                neg(lits(e, e.reason[var(p)])[k]) \in ToSet(t)
    BY <1>3, <1>4 DEF IsReason
  <2>2. QED
    BY <1>5, <1>6, <2>1, ReasonsPushed
<1>8. DecisionInv(e, s, lim)
  BY <1>3, <1>5, <1>6, DecisionsPushed
<1>9. e.watches = d.watches
  BY DEF Reasoned
<1>10. QED
  BY <1>3, <1>4, <1>5, <1>7, <1>8, <1>9 DEF Enqueued

(* uncheckedEnqueue of an unassigned literal, with the clause that forces  *)
(* it or without one.                                                      *)
LEMMA EnqueueIs ==
    ASSUME NEW V \in SUBSET Nat, NEW t, NEW lim, TrailType(t, lim, V), NEW d, DbInv(d, V),
           ReasonInv(d, t), DecisionInv(d, t, lim), NEW p \in Lits(V),
           \A i \in 1 .. Len(t) : var(t[i]) # var(p), NEW r \in Int,
           r # CRef_Undef => IsReason(d, t, p, r),
           r # CRef_Undef \/ Len(lim) = 0 \/ (Len(lim) >= 1 /\ lim[Len(lim)] = Len(t)),
           NEW s, s = Append(t, p), NEW e, e = [d EXCEPT !.reason[var(p)] = r]
    PROVE  Enqueued(d, e, t, s, lim, V, p, r)
<1>1. var(p) \in V
  BY LitsAre
<1>2. Reasoned(d, e, V, var(p), r)
  BY <1>1, ReasonIs, Zenon
<1>3. QED
  BY <1>2, EnqueueFrom, Zenon

(* The other literals of the clause that is visited, when none of them can *)
(* be watched.                                                             *)
LEMMA OthersFalse ==
    ASSUME BaseInv, NEW p, NEW cr, NEW b, VisitedWatcher(p, cr, b), NewWatches(b) = {}
    PROVE  \A k \in 2 .. Len(b) : IsFalse(b[k])
<1>1. AllVars \in SUBSET Nat /\ TrailType(trail, trail_lim, AllVars)
  BY DEF BaseInv, VarsInv, TrailOK
<1>2. b[2] = neg(p) /\ neg(neg(p)) = p /\ Len(b) \in Nat
  BY <1>1, VisitedClause
<1>3. IsFalse(b[2])
  <2>1. p \in ToSet(trail)
    BY <1>1, TrailIs DEF VisitedWatcher
  <2>2. QED
    BY <1>2, <2>1 DEF IsFalse
<1>4. \A k \in 3 .. Len(b) : IsFalse(b[k])
  BY DEF NewWatches
<1>5. \A k \in 2 .. Len(b) : k = 2 \/ k \in 3 .. Len(b)
  BY <1>2
<1>6. QED
  BY <1>3, <1>4, <1>5

(* The first literal is the only one that is not false: it is assigned.    *)
LEMMA UnitBase ==
    ASSUME BaseInv, Unit
    PROVE  BaseInv'
<1> DEFINE p == p0
           cr == Watched.cref
           b == Turned
           V == AllVars
           d == KeepWatch(b)
<1>1. /\ Visiting /\ IsUndef(b[1]) /\ NewWatches(b) = {}
      /\ trail' = Append(trail, b[1]) /\ db' = [d EXCEPT !.reason[var(b[1])] = cr]
      /\ wi' = wi + 1 /\ qhead' = qhead /\ confl' = confl /\ pc' = pc /\ PropagateUnchanged
  BY DEF Unit, Enqueue
<1>2. VisitedWatcher(p, cr, b)
  BY <1>1, VisitIs
<1> HIDE DEF b, d, p, V
<1>3. /\ V \in SUBSET Nat /\ TrailType(trail, trail_lim, V) /\ FlowInv /\ VarsInv /\ ClientInv
      /\ V = AllVars
  BY DEF BaseInv, VarsInv, TrailOK, V
<1>4. Shuffled(db, d, V, cr, b)
  BY <1>2, KeptIsShuffled DEF d, V
<1>5. ReasonInv(d, trail) /\ DecisionInv(d, trail, trail_lim)
  BY <1>2, <1>4, ShuffledReasons DEF V
<1>6. /\ DbInv(d, V) /\ live(d) = live(db) /\ lits(d, cr) = b /\ d.dirties = db.dirties
  BY <1>4 DEF Shuffled
<1>7. b[1] \in Lits(V) /\ b[1] \in Nat /\ Len(b) \in Nat
  <2>1. Len(b) \in Nat /\ Len(b) >= 2 /\ \A k \in 1 .. Len(b) : b[k] \in Lits(V) /\ b[k] \in Nat
    BY <1>2, <1>3, VisitedClause
  <2>2. QED
    BY <2>1
<1>8. \A i \in 1 .. Len(trail) : var(trail[i]) # var(b[1])
  BY <1>1, <1>3, <1>7, Unassigned
<1>9. cr \in live(db) /\ cr \in Nat /\ cr # CRef_Undef
  <2>1. cr \in live(db) /\ cr \in Nat /\ cr \in 1 .. Len(db.ca)
    BY <1>2 DEF VisitedWatcher
  <2>2. cr # CRef_Undef
    BY <2>1 DEF CRef_Undef
  <2>3. QED
    BY <2>1, <2>2
<1>10. IsReason(d, trail, b[1], cr)
  <2>1. \A k \in 2 .. Len(b) : IsFalse(b[k])
    BY <1>1, <1>2, OthersFalse
  <2>2. QED
    BY <1>6, <1>9, <2>1 DEF IsReason, IsFalse
<1>11. Enqueued(d, db', trail, trail', trail_lim, V, b[1], cr)
  <2>1. cr \in Int
    BY <1>9
  <2> HIDE DEF cr
  <2>2. trail' = Append(trail, b[1]) /\ db' = [d EXCEPT !.reason[var(b[1])] = cr]
    BY <1>1
  <2>3. QED
    BY <1>3, <1>5, <1>6, <1>7, <1>8, <1>9, <1>10, <2>1, <2>2, EnqueueIs, Zenon
<1>12. /\ DbInv(db', V) /\ TrailType(trail', trail_lim, V) /\ ReasonInv(db', trail')
       /\ DecisionInv(db', trail', trail_lim) /\ Begins(trail, trail') /\ db'.dirties = db.dirties
       /\ Len(trail') = Len(trail) + 1
  BY <1>6, <1>11 DEF Enqueued, SameStore
<1>13. /\ ok' = ok /\ decision' = decision /\ order_heap' = order_heap /\ trail_lim' = trail_lim
       /\ assumptions' = assumptions /\ answer' = answer /\ added' = added /\ toAdd' = toAdd
       /\ ret' = ret
  BY <1>1 DEF PropagateUnchanged, searchVars, resultVars, clientVars
<1>14. AllVars' = V /\ assigned \subseteq assigned'
  <2>1. VarsOf(ToSet(trail)) \subseteq VarsOf(ToSet(trail'))
    BY <1>3, <1>12, MoreAssigned
  <2>2. QED
    BY <1>3, <1>13, <2>1 DEF AllVars, assigned
<1>15. VarsInv'
  <2>1. ok' \in BOOLEAN
    BY <1>3, <1>13 DEF VarsInv
  <2>2. QED
    BY <1>3, <1>13, <1>14, <2>1, SameVars
<1>16. ClientInv'
  BY <1>3, <1>13, <1>14, SameClient
<1>17. TrailOK'
  BY <1>12, <1>13, <1>14, TrailAfter
<1>18. /\ pc = "propagate" /\ qhead \in 1 .. Len(trail) /\ db.dirties = {} /\ confl = CRef_Undef
       /\ \A k \in 1 .. Len(trail_lim) : trail_lim[k] < qhead
  BY <1>2 DEF VisitedWatcher
<1>19. qhead # 0 /\ wi' \in Nat /\ Len(trail) \in Nat
  BY <1>1, <1>3, <1>18, TrailIs DEF FlowInv
<1>20. FlowInv'
  BY <1>1, <1>3, <1>12, <1>13, <1>18, <1>19 DEF FlowInv
<1>21. WalkInv'
  BY <1>1, <1>12, <1>13, <1>18, <1>19 DEF WalkInv
<1>22. ConflInv'
  BY <1>1, <1>18, NoConfl
<1>23. QED
  BY <1>12, <1>14, <1>15, <1>16, <1>17, <1>20, <1>21, <1>22, BaseAfter

(* All its literals are false: a conflict.                                 *)
LEMMA ConflictingBase ==
    ASSUME BaseInv, Conflicting
    PROVE  BaseInv'
<1> DEFINE p == p0
           cr == Watched.cref
           b == Turned
<1>1. /\ Visiting /\ IsFalse(b[1]) /\ NewWatches(b) = {} /\ db' = KeepWatch(b) /\ confl' = cr
      /\ wi' = 0 /\ qhead' = Len(trail) /\ trail' = trail /\ pc' = pc /\ PropagateUnchanged
  BY DEF Conflicting
<1>2. VisitedWatcher(p, cr, b)
  BY <1>1, VisitIs
<1> HIDE DEF b, p
<1>3. /\ AllVars \in SUBSET Nat /\ TrailType(trail, trail_lim, AllVars) /\ FlowInv
  BY DEF BaseInv, VarsInv, TrailOK
<1>4. Shuffled(db, db', AllVars, cr, b)
  BY <1>1, <1>2, KeptIsShuffled
<1>5. ReasonInv(db', trail) /\ DecisionInv(db', trail, trail_lim)
  BY <1>2, <1>4, ShuffledReasons
<1>6. DbInv(db', AllVars) /\ live(db') = live(db) /\ lits(db', cr) = b
  BY <1>4 DEF Shuffled
<1>7. trail_lim' = trail_lim /\ ret' = ret /\ ok' = ok
  BY <1>1 DEF PropagateUnchanged
<1>8. /\ pc = "propagate" /\ qhead \in 1 .. Len(trail) /\ p = trail[qhead] /\ cr \in live(db)
      /\ \A k \in 1 .. Len(trail_lim) : trail_lim[k] < qhead
  BY <1>2 DEF VisitedWatcher
<1>9. Len(trail) \in Nat /\ \A k \in 1 .. Len(trail_lim) : trail_lim[k] \in Nat /\ trail_lim[k] <= Len(trail)
  BY <1>3, TrailIs
<1>10. FlowInv'
  BY <1>1, <1>3, <1>7, <1>8, <1>9 DEF FlowInv
<1>11. /\ Len(b) \in Nat /\ Len(b) >= 2 /\ b[2] = neg(p)
       /\ \A q : q \in ToSet(b) <=> \E k \in 1 .. Len(b) : b[k] = q
  BY <1>2, <1>3, VisitedClause
<1>12. \A q \in ToSet(b) : IsFalse(q)
  <2>1. \A k \in 2 .. Len(b) : IsFalse(b[k])
    BY <1>1, <1>2, OthersFalse
  <2>2. \A k \in 1 .. Len(b) : k = 1 \/ k \in 2 .. Len(b)
    BY <1>11
  <2>3. QED
    BY <1>1, <1>11, <2>1, <2>2
<1>13. ASSUME Len(trail_lim) >= 1
       PROVE  \E i \in 1 .. Len(trail) : trail_lim[Len(trail_lim)] < i /\ neg(trail[i]) \in ToSet(b)
  <2>1. Len(trail_lim) \in 1 .. Len(trail_lim)
    BY <1>3, <1>13, TrailIs
  <2>2. trail_lim[Len(trail_lim)] < qhead
    BY <1>8, <2>1
  <2>3. neg(trail[qhead]) \in ToSet(b)
    <3>1. 2 \in 1 .. Len(b)
      BY <1>11
    <3>2. QED
      BY <1>8, <1>11, <3>1
  <2>4. QED
    BY <1>8, <2>2, <2>3
<1> HIDE DEF cr
<1>14. ConflictInv'
  BY <1>1, <1>6, <1>7, <1>8, <1>12, <1>13 DEF ConflictInv, IsFalse
<1>15. ConflInv'
  BY <1>1, <1>8, <1>14 DEF ConflInv
<1>16. WalkInv'
  BY <1>1, NoWalk
<1>17. QED
  BY <1>1, <1>5, <1>6, <1>10, <1>15, <1>16, QuietStep

-----------------------------------------------------------------------------
(* The state over the variables W, as add_clause and solve() find it.      *)
VarsGrown(nv, W) ==
    /\ DbInv(nv.db, W)
    /\ TrailType(trail, trail_lim, W)
    /\ ReasonInv(nv.db, trail)
    /\ DecisionInv(nv.db, trail, trail_lim)
    /\ SameStore(db, nv.db)
    /\ live(nv.db) = live(db)
    /\ \A r : lits(nv.db, r) = lits(db, r)
    /\ nv.decision \in [W -> BOOLEAN] /\ DOMAIN nv.decision = W
    /\ \A v \in W : nv.decision[v] => v \in AllVars /\ decision[v]

(* After newVar everything that held of the old variables holds of all.    *)
LEMMA VarsGrownIs ==
    ASSUME BaseInv, NEW W, NEW C, Covering(W, C), NEW nv, NewState(nv, W)
    PROVE  VarsGrown(nv, W)
<1> DEFINE V == AllVars
<1>1. /\ V \in SUBSET W /\ W \in SUBSET Nat /\ DbInv(db, V) /\ TrailType(trail, trail_lim, V)
      /\ ReasonInv(db, trail) /\ DecisionInv(db, trail, trail_lim)
      /\ decision \in [V -> BOOLEAN]
  BY DEF Covering, BaseInv, VarsInv, TrailOK
<1>2. /\ nv.decision = [v \in W |-> IF v \in W \ V THEN FALSE ELSE decision[v]]
      /\ nv.db = Grew(db, V, W)
  BY DEF NewState
<1> HIDE DEF V
<1>3. MoreVars(db, nv.db, V, W)
  BY <1>1, <1>2, NewVarsIs
<1>4. /\ DbInv(nv.db, W) /\ SameStore(db, nv.db)
      /\ \A v \in V : nv.db.reason[v] = db.reason[v]
  BY <1>3 DEF MoreVars
<1>5. live(nv.db) = live(db) /\ \A r : lits(nv.db, r) = lits(db, r)
  BY <1>4 DEF SameStore, live, lits
<1>6. TrailType(trail, trail_lim, W)
  <2>1. Lits(V) \subseteq Lits(W)
    BY <1>1, MoreLits
  <2>2. trail \in Seq(Lits(V))
    BY <1>1 DEF TrailType
  <2>3. trail \in Seq(Lits(W))
    BY <2>1, <2>2, SeqWider
  <2>4. QED
    BY <1>1, <2>3 DEF TrailType
<1>7. \A i \in 1 .. Len(trail) : nv.db.reason[var(trail[i])] = db.reason[var(trail[i])]
  <2>1. \A i \in 1 .. Len(trail) : trail[i] \in Lits(V)
    BY <1>1, TrailIs
  <2>2. \A i \in 1 .. Len(trail) : var(trail[i]) \in V
    BY <1>1, <2>1, LitsAre
  <2>3. QED
    BY <1>4, <2>2
<1>8. ReasonInv(nv.db, trail) /\ DecisionInv(nv.db, trail, trail_lim)
  BY <1>1, <1>5, <1>7, SameReasons
<1>9. nv.decision \in [W -> BOOLEAN] /\ DOMAIN nv.decision = W
      /\ \A v \in W : nv.decision[v] => v \in V /\ decision[v]
  BY <1>1, <1>2
<1>10. QED
  BY <1>4, <1>5, <1>6, <1>8, <1>9 DEF VarsGrown, V

(* The variables after add_clause and solve().                             *)
LEMMA GrownVars ==
    ASSUME BaseInv, NEW W, NEW C, Covering(W, C), NEW nv, VarsGrown(nv, W),
           decision' = nv.decision, order_heap' = order_heap, assigned \subseteq assigned',
           assumptions' \in Seq(Lits(W)), ok' \in BOOLEAN,
           answer' \in {"none", "pending", "sat", "unsat"}
    PROVE  VarsInv' /\ AllVars' = W
<1>1. /\ AllVars \subseteq W /\ W \subseteq Nat /\ order_heap \subseteq AllVars
      /\ \A v \in AllVars : decision[v] => v \in assigned \/ v \in order_heap
  BY DEF Covering, BaseInv, VarsInv
<1>2. /\ decision' \in [W -> BOOLEAN] /\ DOMAIN decision' = W
      /\ \A v \in W : decision'[v] => v \in AllVars /\ decision[v]
  BY DEF VarsGrown
<1>3. AllVars' = W
  BY <1>2 DEF AllVars
<1>4. \A v \in W : decision'[v] => v \in assigned' \/ v \in order_heap'
  BY <1>1, <1>2
<1>5. QED
  BY <1>1, <1>2, <1>3, <1>4 DEF VarsInv

(* Between two calls there is no level, no conflict, nothing to propagate. *)
LEMMA IdleIs ==
    ASSUME BaseInv, pc = "idle"
    PROVE  /\ Len(trail_lim) = 0 /\ wi = 0 /\ confl = CRef_Undef /\ qhead = Len(trail)
           /\ Len(trail) \in Nat
<1>1. FlowInv /\ WalkInv /\ ConflInv /\ TrailType(trail, trail_lim, AllVars)
  BY DEF BaseInv, TrailOK
<1>2. QED
  BY <1>1, TrailIs DEF FlowInv, WalkInv, ConflInv

(* What addClause_ keeps of a clause that is not true and not a tautology. *)
Unfalsified(C) == {p \in C : ~IsFalse(p)}
Holds(C) == \E p \in C : IsTrue(p) \/ neg(p) \in C

(* add_clause sorts the literals that are not false at the root level.     *)
LEMMA UnfalsifiedIs ==
    ASSUME NEW W \in SUBSET Nat, NEW C, IsClause(C), \A p \in C : var(p) \in W, ~Holds(C),
           NEW c, c = Sorted(Unfalsified(C))
    PROVE  /\ c \in Seq(Lits(W)) /\ Len(c) \in Nat
           /\ ToSet(c) = Unfalsified(C)
           /\ \A i \in 1 .. Len(c) : c[i] \in Lits(W) /\ IsUndef(c[i])
           /\ Len(c) >= 2 => IsLits(c, W)
<1> DEFINE U == Unfalsified(C)
<1>1. C \in SUBSET Nat /\ IsFiniteSet(C)
  BY DEF IsClause
<1>2. U \in SUBSET Nat /\ IsFiniteSet(U) /\ U \subseteq C
  <2>1. U \subseteq C
    BY DEF Unfalsified
  <2>2. QED
    BY <1>1, <2>1, FS_Subset
<1>3. U \subseteq Lits(W)
  BY <1>1, <1>2, LitsAre
<1>4. \A p \in U : IsUndef(p) /\ neg(p) \notin C
  BY <1>2 DEF Unfalsified, Holds, IsUndef
<1> HIDE DEF U
<1>5. /\ c \in Seq(U) /\ Len(c) \in Nat
      /\ \A i, j \in 1 .. Len(c) : c[i] = c[j] => i = j
      /\ \A x \in U : \E i \in 1 .. Len(c) : c[i] = x
  BY <1>2, SortedIs DEF U
<1>6. \A i \in 1 .. Len(c) : c[i] \in U
  BY <1>5
<1>7. c \in Seq(Lits(W))
  BY <1>3, <1>5, SeqWider
<1>8. ToSet(c) = U
  <2>1. \A x : x \in ToSet(c) <=> \E i \in 1 .. Len(c) : c[i] = x
    BY <1>5, ToSetIs
  <2>2. QED
    BY <1>5, <1>6, <2>1
<1>9. \A i, j \in 1 .. Len(c) : var(c[i]) = var(c[j]) => i = j
  <2>1. ASSUME NEW i \in 1 .. Len(c), NEW j \in 1 .. Len(c), var(c[i]) = var(c[j]) PROVE i = j
    <3>1. c[i] \in Nat /\ c[j] \in Nat /\ c[i] \in U /\ c[j] \in C
      BY <1>2, <1>6
    <3>2. c[j] = c[i] \/ c[j] = neg(c[i])
      BY <2>1, <3>1, TwoLiterals DEF Literal
    <3>3. QED
      BY <1>4, <1>5, <3>1, <3>2
  <2>2. QED
    BY <2>1
<1>10. QED
  BY <1>3, <1>4, <1>5, <1>6, <1>7, <1>8, <1>9 DEF IsLits, U

(* What add_clause does, in the state that newVars has made.               *)
AddOutcome(C, nv, c) ==
    \/ /\ db' = nv.db /\ trail' = trail /\ pc' = pc /\ ret' = ret /\ ok' \in BOOLEAN
       /\ \/ (~ok \/ Holds(C)) /\ ok' = ok
          \/ ok /\ ~Holds(C) /\ Len(c) = 0 /\ ok' = FALSE
    \/ /\ ok /\ ~Holds(C) /\ Len(c) = 1
       /\ trail' = Append(trail, c[1])
       /\ db' = [nv.db EXCEPT !.reason[var(c[1])] = CRef_Undef]
       /\ pc' = "propagate" /\ ret' = "add" /\ ok' = ok
    \/ /\ ok /\ ~Holds(C) /\ Len(c) # 0 /\ Len(c) # 1
       /\ db' = newClause(nv.db, c, FALSE)
       /\ trail' = trail /\ pc' = pc /\ ret' = ret /\ ok' = ok

(* addClause_ does one of four things with a clause: nothing, a            *)
(* contradiction, a fact or a new clause.                                  *)
LEMMA AddIs ==
    ASSUME NEW C, add_clause(C), ok \in BOOLEAN,
           NEW nv, nv = newVars(Max(VarsOf(C) \cup {0}), FALSE),
           NEW c, c = Sorted(Unfalsified(C))
    PROVE  /\ AddOutcome(C, nv, c)
           /\ decision' = nv.decision /\ added' = added \cup {C}
           /\ order_heap' = order_heap /\ trail_lim' = trail_lim /\ qhead' = qhead /\ wi' = wi
           /\ confl' = confl /\ assumptions' = assumptions /\ answer' = answer
<1> DEFINE kept == Sorted({p \in C : ~IsFalse(p)})
           holds == \E p \in C : IsTrue(p) \/ neg(p) \in C
           nw == newVars(Max(VarsOf(C) \cup {0}), FALSE)
<1>0. kept = c /\ (holds <=> Holds(C)) /\ nw = nv
  <2>1. kept = c
    BY Zenon DEF Unfalsified
  <2>2. holds <=> Holds(C)
    BY Zenon DEF Holds
  <2>3. QED
    BY <2>1, <2>2, Zenon
<1>1. /\ decision' = nw.decision /\ added' = added \cup {C}
      /\ CASE ~ok \/ holds ->
                db' = nw.db /\ UNCHANGED <<ok, trail, pc, ret>>
           [] ok /\ ~holds /\ Len(kept) = 0 ->
                ok' = FALSE /\ db' = nw.db /\ UNCHANGED <<trail, pc, ret>>
           [] ok /\ ~holds /\ Len(kept) = 1 ->
                /\ Enqueue(kept[1], CRef_Undef, nw.db)
                /\ pc' = "propagate" /\ ret' = "add"
                /\ UNCHANGED ok
           [] OTHER ->
                db' = newClause(nw.db, kept, FALSE) /\ UNCHANGED <<ok, trail, pc, ret>>
      /\ UNCHANGED <<order_heap, trail_lim, qhead, wi, confl, searchVars,
                     simpDB_assigns, resultVars, solves>>
  BY Zenon DEF add_clause
<1> HIDE DEF kept, holds, nw
<1>2. CASE ~ok \/ Holds(C)
  <2>1. db' = nv.db /\ UNCHANGED <<ok, trail, pc, ret>>
    BY <1>0, <1>1, <1>2
  <2>2. QED
    BY <1>0, <1>1, <1>2, <2>1 DEF AddOutcome, searchVars, resultVars
<1>3. CASE ok /\ ~Holds(C) /\ Len(c) = 0
  <2>1. ok' = FALSE /\ db' = nv.db /\ UNCHANGED <<trail, pc, ret>>
    <3>1. ok /\ ~holds /\ Len(kept) = 0
      BY <1>0, <1>3, Zenon
    <3>2. ~(~ok \/ holds) /\ ~(Len(kept) = 1) /\ ~(ok /\ ~holds /\ Len(kept) = 1)
      BY <3>1
    <3>3. QED
      BY <1>0, <1>1, <3>1, <3>2
  <2>2. QED
    BY <1>0, <1>1, <1>3, <2>1 DEF AddOutcome, searchVars, resultVars
<1>4. CASE ok /\ ~Holds(C) /\ Len(c) = 1
  <2>1. Enqueue(c[1], CRef_Undef, nv.db) /\ pc' = "propagate" /\ ret' = "add" /\ UNCHANGED ok
    <3>1. ok /\ ~holds /\ Len(kept) = 1
      BY <1>0, <1>4, Zenon
    <3>2. ~(~ok \/ holds) /\ ~(ok /\ ~holds /\ Len(kept) = 0)
      BY <3>1
    <3>3. QED
      BY <1>0, <1>1, <3>1, <3>2
  <2>2. QED
    BY <1>0, <1>1, <1>4, <2>1 DEF AddOutcome, Enqueue, searchVars, resultVars
<1>5. CASE ok /\ ~Holds(C) /\ Len(c) # 0 /\ Len(c) # 1
  <2>1. db' = newClause(nv.db, c, FALSE) /\ UNCHANGED <<ok, trail, pc, ret>>
    BY <1>0, <1>1, <1>5
  <2>2. QED
    BY <1>0, <1>1, <1>5, <2>1 DEF AddOutcome, searchVars, resultVars
<1>6. QED
  BY <1>2, <1>3, <1>4, <1>5

(* A clause is added between two questions.                                *)
LEMMA AddClauseBase ==
    ASSUME BaseInv, pc = "idle", NEW C, IsClause(C), add_clause(C),
           toAdd' \in Seq(SUBSET Nat), \A i \in 1 .. Len(toAdd') : IsClause(toAdd'[i])
    PROVE  BaseInv'
<1> DEFINE T == VarsOf(C) \cup {0}
           W == AllVars \cup 0 .. Max(T)
           nv == newVars(Max(T), FALSE)
           c == Sorted(Unfalsified(C))
<1>1. VarsInv /\ FlowInv /\ ClientInv /\ AllVars \subseteq Nat /\ ok \in BOOLEAN
  BY DEF BaseInv, VarsInv
<1>2. /\ AddOutcome(C, nv, c) /\ decision' = nv.decision /\ added' = added \cup {C}
      /\ order_heap' = order_heap /\ trail_lim' = trail_lim /\ qhead' = qhead /\ wi' = wi
      /\ confl' = confl /\ assumptions' = assumptions /\ answer' = answer
  BY <1>1, AddIs
<1>3. Covering(W, C)
  BY <1>1, CoveringIs
<1>4. NewState(nv, W)
  BY NewStateIs
<1> DEFINE d == nv.db
<1> HIDE DEF T, W, nv, c
<1>5. VarsGrown(nv, W)
  BY <1>3, <1>4, VarsGrownIs
<1>6. /\ W \in SUBSET Nat /\ AllVars \subseteq W /\ \A p \in C : var(p) \in W
  BY <1>3 DEF Covering
<1>7. /\ DbInv(d, W) /\ TrailType(trail, trail_lim, W) /\ ReasonInv(d, trail)
      /\ DecisionInv(d, trail, trail_lim)
  BY <1>5 DEF VarsGrown
<1>8. Len(trail_lim) = 0 /\ wi = 0 /\ confl = CRef_Undef /\ qhead = Len(trail) /\ Len(trail) \in Nat
  BY IdleIs
<1> HIDE DEF d
<1>9. /\ DbInv(db', W) /\ TrailType(trail', trail_lim, W) /\ ReasonInv(db', trail')
      /\ DecisionInv(db', trail', trail_lim)
      /\ Begins(trail, trail') /\ Len(trail') \in Nat /\ ok' \in BOOLEAN
      /\ \/ trail' = trail /\ pc' = "idle" /\ ret' = ret
         \/ pc' = "propagate" /\ ret' = "add" /\ ok'
  <2>1. Begins(trail, trail)
    BY <1>8 DEF Begins
  <2>2. CASE db' = d /\ trail' = trail /\ pc' = pc /\ ret' = ret /\ ok' \in BOOLEAN
    BY <1>7, <1>8, <2>1, <2>2
  <2>3. CASE /\ ok /\ ~Holds(C) /\ Len(c) = 1
             /\ trail' = Append(trail, c[1])
             /\ db' = [d EXCEPT !.reason[var(c[1])] = CRef_Undef]
             /\ pc' = "propagate" /\ ret' = "add" /\ ok' = ok
    <3>1. \A i \in 1 .. Len(c) : c[i] \in Lits(W) /\ IsUndef(c[i])
      BY <1>6, <2>3, UnfalsifiedIs DEF c
    <3>2. 1 \in 1 .. Len(c)
      BY <2>3
    <3>3. c[1] \in Lits(W) /\ IsUndef(c[1]) /\ c[1] \in Nat
      BY <1>6, <3>1, <3>2, LitsAre
    <3>4. \A i \in 1 .. Len(trail) : var(trail[i]) # var(c[1])
      BY <1>6, <1>7, <3>3, Unassigned
    <3>5. trail' = Append(trail, c[1]) /\ db' = [d EXCEPT !.reason[var(c[1])] = CRef_Undef]
      BY <2>3
    <3>6. CRef_Undef \in Int /\ (CRef_Undef # CRef_Undef => IsReason(d, trail, c[1], CRef_Undef))
      BY DEF CRef_Undef
    <3>7. Enqueued(d, db', trail, trail', trail_lim, W, c[1], CRef_Undef)
      BY <1>6, <1>7, <1>8, <3>3, <3>4, <3>5, <3>6, EnqueueIs, Zenon
    <3>8. ok' /\ pc' = "propagate" /\ ret' = "add" /\ ok' \in BOOLEAN
      BY <1>1, <2>3
    <3>9. QED
      BY <1>8, <3>7, <3>8 DEF Enqueued
  <2>4. CASE /\ ok /\ ~Holds(C) /\ Len(c) # 0 /\ Len(c) # 1
             /\ db' = newClause(d, c, FALSE)
             /\ trail' = trail /\ pc' = pc /\ ret' = ret /\ ok' = ok
    <3>1. Len(c) \in Nat /\ (Len(c) >= 2 => IsLits(c, W))
      BY <1>6, <2>4, UnfalsifiedIs DEF c
    <3>2. IsLits(c, W)
      <4>1. Len(c) # 0 /\ Len(c) # 1
        BY <2>4
      <4>2. \A n \in Nat : n # 0 /\ n # 1 => n >= 2
        OBVIOUS
      <4>3. QED
        BY <3>1, <4>1, <4>2
    <3>3. Added(d, db', W, NextCRef(d), c)
      BY <1>6, <1>7, <2>4, <3>2, NewClauseInv
    <3>4. ReasonInv(db', trail) /\ DecisionInv(db', trail, trail_lim)
      <4>1. /\ live(db') = live(d) \cup {NextCRef(d)} /\ db'.reason = d.reason
            /\ \A r \in 1 .. Len(d.ca) : SameClause(d, db', r)
        BY <3>3 DEF Added
      <4>2. live(d) \subseteq 1 .. Len(d.ca)
        BY <1>7, LiveIs DEF DbInv
      <4>3. \A r \in live(d) : r \in live(db') /\ lits(db', r) = lits(d, r)
        BY <4>1, <4>2 DEF SameClause
      <4>4. QED
        BY <1>7, <4>1, <4>3, SameReasons
    <3>5. DbInv(db', W)
      BY <3>3 DEF Added
    <3>6. QED
      BY <1>1, <1>7, <1>8, <2>1, <2>4, <3>4, <3>5
  <2>5. QED
    BY <1>2, <2>2, <2>3, <2>4 DEF AddOutcome, d
<1>10. VarsInv' /\ AllVars' = W
  <2>1. VarsOf(ToSet(trail)) \subseteq VarsOf(ToSet(trail'))
    BY <1>7, <1>9, MoreAssigned
  <2>2. assigned \subseteq assigned'
    BY <2>1 DEF assigned
  <2>3. assumptions' \in Seq(Lits(W))
    <3>1. Lits(AllVars) \subseteq Lits(W) /\ assumptions \in Seq(Lits(AllVars))
      BY <1>1, <1>6, MoreLits DEF VarsInv
    <3>2. assumptions \in Seq(Lits(W))
      BY <3>1, SeqWider
    <3>3. QED
      BY <1>2, <3>2
  <2>4. answer' \in {"none", "pending", "sat", "unsat"}
    BY <1>1, <1>2 DEF VarsInv
  <2>5. QED
    BY <1>2, <1>3, <1>5, <1>9, <2>2, <2>3, <2>4, GrownVars
<1>11. TrailOK'
  BY <1>2, <1>9, <1>10, TrailAfter
<1>12. FlowInv'
  <2>1. ret \in {"add", "search"}
    BY <1>1 DEF FlowInv
  <2>2. Len(trail) <= Len(trail')
    BY <1>9 DEF Begins
  <2>3. QED
    BY <1>2, <1>8, <1>9, <2>1, <2>2 DEF FlowInv
<1>13. WalkInv' /\ ConflInv'
  BY <1>2, <1>8, NoWalk, NoConfl
<1>14. ClientInv'
  <2>1. \A D \in added' : IsClause(D) /\ \A p \in D : var(p) \in W
    BY <1>1, <1>2, <1>6 DEF ClientInv
  <2>2. QED
    BY <1>10, <2>1 DEF ClientInv
<1>15. QED
  BY <1>9, <1>10, <1>11, <1>12, <1>13, <1>14, BaseAfter

-----------------------------------------------------------------------------
(* The client hands over its formula, one clause after the other.          *)
LEMMA AddFirstBase ==
    ASSUME BaseInv, AddFirst
    PROVE  BaseInv'
<1>1. /\ pc = "idle" /\ toAdd # <<>> /\ add_clause(Head(toAdd)) /\ toAdd' = Tail(toAdd)
  BY DEF AddFirst
<1>2. toAdd \in Seq(SUBSET Nat) /\ \A i \in 1 .. Len(toAdd) : IsClause(toAdd[i])
  BY DEF BaseInv, ClientInv
<1>3. /\ Len(toAdd) \in Nat /\ Len(toAdd) >= 1 /\ Head(toAdd) = toAdd[1]
      /\ Tail(toAdd) \in Seq(SUBSET Nat) /\ Len(Tail(toAdd)) = Len(toAdd) - 1
      /\ \A i \in 1 .. Len(toAdd) - 1 : Tail(toAdd)[i] = toAdd[i + 1]
  BY <1>1, <1>2
<1>4. 1 \in 1 .. Len(toAdd) /\ \A i \in 1 .. Len(toAdd) - 1 : i + 1 \in 1 .. Len(toAdd)
  BY <1>3
<1>5. IsClause(Head(toAdd))
  BY <1>2, <1>3, <1>4
<1>6. toAdd' \in Seq(SUBSET Nat) /\ Len(toAdd') = Len(toAdd) - 1
  BY <1>1, <1>3
<1>7. ASSUME NEW i \in 1 .. Len(toAdd') PROVE IsClause(toAdd'[i])
  <2>1. i \in 1 .. Len(toAdd) - 1
    BY <1>6
  <2>2. toAdd'[i] = toAdd[i + 1] /\ i + 1 \in 1 .. Len(toAdd)
    BY <1>1, <1>3, <1>4, <2>1
  <2>3. QED
    BY <1>2, <2>2
<1>8. QED
  BY <1>1, <1>5, <1>6, <1>7, AddClauseBase

(* ... and clauses between two questions.                                  *)
LEMMA AddLaterBase ==
    ASSUME SolverAssumption, BaseInv, AddLater
    PROVE  BaseInv'
<1>1. PICK C \in Extra : pc = "idle" /\ add_clause(C) /\ toAdd' = toAdd
  BY DEF AddLater
<1>2. IsClause(C)
  BY DEF SolverAssumption
<1>3. toAdd' \in Seq(SUBSET Nat) /\ \A i \in 1 .. Len(toAdd') : IsClause(toAdd'[i])
  BY <1>1 DEF BaseInv, ClientInv
<1>4. QED
  BY <1>1, <1>2, <1>3, AddClauseBase

(* The facts of a new clause are propagated.                               *)
LEMMA AddPropagatedBase ==
    ASSUME BaseInv, AddPropagated
    PROVE  BaseInv'
<1>1. /\ pc = "add" /\ ok' = (confl = CRef_Undef) /\ confl' = CRef_Undef /\ pc' = "idle"
      /\ decision' = decision /\ order_heap' = order_heap /\ db' = db /\ trail' = trail
      /\ trail_lim' = trail_lim /\ qhead' = qhead /\ wi' = wi /\ ret' = ret
      /\ assumptions' = assumptions /\ answer' = answer /\ added' = added /\ toAdd' = toAdd
  BY DEF AddPropagated, trailVars, searchVars, resultVars, clientVars
<1>2. VarsInv /\ DbInv(db, AllVars) /\ TrailOK /\ FlowInv /\ WalkInv /\ ClientInv
  BY DEF BaseInv
<1>3. AllVars' = AllVars /\ assigned' = assigned /\ ok' \in BOOLEAN
  BY <1>1 DEF AllVars, assigned
<1>4. VarsInv'
  BY <1>1, <1>2, <1>3, SameVars
<1>5. ClientInv'
  BY <1>1, <1>2, <1>3, SameClient
<1>6. TrailOK'
  BY <1>1, <1>2, <1>3 DEF TrailOK
<1>7. FlowInv'
  BY <1>1, <1>2 DEF FlowInv
<1>8. WalkInv' /\ ConflInv'
  <2>1. wi = 0
    BY <1>1, <1>2 DEF WalkInv
  <2>2. QED
    BY <1>1, <2>1, NoWalk, NoConfl
<1>9. DbInv(db', AllVars')
  BY <1>1, <1>2, <1>3
<1>10. QED
  BY <1>4, <1>5, <1>6, <1>7, <1>8, <1>9, BaseAfter

(* A question: its variables are created, its search begins.               *)
AskFlow(as, nv) ==
    /\ decision' = nv.decision /\ db' = nv.db /\ assumptions' = as /\ answer' = "pending"
    /\ pc' = IF ok THEN "propagate" ELSE "refuse"
    /\ ret' = "search" /\ ok' = ok /\ order_heap' = order_heap /\ trail' = trail
    /\ trail_lim' = trail_lim /\ qhead' = qhead /\ wi' = wi /\ confl' = confl
    /\ added' = added /\ toAdd' = toAdd

(* The literals of a question are the clause that creates its variables.   *)
LEMMA QuestionIs ==
    ASSUME NEW as \in Seq(Nat)
    PROVE  /\ IsClause(ToSet(as)) /\ {var(p) : p \in ToSet(as)} = VarsOf(ToSet(as))
           /\ \A i \in 1 .. Len(as) : as[i] \in ToSet(as)
           /\ \A p : p \in ToSet(as) <=> \E i \in 1 .. Len(as) : as[i] = p
<1>1. \A p : p \in ToSet(as) <=> \E i \in 1 .. Len(as) : as[i] = p
  BY ToSetIs
<1>2. Len(as) \in Nat /\ \A i \in 1 .. Len(as) : as[i] \in Nat
  BY ElementOfSeq, LenProperties
<1>3. ToSet(as) \in SUBSET Nat
  BY <1>1, <1>2
<1>4. IsFiniteSet(ToSet(as))
  <2> DEFINE R == ToSet(as)
             n == Len(as)
  <2>1. n \in Nat /\ \A v \in R : \E i \in 1 .. n : as[i] = v
    BY <1>1, <1>2
  <2> HIDE DEF R, n
  <2>2. IsFiniteSet(R)
    BY <2>1, ImageIsFinite, Zenon
  <2>3. QED
    BY <2>2 DEF R
<1>5. {var(p) : p \in ToSet(as)} = VarsOf(ToSet(as))
  BY Zenon DEF VarsOf
<1>6. QED
  BY <1>1, <1>3, <1>4, <1>5 DEF IsClause

(* The variables of the assumptions are created before solve_ looks at     *)
(* them.                                                                   *)
LEMMA AskBase ==
    ASSUME BaseInv, pc = "idle", NEW as \in Seq(Nat), Ask(as), added' = added, toAdd' = toAdd
    PROVE  BaseInv'
<1> DEFINE C == ToSet(as)
           T == VarsOf(C) \cup {0}
           W == AllVars \cup 0 .. Max(T)
           nv == newVars(Max(T), FALSE)
<1>1. VarsInv /\ FlowInv /\ ClientInv /\ AllVars \subseteq Nat /\ ok \in BOOLEAN
  BY DEF BaseInv, VarsInv
<1>2. /\ IsClause(C) /\ {var(p) : p \in C} = VarsOf(C)
      /\ \A i \in 1 .. Len(as) : as[i] \in C
  BY QuestionIs
<1>3. AskFlow(as, nv)
  <2> DEFINE nw == newVars(Max({var(p) : p \in ToSet(as)} \cup {0}), FALSE)
  <2>1. nw = nv
    BY <1>2, Zenon
  <2>2. /\ decision' = nw.decision /\ db' = nw.db /\ assumptions' = as /\ answer' = "pending"
        /\ pc' = IF ok THEN "propagate" ELSE "refuse"
        /\ ret' = "search"
        /\ UNCHANGED <<ok, order_heap, trailVars, wi, confl, simpDB_assigns>>
    BY Zenon DEF Ask
  <2> HIDE DEF nw, nv
  <2>3. QED
    BY <2>1, <2>2 DEF AskFlow, trailVars
<1>4. Covering(W, C)
  BY <1>1, <1>2, CoveringIs
<1>5. NewState(nv, W)
  BY NewStateIs
<1> HIDE DEF C, T, W, nv
<1>6. VarsGrown(nv, W)
  BY <1>4, <1>5, VarsGrownIs
<1>7. /\ W \in SUBSET Nat /\ AllVars \subseteq W /\ \A p \in C : var(p) \in W
  BY <1>4 DEF Covering
<1>8. /\ DbInv(db', W) /\ TrailType(trail', trail_lim', W) /\ ReasonInv(db', trail')
      /\ DecisionInv(db', trail', trail_lim')
  <2>1. db' = nv.db /\ trail' = trail /\ trail_lim' = trail_lim
    BY <1>3 DEF AskFlow
  <2>2. /\ DbInv(nv.db, W) /\ TrailType(trail, trail_lim, W) /\ ReasonInv(nv.db, trail)
        /\ DecisionInv(nv.db, trail, trail_lim)
    BY <1>6 DEF VarsGrown
  <2>3. QED
    BY <2>1, <2>2
<1>9. Len(trail_lim) = 0 /\ wi = 0 /\ confl = CRef_Undef /\ qhead = Len(trail) /\ Len(trail) \in Nat
  BY IdleIs
<1>10. VarsInv' /\ AllVars' = W
  <2>1. as \in Seq(Lits(W))
    <3>1. as \in Seq(C)
      <4>1. Len(as) \in Nat /\ as \in [1 .. Len(as) -> Nat]
        BY LenProperties
      <4>2. as \in [1 .. Len(as) -> C]
        BY <1>2, <4>1
      <4>3. as \in UNION {[1 .. n -> C] : n \in Nat}
        BY <4>1, <4>2, Zenon
      <4>4. QED
        BY <4>3, SeqDef, Zenon
    <3>2. C \subseteq Lits(W)
      BY <1>2, <1>7, LitsAre DEF IsClause
    <3>3. QED
      BY <3>1, <3>2, SeqWider
  <2>2. /\ decision' = nv.decision /\ order_heap' = order_heap /\ assigned \subseteq assigned'
        /\ assumptions' \in Seq(Lits(W)) /\ ok' \in BOOLEAN
        /\ answer' \in {"none", "pending", "sat", "unsat"}
    BY <1>1, <1>3, <2>1 DEF AskFlow, assigned
  <2>3. QED
    BY <1>4, <1>6, <2>2, GrownVars
<1>11. TrailOK'
  BY <1>8, <1>10, TrailAfter
<1>12. FlowInv'
  BY <1>1, <1>3, <1>9 DEF FlowInv, AskFlow
<1>13. WalkInv' /\ ConflInv'
  BY <1>3, <1>9, NoWalk, NoConfl DEF AskFlow
<1>14. ClientInv'
  <2>1. \A D \in added' : IsClause(D) /\ \A p \in D : var(p) \in W
    BY <1>1, <1>3, <1>7 DEF ClientInv, AskFlow
  <2>2. QED
    BY <1>1, <1>3, <1>10, <2>1 DEF ClientInv, AskFlow
<1>15. QED
  BY <1>8, <1>10, <1>11, <1>12, <1>13, <1>14, BaseAfter

(* solve keeps the invariant for every question.                           *)
LEMMA SolveBase ==
    ASSUME SolverAssumption, BaseInv, solve
    PROVE  BaseInv'
<1>1. PICK as \in Questions : pc = "idle" /\ Ask(as) /\ added' = added /\ toAdd' = toAdd
  BY DEF solve
<1>2. as \in Seq(Nat)
  BY DEF SolverAssumption
<1>3. QED
  BY <1>1, <1>2, AskBase

(* Nothing changes.                                                        *)
LEMMA SameBase ==
    ASSUME BaseInv, UNCHANGED vars
    PROVE  BaseInv'
<1>1. /\ ok' = ok /\ decision' = decision /\ order_heap' = order_heap /\ db' = db
      /\ trail' = trail /\ trail_lim' = trail_lim /\ qhead' = qhead /\ wi' = wi
      /\ confl' = confl /\ pc' = pc /\ ret' = ret /\ assumptions' = assumptions
      /\ answer' = answer /\ added' = added /\ toAdd' = toAdd
  BY DEF vars, trailVars, searchVars, resultVars, clientVars
<1>2. AllVars' = AllVars /\ assigned' = assigned
  BY <1>1 DEF AllVars, assigned
<1>3. /\ VarsInv /\ DbInv(db, AllVars) /\ TrailOK /\ FlowInv /\ WalkInv /\ ConflInv /\ ClientInv
      /\ ok \in BOOLEAN
  BY DEF BaseInv, VarsInv
<1>4. VarsInv' /\ ClientInv'
  BY <1>1, <1>2, <1>3, SameVars, SameClient
<1>5. TrailOK'
  BY <1>1, <1>2, <1>3 DEF TrailOK
<1>6. FlowInv' /\ WalkInv'
  BY <1>1, <1>3 DEF FlowInv, WalkInv
<1>7. ConflInv'
  <2>1. ConflictInv => ConflictInv'
    BY <1>1 DEF ConflictInv, IsFalse
  <2>2. QED
    BY <1>1, <1>3, <2>1 DEF ConflInv
<1>8. DbInv(db', AllVars')
  BY <1>1, <1>2, <1>3
<1>9. QED
  BY <1>4, <1>5, <1>6, <1>7, <1>8, BaseAfter

-----------------------------------------------------------------------------
(* The variables after cancelUntil(l).                                     *)
LEMMA VarsUndone ==
    ASSUME BaseInv, NEW l, NEW heap, heap \subseteq AllVars,
           \A v \in AllVars : decision[v] => v \in assigned \/ v \in heap,
           order_heap' = heap \cup Released(l), decision' = decision,
           NEW s, s = KeptTrail(l), NEW k, TrailType(s, k, AllVars),
           TrailType(trail', trail_lim', AllVars), Begins(s, trail'),
           assumptions' = assumptions, ok' \in BOOLEAN,
           answer' \in {"none", "pending", "sat", "unsat"}
    PROVE  VarsInv' /\ AllVars' = AllVars
<1>1. AllVars' = AllVars
  BY DEF AllVars
<1>2. VarsInv /\ TrailType(trail, trail_lim, AllVars) /\ AllVars \subseteq Nat
  BY DEF BaseInv, TrailOK, VarsInv
<1>3. VarsOf(ToSet(s)) \subseteq VarsOf(ToSet(trail'))
  BY MoreAssigned
<1>4. VarsOf(ToSet(KeptTrail(l))) \subseteq assigned'
  BY <1>3 DEF assigned
<1>5. /\ order_heap' \subseteq AllVars
      /\ \A v \in AllVars : decision[v] => v \in assigned' \/ v \in order_heap'
  BY <1>2, <1>4, HeapAgain
<1>6. decision' \in [AllVars -> BOOLEAN] /\ assumptions' \in Seq(Lits(AllVars))
  BY <1>2 DEF VarsInv
<1>7. QED
  BY <1>1, <1>2, <1>5, <1>6 DEF VarsInv

(* What cancelUntil(l) leaves, when everything is propagated.              *)
Cancelled(l, s, k) ==
    /\ Undone(l, s, k) /\ s = KeptTrail(l) /\ trail_lim' = k
    /\ qhead' = Len(s) /\ Len(s) \in Nat
    /\ \A j \in 1 .. Len(k) : k[j] <= Len(s)

(* What cancelUntil leaves unchanged, and what it undoes.                  *)
LEMMA CancelIs ==
    ASSUME BaseInv, pc # "propagate", NEW l \in 0 .. Len(trail_lim), NEW new, NEW heap,
           cancelUntil(l, new, heap)
    PROVE  Cancelled(l, KeptTrail(l), KeptLevels(l))
<1> DEFINE s == KeptTrail(l)
           k == KeptLevels(l)
<1>1. TrailOK /\ qhead = Len(trail)
  BY DEF BaseInv, FlowInv
<1> HIDE DEF s, k
<1>2. Undone(l, s, k)
  BY <1>1, UndoneIs DEF s, k
<1>3. trail_lim' = k /\ qhead' = IF Len(trail_lim) > l THEN trail_lim[l + 1] ELSE qhead
  BY DEF cancelUntil, k, KeptLevels, decisionLevel
<1>4. qhead' = Len(s)
  BY <1>1, <1>2, <1>3 DEF Undone
<1>5. Len(s) \in Nat /\ \A j \in 1 .. Len(k) : k[j] <= Len(s)
  BY <1>2, TrailIs DEF Undone
<1>6. QED
  BY <1>2, <1>3, <1>4, <1>5 DEF Cancelled, s, k

(* The state after an undoing without an assignment.                       *)
LEMMA RewindBase ==
    ASSUME BaseInv, pc # "propagate", NEW heap, heap \subseteq AllVars,
           \A v \in AllVars : decision[v] => v \in assigned \/ v \in heap,
           cancelUntil(0, <<>>, heap), decision' = decision, db' = db, wi' = wi,
           assumptions' = assumptions, ret' = ret, added' = added, toAdd' = toAdd,
           confl' = CRef_Undef, ok' \in BOOLEAN,
           answer' \in {"none", "pending", "sat", "unsat"},
           pc' = "idle" \/ (pc' = "propagate" /\ ok')
    PROVE  BaseInv'
<1> DEFINE s == KeptTrail(0)
           k == KeptLevels(0)
<1>1. /\ VarsInv /\ DbInv(db, AllVars) /\ TrailOK /\ FlowInv /\ WalkInv /\ ClientInv
      /\ TrailType(trail, trail_lim, AllVars)
  BY DEF BaseInv, TrailOK
<1>2. 0 \in 0 .. Len(trail_lim)
  BY <1>1, TrailIs
<1>3. Cancelled(0, s, k)
  BY <1>2, CancelIs
<1>4. trail' = s \o <<>> /\ order_heap' = heap \cup Released(0)
  BY DEF cancelUntil
<1> HIDE DEF s, k
<1>5. /\ TrailType(s, k, AllVars) /\ ReasonInv(db, s) /\ DecisionInv(db, s, k) /\ Len(k) = 0
      /\ trail_lim' = k /\ qhead' = Len(s) /\ Len(s) \in Nat
      /\ \A j \in 1 .. Len(k) : k[j] <= Len(s)
  BY <1>3 DEF Cancelled, Undone
<1>6. trail' = s
  <2>1. s \in Seq(Lits(AllVars))
    BY <1>5, TrailIs
  <2>2. s \o <<>> = s
    BY <2>1, ConcatEmptySeq
  <2>3. QED
    BY <1>4, <2>2
<1>7. VarsInv' /\ AllVars' = AllVars
  <2>1. Begins(s, trail')
    BY <1>5, <1>6 DEF Begins
  <2>2. TrailType(trail', trail_lim', AllVars)
    BY <1>5, <1>6
  <2>3. QED
    BY <1>4, <1>5, <2>1, <2>2, VarsUndone DEF s
<1>8. TrailOK'
  BY <1>5, <1>6, <1>7, TrailAfter
<1>9. FlowInv'
  BY <1>1, <1>5, <1>6 DEF FlowInv, WalkInv
<1>10. WalkInv' /\ ConflInv'
  <2>1. wi = 0
    BY <1>1 DEF WalkInv
  <2>2. QED
    BY <2>1, NoWalk, NoConfl
<1>11. ClientInv'
  BY <1>1, <1>7, SameClient
<1>12. DbInv(db', AllVars')
  BY <1>1, <1>7
<1>13. QED
  BY <1>7, <1>8, <1>9, <1>10, <1>11, <1>12, BaseAfter

(* An answer.                                                              *)
LEMMA ReturnBase ==
    ASSUME BaseInv, pc # "propagate", NEW heap, heap \subseteq AllVars,
           \A v \in AllVars : decision[v] => v \in assigned \/ v \in heap,
           NEW status \in {"sat", "unsat"}, Return(status, heap)
    PROVE  BaseInv'
<1>1. /\ answer' = status /\ ok' \in BOOLEAN /\ confl' = CRef_Undef /\ pc' = "idle"
      /\ cancelUntil(0, <<>>, heap) /\ decision' = decision /\ db' = db /\ wi' = wi
      /\ ret' = ret /\ assumptions' = assumptions /\ added' = added /\ toAdd' = toAdd
  BY DEF Return, searchVars, clientVars
<1>2. QED
  BY <1>1, RewindBase

(* The heap covers the decision variables without a value.                 *)
LEMMA HeapCovers ==
    ASSUME BaseInv
    PROVE  /\ order_heap \subseteq AllVars
           /\ \A v \in AllVars : decision[v] => v \in assigned \/ v \in order_heap
  BY DEF BaseInv, VarsInv

(* The four answers.                                                       *)
LEMMA AnswersBase ==
    ASSUME BaseInv, Refuse \/ ConflictAtRoot \/ AssumptionFails \/ ModelFound
    PROVE  BaseInv'
<1>1. CASE Refuse
  <2>1. pc # "propagate" /\ Return("unsat", order_heap)
    BY <1>1 DEF Refuse
  <2>2. QED
    BY <2>1, HeapCovers, ReturnBase
<1>2. CASE ConflictAtRoot
  <2>1. pc # "propagate" /\ Return("unsat", order_heap)
    BY <1>2 DEF ConflictAtRoot
  <2>2. QED
    BY <2>1, HeapCovers, ReturnBase
<1>3. CASE AssumptionFails
  <2>1. pc # "propagate" /\ Return("unsat", order_heap)
    BY <1>3 DEF AssumptionFails, Pending
  <2>2. QED
    BY <2>1, HeapCovers, ReturnBase
<1>4. CASE ModelFound
  <2>1. pc # "propagate" /\ Return("sat", {}) /\ Candidates = {}
    BY <1>4 DEF ModelFound, Branching
  <2>2. \A v \in AllVars : decision[v] => v \in assigned \/ v \in {}
    BY <2>1, HeapCovers DEF Candidates
  <2>3. QED
    BY <2>1, <2>2, ReturnBase
<1>5. QED
  BY <1>1, <1>2, <1>3, <1>4

(* A new start from the root level.                                        *)
LEMMA RestartBase ==
    ASSUME BaseInv, Restart
    PROVE  BaseInv'
<1>1. /\ pc = "search" /\ confl = CRef_Undef /\ cancelUntil(0, <<>>, order_heap)
      /\ pc' = "propagate" /\ ok' = ok /\ decision' = decision /\ db' = db /\ wi' = wi
      /\ confl' = confl /\ ret' = ret /\ assumptions' = assumptions /\ answer' = answer
      /\ added' = added /\ toAdd' = toAdd
  BY DEF Restart, resultVars, clientVars
<1>2. /\ ok /\ ok' \in BOOLEAN /\ answer' \in {"none", "pending", "sat", "unsat"}
  BY <1>1 DEF BaseInv, VarsInv, FlowInv
<1>3. QED
  BY <1>1, <1>2, HeapCovers, RewindBase

-----------------------------------------------------------------------------
(* The trail below the level b has not the variable of an assignment on    *)
(* the last level.                                                         *)
LEMMA TopIsUndone ==
    ASSUME NEW V \in SUBSET Nat, TrailType(trail, trail_lim, V), NEW b \in 0 .. Len(trail_lim) - 1,
           NEW s, Begins(s, trail), Len(s) = trail_lim[b + 1], NEW u \in 1 .. Len(trail), OnTop(u),
           NEW p, p = neg(trail[u])
    PROVE  p \in Lits(V) /\ \A i \in 1 .. Len(s) : var(s[i]) # var(p)
<1>1. /\ Len(trail) \in Nat /\ Len(trail_lim) \in Nat
      /\ \A i, j \in 1 .. Len(trail) : var(trail[i]) = var(trail[j]) => i = j
      /\ \A i \in 1 .. Len(trail) : trail[i] \in Lits(V)
      /\ \A j \in 1 .. Len(trail_lim) : trail_lim[j] \in Nat /\ trail_lim[j] <= Len(trail)
      /\ \A j, l \in 1 .. Len(trail_lim) : j <= l => trail_lim[j] <= trail_lim[l]
  BY TrailIs
<1>2. trail[u] \in Lits(V) /\ trail[u] \in Nat
  BY <1>1, LitsAre
<1>3. p \in Lits(V) /\ var(p) = var(trail[u])
  BY <1>2, LitsAre, Negation DEF Literal
<1>4. /\ b + 1 \in 1 .. Len(trail_lim) /\ Len(trail_lim) \in 1 .. Len(trail_lim)
      /\ b + 1 <= Len(trail_lim)
  BY <1>1
<1>5. trail_lim[b + 1] <= trail_lim[Len(trail_lim)] /\ trail_lim[Len(trail_lim)] < u
      /\ trail_lim[b + 1] \in Nat /\ trail_lim[Len(trail_lim)] \in Nat
  BY <1>1, <1>4 DEF OnTop
<1>6. ASSUME NEW i \in 1 .. Len(s) PROVE var(s[i]) # var(p)
  <2>1. i \in 1 .. Len(trail) /\ s[i] = trail[i] /\ i < u
    BY <1>1, <1>5 DEF Begins
  <2>2. i # u
    BY <2>1
  <2>3. QED
    BY <1>1, <1>3, <2>1, <2>2
<1>7. QED
  BY <1>3, <1>6

(* A clause is learnt: the trail goes back to where it is a unit clause.   *)
LearnStep(c, d) ==
    /\ cancelUntil(btlevel(c), <<c[1]>>, order_heap)
    /\ IF Len(c) = 1
       THEN db' = [db EXCEPT !.reason[var(c[1])] = CRef_Undef]
       ELSE db' = [d EXCEPT !.reason[var(c[1])] = NextCRef(db)]

(* The database with the learnt clause and the trail that is left of t.    *)
LearntDb(c, d, s, k, V, b, r) ==
    /\ DbInv(d, V) /\ TrailType(s, k, V) /\ ReasonInv(d, s) /\ DecisionInv(d, s, k)
    /\ c[1] \in Lits(V) /\ \A i \in 1 .. Len(s) : var(s[i]) # var(c[1])
    /\ r \in Int /\ (r # CRef_Undef => IsReason(d, s, c[1], r))
    /\ r # CRef_Undef \/ Len(k) = 0

(* The learnt clause: its first literal is unassigned after the backjump   *)
(* and the others are false.                                               *)
LEMMA LearntIs ==
    ASSUME NEW V \in SUBSET Nat, V = AllVars, DbInv(db, V), TrailType(trail, trail_lim, V), NEW c, NEW b, Learned(V, c, b), NEW s, NEW k, Undone(b, s, k),
           NEW d, d = (IF Len(c) = 1 THEN db ELSE newClause(db, c, TRUE)),
           NEW r, r = (IF Len(c) = 1 THEN CRef_Undef ELSE NextCRef(db))
    PROVE  LearntDb(c, d, s, k, V, b, r)
<1>1. /\ b \in 0 .. Len(trail_lim) - 1 /\ Len(c) \in Nat /\ Len(c) >= 1
      /\ \E u \in 1 .. Len(trail) : OnTop(u) /\ c[1] = neg(trail[u])
      /\ Len(c) = 1 => b = 0
      /\ Len(c) # 1 => /\ IsLits(c, V)
                       /\ \A i \in 2 .. Len(c) :
                            \E j \in 1 .. trail_lim[b + 1] : trail[j] = neg(c[i])
  BY DEF Learned
<1>2. /\ TrailType(s, k, V) /\ ReasonInv(db, s) /\ DecisionInv(db, s, k)
      /\ Begins(s, trail) /\ Len(k) = b /\ Len(trail_lim) \in Nat
  BY TrailIs DEF Undone
<1>3. Len(s) = trail_lim[b + 1]
  BY <1>1, <1>2 DEF Undone
<1>4. PICK u \in 1 .. Len(trail) : OnTop(u) /\ c[1] = neg(trail[u])
  BY <1>1
<1>5. c[1] \in Lits(V) /\ \A i \in 1 .. Len(s) : var(s[i]) # var(c[1])
  BY <1>1, <1>2, <1>3, <1>4, TopIsUndone
<1>6. CASE Len(c) = 1
  <2>1. d = db /\ r = CRef_Undef /\ Len(k) = 0 /\ r \in Int
    BY <1>1, <1>2, <1>6 DEF CRef_Undef
  <2>2. QED
    BY <1>2, <1>5, <2>1 DEF LearntDb
<1>7. CASE Len(c) # 1
  <2>1. d = newClause(db, c, TRUE) /\ r = NextCRef(db) /\ IsLits(c, V)
    BY <1>1, <1>7
  <2>2. Added(db, d, V, r, c)
    <3>1. TRUE \in BOOLEAN
      OBVIOUS
    <3>2. Added(db, d, V, NextCRef(db), c)
      BY <2>1, <3>1, NewClauseInv
    <3>3. QED
      BY <2>1, <3>2
  <2>3. /\ live(d) = live(db) \cup {r} /\ d.reason = db.reason /\ DbInv(d, V)
        /\ (\A x \in 1 .. Len(db.ca) : SameClause(db, d, x)) /\ lits(d, r) = c
    BY <2>1, <2>2 DEF Added, SameClause
  <2>4. live(db) \subseteq 1 .. Len(db.ca) /\ r = Len(db.ca) + 1 /\ r \in Nat
    <3>1. DbType(db, V)
      BY DEF DbInv
    <3>2. live(db) \subseteq 1 .. Len(db.ca)
      BY <3>1, LiveIs
    <3>3. QED
      BY <2>2, <3>2 DEF Added
  <2>5. \A x \in live(db) : x \in live(d) /\ lits(d, x) = lits(db, x)
    BY <2>3, <2>4 DEF SameClause
  <2>6. ReasonInv(d, s) /\ DecisionInv(d, s, k)
    BY <1>2, <2>3, <2>5, SameReasons
  <2>7. r \in Int /\ r # CRef_Undef /\ r \in live(d)
    <3>1. DbType(db, V) /\ db.ca \in Seq(Entry)
      BY DEF DbInv, DbType
    <3>2. Len(db.ca) \in Nat
      BY <3>1
    <3>3. r # 0 /\ r \in Int
      BY <2>4, <3>2
    <3>4. r \in live(d)
      BY <2>3
    <3>5. QED
      BY <3>3, <3>4 DEF CRef_Undef
  <2>8. ASSUME NEW i \in 2 .. Len(c) PROVE neg(c[i]) \in ToSet(s)
    <3>1. PICK j \in 1 .. Len(s) : trail[j] = neg(c[i])
      BY <1>1, <1>3, <1>7
    <3>2. s[j] = neg(c[i])
      BY <1>2, <3>1 DEF Begins
    <3>3. QED
      BY <1>2, <3>2, TrailIs
  <2>9. IsReason(d, s, c[1], r)
    BY <2>3, <2>7, <2>8 DEF IsReason
  <2>10. QED
    BY <1>2, <1>5, <2>3, <2>6, <2>7, <2>9 DEF LearntDb
<1>8. QED
  BY <1>6, <1>7

(* A conflict above the root level: backjump, attach the learnt clause,    *)
(* assert its first literal.                                               *)
LEMMA LearnBase ==
    ASSUME BaseInv, Learn
    PROVE  BaseInv'
<1> DEFINE V == AllVars
<1>1. PICK c \in Learnable : LearnStep(c, newClause(db, c, TRUE))
  BY DEF Learn, LearnStep
<1>2. /\ pc = "search" /\ confl # CRef_Undef /\ decisionLevel > 0 /\ confl' = CRef_Undef
      /\ pc' = "propagate" /\ ok' = ok /\ decision' = decision /\ wi' = wi /\ ret' = ret
      /\ assumptions' = assumptions /\ answer' = answer /\ added' = added /\ toAdd' = toAdd
  BY DEF Learn, resultVars, clientVars
<1>3. /\ VarsInv /\ FlowInv /\ WalkInv /\ ConflInv /\ ClientInv /\ DbInv(db, V) /\ DbType(db, V)
      /\ TrailType(trail, trail_lim, V) /\ ReasonInv(db, trail)
      /\ DecisionInv(db, trail, trail_lim) /\ V \in SUBSET Nat
      /\ ok \in BOOLEAN /\ answer \in {"none", "pending", "sat", "unsat"}
  BY DEF BaseInv, VarsInv, TrailOK, DbInv
<1>4. CanAnalyze(V)
  <2>1. Len(trail_lim) \in Nat /\ Len(trail_lim) > 0
    BY <1>2, <1>3, TrailIs DEF decisionLevel
  <2>2. QED
    BY <1>2, <1>3, <2>1 DEF CanAnalyze, ConflInv
<1> DEFINE b == btlevel(c)
           s == KeptTrail(b)
           k == KeptLevels(b)
           d == IF Len(c) = 1 THEN db ELSE newClause(db, c, TRUE)
           r == IF Len(c) = 1 THEN CRef_Undef ELSE NextCRef(db)
<1> HIDE DEF V
<1>5. Learned(V, c, b)
  BY <1>4, LearnableIs
<1>6. /\ cancelUntil(b, <<c[1]>>, order_heap)
      /\ db' = [d EXCEPT !.reason[var(c[1])] = r]
  BY <1>1 DEF LearnStep
<1> HIDE DEF b, s, k, d, r
<1>7. b \in 0 .. Len(trail_lim)
  BY <1>3, <1>5, TrailIs DEF Learned
<1>8. Cancelled(b, s, k)
  BY <1>2, <1>6, <1>7, CancelIs DEF s, k
<1>9. Undone(b, s, k) /\ s = KeptTrail(b) /\ trail_lim' = k /\ qhead' = Len(s) /\ Len(s) \in Nat
      /\ \A j \in 1 .. Len(k) : k[j] <= Len(s)
  BY <1>8 DEF Cancelled
<1>10. LearntDb(c, d, s, k, V, b, r)
  BY <1>3, <1>5, <1>9, LearntIs DEF d, r, V
<1>11. /\ DbInv(d, V) /\ TrailType(s, k, V) /\ ReasonInv(d, s) /\ DecisionInv(d, s, k)
       /\ c[1] \in Lits(V) /\ \A i \in 1 .. Len(s) : var(s[i]) # var(c[1])
       /\ r \in Int /\ (r # CRef_Undef => IsReason(d, s, c[1], r))
       /\ r # CRef_Undef \/ Len(k) = 0
  BY <1>10 DEF LearntDb
<1>12. trail' = Append(s, c[1]) /\ order_heap' = order_heap \cup Released(b)
  <2>1. s \in Seq(Lits(V))
    BY <1>11, TrailIs
  <2>2. trail' = s \o <<c[1]>> /\ order_heap' = order_heap \cup Released(b)
    BY <1>6 DEF cancelUntil, s
  <2>3. s \o <<c[1]>> = Append(s, c[1])
    BY <1>11, <2>1, AppendIsConcat
  <2>4. QED
    BY <2>2, <2>3
<1>13. Enqueued(d, db', s, trail', k, V, c[1], r)
  BY <1>3, <1>6, <1>11, <1>12, EnqueueIs
<1>14. /\ DbInv(db', V) /\ TrailType(trail', trail_lim', V) /\ ReasonInv(db', trail')
       /\ DecisionInv(db', trail', trail_lim') /\ Begins(s, trail')
       /\ Len(trail') = Len(s) + 1
  BY <1>9, <1>13 DEF Enqueued
<1>15. VarsInv' /\ AllVars' = AllVars
  <2>1. ok' \in BOOLEAN /\ answer' \in {"none", "pending", "sat", "unsat"}
    BY <1>2, <1>3
  <2>2. QED
    BY <1>2, <1>9, <1>11, <1>12, <1>14, <2>1, HeapCovers, VarsUndone DEF V
<1>16. TrailOK'
  BY <1>14, <1>15, TrailAfter DEF V
<1>17. FlowInv'
  <2>1. Len(trail') \in Nat /\ Len(s) <= Len(trail')
    BY <1>9, <1>14
  <2>2. ret' = "search" /\ ok' /\ wi' \in Nat
    BY <1>2, <1>3 DEF FlowInv
  <2>3. qhead' \in 0 .. Len(trail')
    BY <1>9, <1>14
  <2>4. \A j \in 1 .. Len(trail_lim') : trail_lim'[j] <= qhead'
    BY <1>9
  <2>5. QED
    BY <1>2, <2>2, <2>3, <2>4 DEF FlowInv
<1>18. WalkInv' /\ ConflInv'
  <2>1. wi = 0
    BY <1>2, <1>3 DEF WalkInv
  <2>2. QED
    BY <1>2, <2>1, NoWalk, NoConfl
<1>19. ClientInv'
  BY <1>2, <1>3, <1>15, SameClient
<1>20. DbInv(db', AllVars')
  BY <1>14, <1>15 DEF V
<1>21. QED
  BY <1>15, <1>16, <1>17, <1>18, <1>19, <1>20, BaseAfter

-----------------------------------------------------------------------------
(* The reason of an assignment is locked.                                  *)
LEMMA ReasonLocked ==
    ASSUME NEW V, TrailType(trail, trail_lim, V), ReasonInv(db, trail), NEW i \in 1 .. Len(trail),
           NEW r, r = db.reason[var(trail[i])], r # CRef_Undef
    PROVE  r \in live(db) /\ locked(db, r) /\ var(lits(db, r)[1]) = var(trail[i])
<1>1. r \in live(db) /\ lits(db, r)[1] = trail[i]
  BY DEF ReasonInv
<1>2. trail[i] \in ToSet(trail)
  BY TrailIs
<1>3. QED
  BY <1>1, <1>2 DEF locked, IsTrue

(* Clauses that are removed leave no dangling reason: those that are true  *)
(* at the root level lose the assignments they are the reason of, ...      *)
LEMMA SatisfiedReasons ==
    ASSUME NEW V \in SUBSET Nat, DbInv(db, V), TrailType(trail, trail_lim, V), ReasonInv(db, trail),
           Len(trail_lim) = 0, NEW R \in SUBSET live(db), NEW e, Removed(db, e, V, R)
    PROVE  ReasonInv(e, trail) /\ DecisionInv(e, trail, trail_lim)
<1>1. ASSUME NEW i \in 1 .. Len(trail), e.reason[var(trail[i])] # CRef_Undef
      PROVE  /\ e.reason[var(trail[i])] = db.reason[var(trail[i])]
             /\ db.reason[var(trail[i])] \in live(e)
             /\ lits(e, db.reason[var(trail[i])]) = lits(db, db.reason[var(trail[i])])
  <2> DEFINE v == var(trail[i])
             r == db.reason[v]
  <2>1. v \in V
    <3>1. trail[i] \in Lits(V)
      BY TrailIs
    <3>2. QED
      BY <3>1, LitsAre
  <2> HIDE DEF v
  <2>2. e.reason[v] = r /\ ~(r \in R /\ locked(db, r) /\ var(lits(db, r)[1]) = v)
    BY <1>1, <2>1 DEF Removed, v
  <2>3. r # CRef_Undef
    BY <1>1, <2>2 DEF v
  <2>4. r \in live(db) /\ locked(db, r) /\ var(lits(db, r)[1]) = v
    BY <2>3, ReasonLocked DEF v
  <2>5. r \in live(e) /\ r \in 1 .. Len(db.ca)
    <3>1. live(db) \subseteq 1 .. Len(db.ca)
      BY LiveIs DEF DbInv
    <3>2. QED
      BY <2>2, <2>4, <3>1 DEF Removed
  <2>6. lits(e, r) = lits(db, r)
    BY <2>5 DEF Removed
  <2>7. QED
    BY <2>2, <2>5, <2>6 DEF v
<1>2. ReasonInv(e, trail)
  <2>1. ASSUME NEW i \in 1 .. Len(trail), NEW r, r = e.reason[var(trail[i])], r # CRef_Undef
        PROVE  /\ r \in live(e) /\ lits(e, r)[1] = trail[i]
               /\ \A h \in 2 .. Len(lits(e, r)) : \E j \in 1 .. i - 1 : trail[j] = neg(lits(e, r)[h])
    <3>1. r = db.reason[var(trail[i])] /\ r \in live(e) /\ lits(e, r) = lits(db, r)
      BY <1>1, <2>1
    <3>2. /\ lits(db, r)[1] = trail[i]
          /\ \A h \in 2 .. Len(lits(db, r)) : \E j \in 1 .. i - 1 : trail[j] = neg(lits(db, r)[h])
      BY <2>1, <3>1 DEF ReasonInv
    <3>3. QED
      BY <3>1, <3>2
  <2>2. QED
    BY <2>1 DEF ReasonInv
<1>3. DecisionInv(e, trail, trail_lim)
  BY DEF DecisionInv
<1>4. QED
  BY <1>2, <1>3

(* ... and a clause that is not locked is no reason.                       *)
LEMMA UnlockedReasons ==
    ASSUME NEW V \in SUBSET Nat, DbInv(db, V), TrailType(trail, trail_lim, V), ReasonInv(db, trail),
           DecisionInv(db, trail, trail_lim), NEW R \in SUBSET live(db), \A r \in R : ~locked(db, r),
           NEW e, Removed(db, e, V, R)
    PROVE  ReasonInv(e, trail) /\ DecisionInv(e, trail, trail_lim)
<1>1. CRef_Undef \notin R
  <2>1. R \subseteq 1 .. Len(db.ca)
    BY LiveIs DEF DbInv
  <2>2. QED
    BY <2>1 DEF CRef_Undef
<1>2. ASSUME NEW i \in 1 .. Len(trail), NEW r, r = db.reason[var(trail[i])]
      PROVE  e.reason[var(trail[i])] = r /\ (r \in live(db) => r \in live(e) /\ lits(e, r) = lits(db, r))
  <2>1. var(trail[i]) \in V
    <3>1. trail[i] \in Lits(V)
      BY TrailIs
    <3>2. QED
      BY <3>1, LitsAre
  <2>2. r \notin R
    BY <1>1, <1>2, ReasonLocked
  <2>3. e.reason[var(trail[i])] = r
    BY <1>2, <2>1, <2>2 DEF Removed
  <2>4. ASSUME r \in live(db) PROVE r \in live(e) /\ lits(e, r) = lits(db, r)
    <3>1. r \in 1 .. Len(db.ca)
      BY <2>4, LiveIs DEF DbInv
    <3>2. QED
      BY <2>2, <2>4, <3>1 DEF Removed
  <2>5. QED
    BY <2>3, <2>4
<1>3. QED
  BY <1>2, SameReasons

(* The reasons are renamed with the clauses.                               *)
LEMMA CollectedReasons ==
    ASSUME NEW V \in SUBSET Nat, TrailType(trail, trail_lim, V), NEW d, ReasonInv(d, trail),
           DecisionInv(d, trail, trail_lim), NEW e, Collected(d, e, V)
    PROVE  ReasonInv(e, trail) /\ DecisionInv(e, trail, trail_lim)
<1>1. PICK g : Moved(d, e, g) /\ Renamed(d, e, V, g)
  BY DEF Collected
<1>2. ASSUME NEW i \in 1 .. Len(trail)
      PROVE  /\ d.reason[var(trail[i])] = CRef_Undef => e.reason[var(trail[i])] = CRef_Undef
             /\ d.reason[var(trail[i])] # CRef_Undef =>
                  /\ e.reason[var(trail[i])] \in live(e) /\ e.reason[var(trail[i])] # CRef_Undef
                  /\ lits(e, e.reason[var(trail[i])]) = lits(d, d.reason[var(trail[i])])
  <2> DEFINE v == var(trail[i])
  <2>1. trail[i] \in Lits(V)
    BY TrailIs
  <2>2. v \in V /\ v \in assigned
    BY <2>1, LitsAre, AssignedIs
  <2>3. d.reason[v] # CRef_Undef => d.reason[v] \in live(d)
    BY DEF ReasonInv
  <2> HIDE DEF v
  <2>4. /\ d.reason[v] = CRef_Undef => e.reason[v] = CRef_Undef
        /\ d.reason[v] \in live(d) =>
             e.reason[v] \in 1 .. Len(e.ca) /\ g[e.reason[v]] = d.reason[v]
    BY <1>1, <2>2 DEF Renamed
  <2>5. ASSUME d.reason[v] # CRef_Undef
        PROVE  /\ e.reason[v] \in live(e) /\ e.reason[v] # CRef_Undef
               /\ lits(e, e.reason[v]) = lits(d, d.reason[v])
    <3>1. e.reason[v] \in 1 .. Len(e.ca) /\ g[e.reason[v]] = d.reason[v]
      BY <2>3, <2>4, <2>5
    <3>2. e.ca[e.reason[v]] = d.ca[d.reason[v]]
      BY <1>1, <3>1 DEF Moved
    <3>3. e.reason[v] \in live(e)
      BY <3>1 DEF Collected
    <3>4. QED
      BY <3>1, <3>2, <3>3 DEF lits, CRef_Undef
  <2>6. QED
    BY <2>4, <2>5 DEF v
<1>3. ReasonInv(e, trail)
  <2>1. ASSUME NEW i \in 1 .. Len(trail), NEW r, r = e.reason[var(trail[i])], r # CRef_Undef
        PROVE  /\ r \in live(e) /\ lits(e, r)[1] = trail[i]
               /\ \A h \in 2 .. Len(lits(e, r)) : \E j \in 1 .. i - 1 : trail[j] = neg(lits(e, r)[h])
    <3> DEFINE q == d.reason[var(trail[i])]
    <3>1. q # CRef_Undef /\ r \in live(e) /\ lits(e, r) = lits(d, q)
      BY <1>2, <2>1
    <3>2. /\ lits(d, q)[1] = trail[i]
          /\ \A h \in 2 .. Len(lits(d, q)) : \E j \in 1 .. i - 1 : trail[j] = neg(lits(d, q)[h])
      BY <3>1 DEF ReasonInv
    <3>3. QED
      BY <3>1, <3>2
  <2>2. QED
    BY <2>1 DEF ReasonInv
<1>4. DecisionInv(e, trail, trail_lim)
  <2>1. \A i \in 1 .. Len(trail) : e.reason[var(trail[i])] = CRef_Undef => d.reason[var(trail[i])] = CRef_Undef
    BY <1>2
  <2>2. QED
    BY <2>1 DEF DecisionInv
<1>5. QED
  BY <1>3, <1>4

(* checkGarbage collects or does not; reasons and decisions survive it.     *)
LEMMA GarbageIs ==
    ASSUME NEW V \in SUBSET Nat, TrailType(trail, trail_lim, V), NEW d, DbInv(d, V),
           ReasonInv(d, trail), DecisionInv(d, trail, trail_lim), NEW e, e = checkGarbage(d)
    PROVE  DbInv(e, V) /\ ReasonInv(e, trail) /\ DecisionInv(e, trail, trail_lim)
<1>1. e = d \/ e = garbageCollect(d)
  BY DEF checkGarbage
<1>2. CASE e = garbageCollect(d)
  <2>1. Collected(d, e, V)
    BY <1>2, CollectIs
  <2>2. QED
    BY <2>1, CollectedReasons DEF Collected
<1>3. QED
  BY <1>1, <1>2

(* What simplify() and reduceDB() leave alone.                             *)
LEMMA CleanupBase ==
    ASSUME BaseInv, confl = CRef_Undef, pc \in {"search", "reduce"}, pc' \in {"reduce", "decide"},
           ok' = ok, decision' = decision, trail' = trail, trail_lim' = trail_lim,
           qhead' = qhead, wi' = wi, confl' = confl, ret' = ret, assumptions' = assumptions,
           answer' = answer, added' = added, toAdd' = toAdd,
           DbInv(db', AllVars), ReasonInv(db', trail), DecisionInv(db', trail, trail_lim),
           order_heap' \subseteq AllVars,
           \A v \in AllVars : decision[v] => v \in assigned \/ v \in order_heap'
    PROVE  BaseInv'
<1>1. AllVars' = AllVars /\ assigned' = assigned
  BY DEF AllVars, assigned
<1>2. VarsInv /\ TrailType(trail, trail_lim, AllVars) /\ FlowInv /\ WalkInv /\ ClientInv
  BY DEF BaseInv, TrailOK
<1>3. VarsInv'
  BY <1>1, <1>2 DEF VarsInv
<1>4. TrailOK'
  BY <1>1, <1>2, TrailAfter
<1>5. FlowInv'
  BY <1>2 DEF FlowInv
<1>6. WalkInv' /\ ConflInv'
  <2>1. wi = 0
    BY <1>2 DEF WalkInv
  <2>2. QED
    BY <2>1, NoWalk, NoConfl
<1>7. ClientInv'
  BY <1>1, <1>2, SameClient
<1>8. DbInv(db', AllVars')
  BY <1>1
<1>9. QED
  BY <1>3, <1>4, <1>5, <1>6, <1>7, <1>8, BaseAfter

(* simplify at the root level: removes clauses, drops assigned variables   *)
(* from the heap, may collect.                                             *)
LEMMA SimplifyBase ==
    ASSUME BaseInv, simplify
    PROVE  BaseInv'
<1> DEFINE R == {cr \in live(db) : satisfied(db, cr)}
           d == removeClauses(db, R)
<1>1. /\ pc = "search" /\ confl = CRef_Undef /\ decisionLevel = 0 /\ db' = checkGarbage(d)
      /\ order_heap' = {v \in DOMAIN decision : decision[v] /\ v \notin assigned}
      /\ pc' = "reduce" /\ ok' = ok /\ decision' = decision /\ trail' = trail
      /\ trail_lim' = trail_lim /\ qhead' = qhead /\ wi' = wi /\ confl' = confl /\ ret' = ret
      /\ assumptions' = assumptions /\ answer' = answer /\ added' = added /\ toAdd' = toAdd
  BY DEF simplify, NoConflict, trailVars, searchVars, resultVars, clientVars
<1>2. /\ VarsInv /\ DbInv(db, AllVars) /\ TrailType(trail, trail_lim, AllVars)
      /\ ReasonInv(db, trail) /\ AllVars \in SUBSET Nat
  BY DEF BaseInv, TrailOK, VarsInv
<1>3. R \in SUBSET live(db)
  OBVIOUS
<1> HIDE DEF R
<1>4. Removed(db, d, AllVars, R)
  BY <1>2, <1>3, RemoveIs
<1> HIDE DEF d
<1>5. Len(trail_lim) = 0
  BY <1>1 DEF decisionLevel
<1>6. ReasonInv(d, trail) /\ DecisionInv(d, trail, trail_lim)
  BY <1>2, <1>3, <1>4, <1>5, SatisfiedReasons
<1>7. DbInv(db', AllVars) /\ ReasonInv(db', trail) /\ DecisionInv(db', trail, trail_lim)
  <2>1. DbInv(d, AllVars)
    BY <1>4 DEF Removed
  <2>2. QED
    BY <1>1, <1>2, <1>6, <2>1, GarbageIs
<1>8. order_heap' \subseteq AllVars /\ \A v \in AllVars : decision[v] => v \in assigned \/ v \in order_heap'
  BY <1>1 DEF AllVars
<1>9. QED
  BY <1>1, <1>7, <1>8, CleanupBase

(* search goes on although the root level has nothing new to simplify by.  *)
LEMMA KeepAsItIsBase ==
    ASSUME BaseInv, KeepAsItIs
    PROVE  BaseInv'
<1>1. /\ pc = "search" /\ confl = CRef_Undef /\ db' = db /\ order_heap' = order_heap
      /\ pc' = "reduce" /\ ok' = ok /\ decision' = decision /\ trail' = trail
      /\ trail_lim' = trail_lim /\ qhead' = qhead /\ wi' = wi /\ confl' = confl /\ ret' = ret
      /\ assumptions' = assumptions /\ answer' = answer /\ added' = added /\ toAdd' = toAdd
  BY DEF KeepAsItIs, NoConflict, trailVars, searchVars, resultVars, clientVars
<1>2. /\ DbInv(db', AllVars) /\ ReasonInv(db', trail) /\ DecisionInv(db', trail, trail_lim)
  BY <1>1 DEF BaseInv, TrailOK
<1>3. QED
  BY <1>1, <1>2, HeapCovers, CleanupBase

(* reduceDB() removes learnt clauses that are not locked.                  *)
LEMMA ReduceBase ==
    ASSUME BaseInv, Reduce
    PROVE  BaseInv'
<1>1. /\ pc = "reduce" /\ order_heap' = order_heap
      /\ pc' = "decide" /\ ok' = ok /\ decision' = decision /\ trail' = trail
      /\ trail_lim' = trail_lim /\ qhead' = qhead /\ wi' = wi /\ confl' = confl /\ ret' = ret
      /\ assumptions' = assumptions /\ answer' = answer /\ added' = added /\ toAdd' = toAdd
  BY DEF Reduce, trailVars, searchVars, resultVars, clientVars
<1>2. /\ VarsInv /\ DbInv(db, AllVars) /\ TrailType(trail, trail_lim, AllVars)
      /\ ReasonInv(db, trail) /\ DecisionInv(db, trail, trail_lim) /\ AllVars \in SUBSET Nat
      /\ ConflInv
  BY DEF BaseInv, TrailOK, VarsInv
<1>3. confl = CRef_Undef
  BY <1>1, <1>2 DEF ConflInv
<1>4. \/ db' = db
      \/ \E R \in SUBSET {cr \in db.learnts : ~locked(db, cr)} : db' = checkGarbage(removeClauses(db, R))
  <2> DEFINE big == {cr \in db.learnts : Len(lits(db, cr)) > 2}
             free == {cr \in big : ~locked(db, cr)}
  <2>1. free \subseteq {cr \in db.learnts : ~locked(db, cr)}
    OBVIOUS
  <2>2. db' = db \/ \E R \in SUBSET free : db' = checkGarbage(removeClauses(db, R))
    BY Zenon DEF Reduce, reduceDB
  <2> HIDE DEF free
  <2>3. QED
    BY <2>1, <2>2
<1>5. DbInv(db', AllVars) /\ ReasonInv(db', trail) /\ DecisionInv(db', trail, trail_lim)
  <2>1. CASE db' = db
    BY <1>2, <2>1
  <2>2. ASSUME NEW R \in SUBSET {cr \in db.learnts : ~locked(db, cr)}, db' = checkGarbage(removeClauses(db, R))
        PROVE  DbInv(db', AllVars) /\ ReasonInv(db', trail) /\ DecisionInv(db', trail, trail_lim)
    <3> DEFINE d == removeClauses(db, R)
    <3>1. R \in SUBSET live(db) /\ \A r \in R : ~locked(db, r)
      BY <1>2 DEF DbInv, DbType
    <3>2. Removed(db, d, AllVars, R)
      BY <1>2, <3>1, RemoveIs
    <3>3. ReasonInv(d, trail) /\ DecisionInv(d, trail, trail_lim)
      BY <1>2, <3>1, <3>2, UnlockedReasons
    <3>4. DbInv(d, AllVars)
      BY <3>2 DEF Removed
    <3> HIDE DEF d
    <3>5. db' = checkGarbage(d)
      BY <2>2 DEF d
    <3>6. QED
      BY <1>2, <3>3, <3>4, <3>5, GarbageIs
  <2>3. QED
    BY <1>4, <2>1, <2>2
<1>6. QED
  BY <1>1, <1>3, <1>5, HeapCovers, CleanupBase

-----------------------------------------------------------------------------
(* An assumption that holds already opens a level of its own.              *)
LEMMA DummyLevelBase ==
    ASSUME BaseInv, DummyLevel
    PROVE  BaseInv'
<1>1. /\ pc = "decide" /\ trail_lim' = Append(trail_lim, Len(trail)) /\ pc' = pc /\ ok' = ok
      /\ decision' = decision /\ order_heap' = order_heap /\ db' = db /\ trail' = trail
      /\ qhead' = qhead /\ wi' = wi /\ confl' = confl /\ ret' = ret
      /\ assumptions' = assumptions /\ answer' = answer /\ added' = added /\ toAdd' = toAdd
  BY DEF DummyLevel, Pending, searchVars, resultVars, clientVars
<1>2. AllVars' = AllVars /\ assigned' = assigned
  BY <1>1 DEF AllVars, assigned
<1>3. /\ VarsInv /\ DbInv(db, AllVars) /\ TrailType(trail, trail_lim, AllVars)
      /\ ReasonInv(db, trail) /\ DecisionInv(db, trail, trail_lim) /\ FlowInv /\ WalkInv
      /\ ConflInv /\ ClientInv
  BY DEF BaseInv, TrailOK
<1>4. wi = 0 /\ confl = CRef_Undef
  BY <1>1, <1>3 DEF WalkInv, ConflInv
<1>5. VarsInv'
  BY <1>1, <1>2, <1>3 DEF VarsInv
<1>6. /\ TrailType(trail, trail_lim', AllVars) /\ DecisionInv(db, trail, trail_lim')
  BY <1>1, <1>3, LevelPushed
<1>7. TrailOK'
  BY <1>1, <1>2, <1>3, <1>6, TrailAfter
<1>8. FlowInv'
  <2>1. \A k \in 1 .. Len(trail_lim') : trail_lim'[k] <= Len(trail)
    BY <1>6, TrailIs
  <2>2. QED
    BY <1>1, <1>3, <2>1 DEF FlowInv
<1>9. WalkInv' /\ ConflInv'
  BY <1>1, <1>4, NoWalk, NoConfl
<1>10. ClientInv'
  BY <1>1, <1>2, <1>3, SameClient
<1>11. DbInv(db', AllVars')
  BY <1>1, <1>2, <1>3
<1>12. QED
  BY <1>5, <1>7, <1>8, <1>9, <1>10, <1>11, BaseAfter

(* A decision opens a level.                                               *)
LEMMA DecideBase ==
    ASSUME BaseInv, pc = "decide", NEW p \in Lits(AllVars),
           \A i \in 1 .. Len(trail) : var(trail[i]) # var(p), Decide(p),
           order_heap' \subseteq order_heap,
           \A v \in order_heap : v \in order_heap' \/ v \in assigned \/ v = var(p)
    PROVE  BaseInv'
<1> DEFINE V == AllVars
           k == Append(trail_lim, Len(trail))
<1>1. /\ trail_lim' = k /\ trail' = Append(trail, p)
      /\ db' = [db EXCEPT !.reason[var(p)] = CRef_Undef] /\ pc' = "propagate" /\ ok' = ok
      /\ decision' = decision /\ qhead' = qhead /\ wi' = wi /\ confl' = confl /\ ret' = ret
      /\ assumptions' = assumptions /\ answer' = answer /\ added' = added /\ toAdd' = toAdd
  BY DEF Decide, Enqueue, searchVars, resultVars, clientVars
<1>2. AllVars' = AllVars
  BY <1>1 DEF AllVars
<1>3. /\ VarsInv /\ DbInv(db, V) /\ TrailType(trail, trail_lim, V) /\ V \in SUBSET Nat
      /\ ReasonInv(db, trail) /\ DecisionInv(db, trail, trail_lim) /\ FlowInv /\ WalkInv
      /\ ConflInv /\ ClientInv
  BY DEF BaseInv, TrailOK, VarsInv
<1>4. wi = 0 /\ confl = CRef_Undef
  BY <1>3 DEF WalkInv, ConflInv
<1> HIDE DEF V, k
<1>5. /\ TrailType(trail, k, V) /\ DecisionInv(db, trail, k) /\ Len(k) = Len(trail_lim) + 1
      /\ k[Len(k)] = Len(trail)
  BY <1>3, LevelPushed DEF k
<1>6. Len(trail) \in Nat /\ Len(trail_lim) \in Nat /\ Len(k) >= 1
      /\ \A j \in 1 .. Len(k) : k[j] <= Len(trail)
  BY <1>3, <1>5, TrailIs
<1>7. CRef_Undef \in Int /\ (CRef_Undef # CRef_Undef => IsReason(db, trail, p, CRef_Undef))
  BY DEF CRef_Undef
<1>8. p \in Lits(V)
  BY DEF V
<1>9. Enqueued(db, db', trail, trail', k, V, p, CRef_Undef)
  BY <1>1, <1>3, <1>5, <1>6, <1>7, <1>8, EnqueueIs
<1>10. /\ DbInv(db', V) /\ TrailType(trail', trail_lim', V) /\ ReasonInv(db', trail')
       /\ DecisionInv(db', trail', trail_lim') /\ Begins(trail, trail')
       /\ Len(trail') = Len(trail) + 1 /\ trail'[Len(trail) + 1] = p
  BY <1>1, <1>9 DEF Enqueued
<1>11. assigned \subseteq assigned' /\ var(p) \in assigned'
  <2>1. VarsOf(ToSet(trail)) \subseteq VarsOf(ToSet(trail'))
    BY <1>3, <1>10, MoreAssigned
  <2>2. Len(trail) + 1 \in 1 .. Len(trail')
    BY <1>6, <1>10
  <2>3. p \in ToSet(trail')
    BY <1>10, <2>2, TrailIs
  <2>4. var(p) \in VarsOf(ToSet(trail'))
    BY <2>3 DEF VarsOf
  <2>5. QED
    BY <2>1, <2>4 DEF assigned
<1>12. VarsInv'
  <2>1. /\ AllVars \subseteq Nat /\ decision \in [AllVars -> BOOLEAN] /\ order_heap \subseteq AllVars
        /\ \A v \in AllVars : decision[v] => v \in assigned \/ v \in order_heap
        /\ assumptions \in Seq(Lits(AllVars)) /\ ok \in BOOLEAN
        /\ answer \in {"none", "pending", "sat", "unsat"}
    BY <1>3 DEF VarsInv
  <2>2. \A v \in AllVars : decision[v] => v \in assigned' \/ v \in order_heap'
    BY <1>11, <2>1
  <2>3. QED
    BY <1>1, <1>2, <2>1, <2>2 DEF VarsInv
<1>13. TrailOK'
  BY <1>2, <1>10, TrailAfter DEF V
<1>14. FlowInv'
  BY <1>1, <1>3, <1>6, <1>10 DEF FlowInv
<1>15. WalkInv' /\ ConflInv'
  BY <1>1, <1>4, NoWalk, NoConfl
<1>16. ClientInv'
  BY <1>1, <1>2, <1>3, SameClient
<1>17. DbInv(db', AllVars')
  BY <1>2, <1>10 DEF V
<1>18. QED
  BY <1>12, <1>13, <1>14, <1>15, <1>16, <1>17, BaseAfter

(* The next assumption.                                                    *)
LEMMA AssumeBase ==
    ASSUME BaseInv, Assume
    PROVE  BaseInv'
<1>1. /\ pc = "decide" /\ decisionLevel < Len(assumptions) /\ IsUndef(Assumed) /\ Decide(Assumed)
      /\ order_heap' = order_heap
  BY DEF Assume, Pending
<1>2. /\ assumptions \in Seq(Lits(AllVars)) /\ AllVars \in SUBSET Nat
      /\ TrailType(trail, trail_lim, AllVars)
  BY DEF BaseInv, VarsInv, TrailOK
<1>3. Assumed \in Lits(AllVars)
  <2>1. Len(assumptions) \in Nat /\ Len(trail_lim) \in Nat
    BY <1>2, TrailIs
  <2>2. Len(trail_lim) + 1 \in 1 .. Len(assumptions)
    BY <1>1, <2>1 DEF decisionLevel
  <2>3. assumptions[Len(trail_lim) + 1] \in Lits(AllVars)
    BY <1>2, <2>2, ElementOfSeq
  <2>4. QED
    BY <2>3 DEF Assumed, decisionLevel
<1>4. Assumed \in Nat
  BY <1>2, <1>3, LitsAre
<1>5. \A i \in 1 .. Len(trail) : var(trail[i]) # var(Assumed)
  BY <1>1, <1>2, <1>4, Unassigned
<1>6. QED
  BY <1>1, <1>3, <1>5, DecideBase

(* A variable from the heap.                                               *)
LEMMA PickBase ==
    ASSUME BaseInv, pickBranchLit
    PROVE  BaseInv'
<1>1. pc = "decide"
  BY DEF pickBranchLit, Branching
<1>2. PICK v \in Candidates, s \in BOOLEAN, popped \in SUBSET (order_heap \cap assigned) :
        order_heap' = order_heap \ ({v} \cup popped) /\ Decide(mkLit(v, s))
  BY DEF pickBranchLit
<1>3. order_heap \subseteq AllVars /\ AllVars \in SUBSET Nat /\ TrailType(trail, trail_lim, AllVars)
  BY DEF BaseInv, VarsInv, TrailOK
<1>4. v \in AllVars /\ v \notin assigned /\ v \in Nat
  BY <1>3 DEF Candidates
<1>5. mkLit(v, s) \in Nat /\ var(mkLit(v, s)) = v
  BY <1>4, LiteralOf DEF Literal
<1>6. mkLit(v, s) \in Lits(AllVars)
  BY <1>3, <1>4, <1>5, LitsAre
<1>7. \A i \in 1 .. Len(trail) : var(trail[i]) # var(mkLit(v, s))
  BY <1>3, <1>4, <1>5, AssignedIs
<1>8. /\ order_heap' \subseteq order_heap
      /\ \A u \in order_heap : u \in order_heap' \/ u \in assigned \/ u = var(mkLit(v, s))
  BY <1>2, <1>5
<1>9. QED
  BY <1>1, <1>2, <1>6, <1>7, <1>8, DecideBase

(* Every step keeps the invariant.                                         *)
LEMMA BaseInductive ==
    ASSUME SolverAssumption, BaseInv, [Next]_vars
    PROVE  BaseInv'
<1>1. CASE Client
  <2>1. CASE AddFirst
    BY <2>1, AddFirstBase
  <2>2. CASE AddLater
    BY <2>2, AddLaterBase
  <2>3. CASE solve
    BY <2>3, SolveBase
  <2>4. CASE Idle
    BY <2>4, SameBase DEF Idle
  <2>5. QED
    BY <1>1, <2>1, <2>2, <2>3, <2>4 DEF Client
<1>2. CASE Propagation
  BY <1>2, NextFactBase, PropagateDoneBase, BlockerTrueBase, FirstTrueBase, MoveWatchBase,
     UnitBase, ConflictingBase DEF Propagation
<1>3. CASE Search
  BY <1>3, AddPropagatedBase, AnswersBase, LearnBase, RestartBase, KeepAsItIsBase, SimplifyBase,
     ReduceBase, DummyLevelBase, AssumeBase, PickBase DEF Search
<1>4. CASE UNCHANGED vars
  BY <1>4, SameBase
<1>5. QED
  BY <1>1, <1>2, <1>3, <1>4 DEF Next, Work

(* ... so that it holds in every state.                                    *)
THEOREM BaseInvariant == Spec => []BaseInv
<1>1. Init => BaseInv
  BY SolverAssumption, InitBase
<1>2. BaseInv /\ [Next]_vars => BaseInv'
  BY SolverAssumption, BaseInductive
<1>3. QED
  BY <1>1, <1>2, PTL DEF Spec

(* No decision variable is lost between the heap and the trail             *)
(* (SolverProps' NoVariableForgotten): a sat answer leaves none out.       *)
THEOREM NoVariableForgottenHolds == Spec => []NoVariableForgotten
<1>1. BaseInv => NoVariableForgotten
  BY DEF BaseInv, VarsInv, NoVariableForgotten
<1>2. QED
  BY <1>1, BaseInvariant, PTL

-----------------------------------------------------------------------------
(* No deletion, simplification or collection takes the reason of an        *)
(* assignment away (SolverProps' ReasonsAreLive).                          *)
THEOREM ReasonsAreLiveHolds == Spec => []ReasonsAreLive
<1>1. BaseInv => ReasonsAreLive
  <2>1. SUFFICES ASSUME BaseInv PROVE ReasonsAreLive
    OBVIOUS
  <2>2. /\ TrailType(trail, trail_lim, AllVars) /\ ReasonInv(db, trail) /\ DbType(db, AllVars)
        /\ AllVars \in SUBSET Nat
    BY <2>1 DEF BaseInv, TrailOK, DbInv, VarsInv
  <2>3. DOMAIN trail = 1 .. Len(trail)
    BY <2>2, TrailIs
  <2>4. ASSUME NEW i \in 1 .. Len(trail), NEW r, r = db.reason[var(trail[i])], r # CRef_Undef
        PROVE  /\ r \in live(db) /\ lits(db, r)[1] = trail[i]
               /\ \A q \in ToSet(Tail(lits(db, r))) : \E j \in 1 .. (i - 1) : trail[j] = neg(q)
    <3> DEFINE c == lits(db, r)
    <3>1. /\ r \in live(db) /\ c[1] = trail[i]
          /\ \A k \in 2 .. Len(c) : \E j \in 1 .. i - 1 : trail[j] = neg(c[k])
      BY <2>2, <2>4 DEF ReasonInv
    <3>2. c \in Seq(Lits(AllVars)) /\ Len(c) \in Nat /\ Len(c) >= 2
      <4>1. r \in 1 .. Len(db.ca)
        BY <2>2, <3>1, LiveIs
      <4>2. QED
        BY <2>2, <4>1, ClauseIs
    <3> HIDE DEF c
    <3>3. /\ Tail(c) \in Seq(Lits(AllVars)) /\ Len(Tail(c)) = Len(c) - 1
          /\ \A k \in 1 .. Len(c) - 1 : Tail(c)[k] = c[k + 1]
      BY <3>2
    <3>4. ASSUME NEW q \in ToSet(Tail(c)) PROVE \E j \in 1 .. (i - 1) : trail[j] = neg(q)
      <4>1. PICK k \in 1 .. Len(Tail(c)) : Tail(c)[k] = q
        BY <3>3, ToSetIs
      <4>2. k + 1 \in 2 .. Len(c) /\ q = c[k + 1]
        BY <3>2, <3>3, <4>1
      <4>3. QED
        BY <3>1, <4>2
    <3>5. QED
      BY <3>1, <3>4 DEF c
  <2>5. QED
    BY <2>3, <2>4 DEF ReasonsAreLive
<1>2. QED
  BY <1>1, BaseInvariant, PTL

(* A clause is in the list of a literal that it watches, once.             *)
LEMMA WatchedOnce ==
    ASSUME BaseInv
    PROVE  TwoWatches
<1>1. /\ DbType(db, AllVars) /\ WatchInv(db, AllVars) /\ BothWatched(db) /\ AllVars \in SUBSET Nat
  BY DEF BaseInv, DbInv, VarsInv
<1>2. ASSUME NEW p \in Lits(AllVars), NEW cr \in live(db)
      PROVE  Cardinality({i \in DOMAIN db.watches[p] : db.watches[p][i].cref = cr})
               = IF neg(p) \in {lits(db, cr)[1], lits(db, cr)[2]} THEN 1 ELSE 0
  <2> DEFINE s == db.watches[p]
             I == {i \in DOMAIN s : s[i].cref = cr}
  <2>1. DOMAIN s = 1 .. Len(s) /\ GoodList(db, p, s)
    <3>1. s \in Seq(Watcher)
      BY <1>1 DEF DbType
    <3>2. QED
      BY <1>1, <3>1 DEF WatchInv
  <2>2. /\ \A i \in 1 .. Len(s) : GoodWatcher(db, p, s[i])
        /\ \A i, j \in 1 .. Len(s) : s[i].cref = s[j].cref => i = j
    BY <2>1 DEF GoodList
  <2>3. CASE neg(p) \in {lits(db, cr)[1], lits(db, cr)[2]}
    <3>1. p \in Nat
      BY <1>1, LitsAre
    <3>2. p = neg(neg(p))
      BY <3>1, Negation DEF Literal
    <3>3. InList(s, cr)
      BY <1>1, <2>3, <3>2 DEF BothWatched
    <3>4. PICK i \in 1 .. Len(s) : s[i].cref = cr
      BY <3>3 DEF InList
    <3>5. I = {i}
      BY <2>1, <2>2, <3>4
    <3> HIDE DEF I
    <3>6. Cardinality(I) = 1
      BY <3>5, FS_Singleton, Zenon
    <3>7. QED
      BY <2>3, <3>6 DEF I
  <2>4. CASE neg(p) \notin {lits(db, cr)[1], lits(db, cr)[2]}
    <3>1. I = {}
      <4>1. ASSUME NEW i \in 1 .. Len(s), s[i].cref = cr PROVE FALSE
        <5>1. GoodWatcher(db, p, s[i])
          BY <2>2
        <5>2. QED
          BY <2>4, <4>1, <5>1 DEF GoodWatcher
      <4>2. QED
        BY <2>1, <4>1
    <3> HIDE DEF I
    <3>2. Cardinality(I) = 0
      BY <3>1, FS_EmptySet
    <3>3. QED
      BY <2>4, <3>2 DEF I
  <2>5. QED
    BY <2>3, <2>4
<1>3. QED
  BY <1>2 DEF TwoWatches

(* The state of the solver has its type; between two calls of propagate    *)
(* each clause is in exactly its two lists (SolverProps' SolverTypeOK).    *)
THEOREM SolverTypes == Spec => []SolverTypeOK
<1>1. BaseInv => SolverTypeOK
  <2>1. SUFFICES ASSUME BaseInv PROVE SolverTypeOK
    OBVIOUS
  <2>2. /\ VarsInv /\ DbType(db, AllVars) /\ TrailType(trail, trail_lim, AllVars) /\ FlowInv
        /\ TwoWatches
    BY <2>1, WatchedOnce DEF BaseInv, TrailOK, DbInv
  <2>3. ToSet(trail) \subseteq Lits(AllVars)
    BY <2>2, TrailIs
  <2>4. trail_lim \in Seq(0 .. Len(trail))
    <3>1. /\ Len(trail_lim) \in Nat /\ trail_lim \in [1 .. Len(trail_lim) -> Nat] /\ Len(trail) \in Nat
      BY <2>2, TrailIs, LenProperties
    <3>2. \A k \in 1 .. Len(trail_lim) : trail_lim[k] \in 0 .. Len(trail)
      BY <2>2, <3>1 DEF TrailType
    <3>3. trail_lim \in [1 .. Len(trail_lim) -> 0 .. Len(trail)]
      BY <3>1, <3>2
    <3>4. trail_lim \in UNION {[1 .. n -> 0 .. Len(trail)] : n \in Nat}
      BY <3>1, <3>3, Zenon
    <3>5. QED
      BY <3>4, SeqDef, Zenon
  <2>5. /\ db.clauses \cup db.learnts = live(db)
        /\ \A p \in Lits(AllVars) : db.watches[p] \in Seq(Watcher)
        /\ DOMAIN db.reason = AllVars
    BY <2>2 DEF DbType
  <2>6. /\ ok \in BOOLEAN /\ decision \in [AllVars -> BOOLEAN] /\ order_heap \subseteq AllVars
        /\ qhead \in 0 .. Len(trail) /\ answer \in {"none", "pending", "sat", "unsat"}
        /\ pc \in {"idle", "add", "propagate", "search", "reduce", "decide", "refuse"}
    BY <2>2 DEF VarsInv, FlowInv
  <2>7. QED
    BY <2>2, <2>3, <2>4, <2>5, <2>6 DEF SolverTypeOK
<1>2. QED
  BY <1>1, BaseInvariant, PTL

=============================================================================
