---------------------------- MODULE ClauseProofs ----------------------------
(***************************************************************************)
(* What the solvers do to their clauses, and why they may.                 *)
(*                                                                         *)
(* The first part is about sets of clauses: subsumption, strengthening and *)
(* variable elimination (module Clauses), for every set of clauses over    *)
(* any variables. The second part is about the clause database of Solver:  *)
(* every operation on it keeps DbInv, the invariant that ties clauses,     *)
(* watch lists and reasons together, for every database that has it.       *)
(***************************************************************************)
EXTENDS SolverProps, Clauses, Queue, CountingLemmas, SequenceTheorems

Literal == Nat

-----------------------------------------------------------------------------
(* Literals *)

(* Negation is an involution without fixed point, and keeps the variable.  *)
LEMMA Negation ==
    ASSUME NEW p \in Literal
    PROVE  /\ neg(p) \in Literal
           /\ neg(neg(p)) = p
           /\ neg(p) # p
           /\ var(neg(p)) = var(p)
           /\ var(p) \in Nat
  BY DEF neg, sign, var, Literal

(* A variable has two literals.                                            *)
LEMMA TwoLiterals ==
    ASSUME NEW p \in Literal, NEW q \in Literal, var(p) = var(q)
    PROVE  q = p \/ q = neg(p)
  BY DEF neg, sign, var, Literal

(* The literals of a variable.                                             *)
LEMMA LiteralOf ==
    ASSUME NEW v \in Nat, NEW s \in BOOLEAN
    PROVE  /\ mkLit(v, s) \in Literal
           /\ var(mkLit(v, s)) = v
           /\ neg(mkLit(v, s)) = mkLit(v, ~s)
  BY DEF mkLit, neg, sign, var, Literal

(* What a total assignment of the variables V is made of.                  *)
LEMMA TotalAssignment ==
    ASSUME NEW V \in SUBSET Nat, NEW m \in TotalOver(V)
    PROVE  /\ m \subseteq Literal
           /\ \A p \in Literal : p \in m => var(p) \in V /\ neg(p) \notin m
           /\ \A p \in Literal : var(p) \in V => p \in m \/ neg(p) \in m
<1>1. PICK T \in SUBSET V : m = {mkLit(w, w \notin T) : w \in V}
  BY DEF TotalOver
<1>2. m \subseteq Literal
  BY <1>1, LiteralOf
<1>3. ASSUME NEW p \in Literal, p \in m
      PROVE  var(p) \in V /\ neg(p) \notin m
  <2>1. PICK w \in V : p = mkLit(w, w \notin T)
    BY <1>1, <1>3
  <2>2. w \in Nat /\ (w \notin T => p = 2 * w + 1) /\ (w \in T => p = 2 * w)
    BY <2>1 DEF mkLit
  <2>3. var(p) = w
    BY <2>2 DEF var
  <2>4. ASSUME NEW u \in V, neg(p) = mkLit(u, u \notin T) PROVE FALSE
    <3>1. u \in Nat /\ (u \notin T => neg(p) = 2 * u + 1) /\ (u \in T => neg(p) = 2 * u)
      BY <2>4 DEF mkLit
    <3>2. var(neg(p)) = u
      BY <3>1 DEF var
    <3>3. u = w
      BY <2>3, <3>2, Negation
    <3>4. neg(p) = p
      BY <2>2, <3>1, <3>3
    <3>5. QED
      BY <3>4, Negation
  <2>5. QED
    BY <1>1, <2>3, <2>4
<1>4. ASSUME NEW p \in Literal, var(p) \in V PROVE p \in m \/ neg(p) \in m
  <2> DEFINE q == mkLit(var(p), var(p) \notin T)
  <2>1. q \in m /\ q \in Literal /\ var(q) = var(p)
    BY <1>1, <1>4, LiteralOf
  <2>2. q = p \/ q = neg(p)
    BY <2>1, TwoLiterals
  <2>3. QED
    BY <2>1, <2>2
<1>5. QED
  BY <1>2, <1>3, <1>4

-----------------------------------------------------------------------------
(* Clauses over the variables V, none with both literals of a variable.    *)
ClausesOver(V) ==
    {C \in SUBSET Literal : VarsOf(C) \subseteq V /\ \A p \in C : neg(p) \notin C}

(* What eliminateVar leaves of the clauses F.                              *)
Without(F, v) == {C \in F : v \notin VarsOf(C)}

ResolventsOn(F, v) ==
    LET pos == {C \in F : mkLit(v, FALSE) \in C}
        ng == {C \in F : mkLit(v, TRUE) \in C}
    IN  {merge(PQ[1], PQ[2], v) : PQ \in {R \in pos \X ng : ~Tautology(R[1], R[2], v)}}

(* What extendModel makes of the stored clauses of the literal few and of  *)
(* the default: few only if some clause needs it.                          *)
Replayed(F, few, m) ==
    IF \E C \in F : few \in C /\ \A p \in C \ {few} : neg(p) \in m
    THEN few ELSE neg(few)

(* A clause and its opposite number, without v, have their resolvent true, *)
(* or opposite literals of another variable: one of them has a true        *)
(* literal besides that of v.                                              *)
LEMMA OneIsTrue ==
    ASSUME NEW V \in SUBSET Nat, NEW v \in V, NEW F \in SUBSET ClausesOver(V),
           NEW m \in TotalOver(V \ {v}), Satisfies(m, ResolventsOn(F, v)),
           NEW P \in F, NEW Q \in F, mkLit(v, FALSE) \in P, mkLit(v, TRUE) \in Q
    PROVE  P \cap m # {} \/ Q \cap m # {}
<1>1. P \subseteq Literal /\ Q \subseteq Literal /\ VarsOf(P) \subseteq V
  BY DEF ClausesOver
<1>2. CASE Tautology(P, Q, v)
  <2>1. PICK l \in P : var(l) # v /\ neg(l) \in Q
    BY <1>2 DEF Tautology
  <2>2. var(l) \in V \ {v}
    BY <1>1, <2>1 DEF VarsOf
  <2>3. l \in m \/ neg(l) \in m
    BY <1>1, <2>2, TotalAssignment
  <2>4. QED
    BY <2>1, <2>3
<1>3. CASE ~Tautology(P, Q, v)
  <2>1. merge(P, Q, v) \in ResolventsOn(F, v)
    <3> DEFINE PQ == <<P, Q>>
    <3>1. PQ \in {C \in F : mkLit(v, FALSE) \in C} \X {C \in F : mkLit(v, TRUE) \in C}
      OBVIOUS
    <3>2. PQ[1] = P /\ PQ[2] = Q
      OBVIOUS
    <3>3. QED
      BY <1>3, <3>1, <3>2 DEF ResolventsOn
  <2>2. merge(P, Q, v) \cap m # {}
    BY <2>1 DEF Satisfies
  <2>3. QED
    BY <2>2 DEF merge
<1>4. QED
  BY <1>2, <1>3

(* Elimination with the model extension: a total assignment of the other   *)
(* variables that makes what eliminateVar leaves true makes all clauses    *)
(* true with the value that extendModel picks for v, whichever of the two  *)
(* literals has its clauses stored.                                        *)
THEOREM ReplayIsAModel ==
    ASSUME NEW V \in SUBSET Nat, NEW v \in V, NEW F \in SUBSET ClausesOver(V),
           NEW m \in TotalOver(V \ {v}), NEW s \in BOOLEAN,
           Satisfies(m, Without(F, v) \cup ResolventsOn(F, v))
    PROVE  Satisfies(m \cup {Replayed(F, mkLit(v, s), m)}, F)
<1> DEFINE few == mkLit(v, s)
           x == Replayed(F, few, m)
<1>1. /\ few \in Literal /\ neg(few) \in Literal /\ neg(neg(few)) = few
      /\ var(few) = v /\ var(neg(few)) = v
      /\ \/ few = mkLit(v, FALSE) /\ neg(few) = mkLit(v, TRUE)
         \/ few = mkLit(v, TRUE) /\ neg(few) = mkLit(v, FALSE)
  BY LiteralOf, Negation
<1>2. Satisfies(m, ResolventsOn(F, v)) /\ Satisfies(m, Without(F, v))
  BY DEF Satisfies
<1>3. ASSUME NEW P \in F, NEW Q \in F, few \in P, neg(few) \in Q
      PROVE  P \cap m # {} \/ Q \cap m # {}
  BY <1>1, <1>2, <1>3, OneIsTrue
<1>4. SUFFICES ASSUME NEW C \in F PROVE C \cap (m \cup {x}) # {}
  BY DEF Satisfies
<1>5. CASE v \notin VarsOf(C)
  BY <1>2, <1>5 DEF Without, Satisfies
<1>6. CASE v \in VarsOf(C)
  <2>1. few \in C \/ neg(few) \in C
    <3>1. PICK p \in C : var(p) = v
      BY <1>6 DEF VarsOf
    <3>2. p \in Literal
      BY DEF ClausesOver
    <3>3. QED
      BY <1>1, <3>1, <3>2, TwoLiterals
  <2>2. CASE \E D \in F : few \in D /\ \A p \in D \ {few} : neg(p) \in m
    <3>1. PICK D \in F : few \in D /\ \A p \in D \ {few} : neg(p) \in m
      BY <2>2
    <3>2. x = few
      BY <2>2 DEF Replayed
    <3>3. D \cap m = {}
      <4>1. few \notin m
        BY <1>1, TotalAssignment
      <4>2. \A p \in D \ {few} : p \notin m
        BY <3>1, TotalAssignment DEF ClausesOver
      <4>3. QED
        BY <4>1, <4>2
    <3>4. QED
      BY <1>3, <2>1, <3>1, <3>2, <3>3
  <2>3. CASE ~ \E D \in F : few \in D /\ \A p \in D \ {few} : neg(p) \in m
    <3>1. x = neg(few)
      BY <2>3 DEF Replayed
    <3>2. CASE neg(few) \in C
      BY <3>1, <3>2
    <3>3. CASE neg(few) \notin C
      <4>1. PICK p \in C \ {few} : neg(p) \notin m
        BY <2>1, <2>3, <3>3
      <4>2. p \in Literal /\ var(p) \in V
        BY DEF ClausesOver, VarsOf
      <4>3. var(p) # v
        BY <1>1, <3>3, <4>1, <4>2, TwoLiterals
      <4>4. p \in m
        BY <4>1, <4>2, <4>3, TotalAssignment
      <4>5. QED
        BY <4>4
    <3>4. QED
      BY <3>2, <3>3
  <2>4. QED
    BY <2>2, <2>3
<1>7. QED
  BY <1>5, <1>6

(* Elimination keeps the question about the other variables: the           *)
(* resolvents and the clauses without v are true under exactly those of    *)
(* their assignments that some value of v extends to a model of all        *)
(* clauses.                                                                *)
THEOREM EliminationKeepsTheProjection ==
    ASSUME NEW V \in SUBSET Nat, NEW v \in V, NEW F \in SUBSET ClausesOver(V),
           NEW m \in TotalOver(V \ {v})
    PROVE  Satisfies(m, Without(F, v) \cup ResolventsOn(F, v)) <=>
               \E s \in BOOLEAN : Satisfies(m \cup {mkLit(v, s)}, F)
<1>1. ASSUME Satisfies(m, Without(F, v) \cup ResolventsOn(F, v))
      PROVE  \E s \in BOOLEAN : Satisfies(m \cup {mkLit(v, s)}, F)
  <2>1. Satisfies(m \cup {Replayed(F, mkLit(v, FALSE), m)}, F)
    BY <1>1, ReplayIsAModel
  <2>2. \/ Replayed(F, mkLit(v, FALSE), m) = mkLit(v, FALSE)
        \/ Replayed(F, mkLit(v, FALSE), m) = mkLit(v, TRUE)
    BY LiteralOf DEF Replayed
  <2>3. QED
    BY <2>1, <2>2
<1>2. ASSUME NEW s \in BOOLEAN, Satisfies(m \cup {mkLit(v, s)}, F)
      PROVE  Satisfies(m, Without(F, v) \cup ResolventsOn(F, v))
  <2> DEFINE x == mkLit(v, s)
  <2>1. /\ x \in Literal /\ neg(x) \in Literal /\ var(x) = v /\ var(neg(x)) = v
        /\ \/ x = mkLit(v, FALSE) /\ neg(x) = mkLit(v, TRUE)
           \/ x = mkLit(v, TRUE) /\ neg(x) = mkLit(v, FALSE)
    BY LiteralOf, Negation
  <2>2. ASSUME NEW C \in Without(F, v) PROVE C \cap m # {}
    <3>1. x \notin C
      BY <2>1 DEF Without, VarsOf
    <3>2. C \cap (m \cup {x}) # {}
      BY <1>2 DEF Without, Satisfies
    <3>3. QED
      BY <3>1, <3>2
  <2>3. ASSUME NEW P \in F, NEW Q \in F, mkLit(v, FALSE) \in P, mkLit(v, TRUE) \in Q
        PROVE  merge(P, Q, v) \cap m # {}
    <3>1. PICK C \in {P, Q} : neg(x) \in C
      BY <2>1, <2>3
    <3>2. x \notin C
      BY <2>1, <3>1, Negation DEF ClausesOver
    <3>3. PICK p \in C : p \in m
      BY <1>2, <3>2 DEF Satisfies
    <3>4. p \in Literal /\ var(p) # v
      BY <3>3, TotalAssignment DEF ClausesOver
    <3>5. p \in merge(P, Q, v)
      BY <3>4 DEF merge
    <3>6. QED
      BY <3>3, <3>5
  <2>4. ASSUME NEW C \in ResolventsOn(F, v) PROVE C \cap m # {}
    <3>1. PICK PQ \in {D \in F : mkLit(v, FALSE) \in D} \X {D \in F : mkLit(v, TRUE) \in D} :
            C = merge(PQ[1], PQ[2], v)
      BY DEF ResolventsOn
    <3>2. QED
      BY <2>3, <3>1
  <2>5. QED
    BY <2>2, <2>4 DEF Satisfies
<1>3. QED
  BY <1>1, <1>2

-----------------------------------------------------------------------------
(* Backward subsumption *)

(* The clause c has at most one literal that D does not have.              *)
LEMMA AtMostOneFlipped ==
    ASSUME NEW c \in SUBSET Literal, IsFiniteSet(c), NEW D, subsumes(c, D),
           NEW l \in Flipped(c, D)
    PROVE  Flipped(c, D) = {l}
<1>1. IsFiniteSet(Flipped(c, D))
  BY FS_Subset DEF Flipped
<1>2. Cardinality(Flipped(c, D)) \in Nat /\ Cardinality(Flipped(c, D)) <= 1
  BY <1>1, FS_CardinalityType DEF subsumes
<1>3. Cardinality(Flipped(c, D)) # 0
  BY <1>1, FS_EmptySet
<1>4. Cardinality(Flipped(c, D)) = 1
  BY <1>2, <1>3
<1>5. QED
  BY <1>1, <1>4, FS_Singleton

(* A clause that another one subsumes without a flipped literal may go: no *)
(* model is gained.                                                        *)
THEOREM SubsumedClauseMayGo ==
    ASSUME NEW F, NEW c \in F, NEW D \in F, c # D, subsumes(c, D), Flipped(c, D) = {}, NEW m
    PROVE  Satisfies(m, F \ {D}) <=> Satisfies(m, F)
  BY DEF Satisfies, Flipped

(* With a flipped literal l, D loses the opposite of l: strengthening      *)
(* neither gains nor loses a model.                                        *)
THEOREM StrengtheningKeepsTheModels ==
    ASSUME NEW V \in SUBSET Nat, NEW F \in SUBSET ClausesOver(V),
           NEW c \in F, IsFiniteSet(c), NEW D \in F, subsumes(c, D),
           NEW l \in Flipped(c, D), NEW m \in TotalOver(V)
    PROVE  Satisfies(m, (F \ {D}) \cup {D \ {neg(l)}}) <=> Satisfies(m, F)
<1>1. Flipped(c, D) = {l} /\ l \in Literal /\ l \in c /\ l \notin D /\ neg(l) \in D
  BY AtMostOneFlipped DEF ClausesOver, Flipped, subsumes, NegAll
<1>2. c # D
  BY <1>1
<1>3. ASSUME Satisfies(m, F) PROVE (D \ {neg(l)}) \cap m # {}
  <2>1. PICK p \in c : p \in m
    BY <1>3 DEF Satisfies
  <2>2. CASE p = l
    <3>1. neg(l) \notin m
      BY <1>1, <2>1, <2>2, TotalAssignment
    <3>2. D \cap m # {}
      BY <1>3 DEF Satisfies
    <3>3. QED
      BY <3>1, <3>2
  <2>3. CASE p # l
    <3>1. p \in D
      BY <1>1, <2>1, <2>3 DEF Flipped
    <3>2. p # neg(l)
      BY <1>1 DEF ClausesOver
    <3>3. QED
      BY <2>1, <3>1, <3>2
  <2>4. QED
    BY <2>2, <2>3
<1>4. ASSUME Satisfies(m, (F \ {D}) \cup {D \ {neg(l)}}) PROVE Satisfies(m, F)
  <2>1. D \cap m # {}
    <3>1. (D \ {neg(l)}) \cap m # {}
      BY <1>4 DEF Satisfies
    <3>2. QED
      BY <3>1
  <2>2. ASSUME NEW C \in F, C # D PROVE C \cap m # {}
    BY <1>4, <2>2 DEF Satisfies
  <2>3. QED
    BY <2>1, <2>2 DEF Satisfies
<1>5. QED
  BY <1>3, <1>4 DEF Satisfies

-----------------------------------------------------------------------------
(* The literals of the variables V.                                        *)
LEMMA LitsAre ==
    ASSUME NEW V \in SUBSET Nat
    PROVE  /\ \A p : p \in Lits(V) <=> p \in Nat /\ var(p) \in V
           /\ \A p \in Lits(V) : neg(p) \in Lits(V)
<1>1. ASSUME NEW p, p \in Lits(V) PROVE p \in Nat /\ var(p) \in V
  <2>1. PICK v \in V : p \in {mkLit(v, FALSE), mkLit(v, TRUE)}
    BY <1>1 DEF Lits
  <2>2. QED
    BY <2>1, LiteralOf DEF Literal
<1>2. ASSUME NEW p \in Nat, var(p) \in V PROVE p \in Lits(V)
  <2>1. p \in {mkLit(var(p), FALSE), mkLit(var(p), TRUE)}
    BY DEF mkLit, var
  <2>2. QED
    BY <1>2, <2>1 DEF Lits
<1>3. ASSUME NEW p \in Lits(V) PROVE neg(p) \in Lits(V)
  <2>1. p \in Literal /\ var(p) \in V
    BY <1>1 DEF Literal
  <2>2. neg(p) \in Nat /\ var(neg(p)) \in V
    BY <2>1, Negation DEF Literal
  <2>3. QED
    BY <1>2, <2>2
<1>4. QED
  BY <1>1, <1>2, <1>3

-----------------------------------------------------------------------------
Entry == [lits : Seq(Nat), learnt : BOOLEAN, mark : BOOLEAN]

IsLits(c, V) ==
    /\ c \in Seq(Lits(V)) /\ Len(c) >= 2
    /\ \A i, j \in 1 .. Len(c) : var(c[i]) = var(c[j]) => i = j

DbType(d, V) ==
    /\ DOMAIN d = {"ca", "clauses", "learnts", "dirties", "watches", "reason"}
    /\ d.ca \in Seq(Entry)
    /\ d.clauses \subseteq Nat /\ d.learnts \subseteq Nat /\ d.dirties \subseteq Lits(V)
    /\ d.watches \in [Lits(V) -> Seq(Watcher)]
    /\ d.reason \in [V -> Int]
    /\ \A cr \in 1 .. Len(d.ca) : IsLits(d.ca[cr].lits, V)
    /\ d.clauses \cup d.learnts = live(d)
    /\ d.clauses \cap d.learnts = {}

GoodWatcher(d, p, w) ==
    /\ w.cref \in 1 .. Len(d.ca)
    /\ w.blocker \in ToSet(lits(d, w.cref))
    /\ neg(p) \in {lits(d, w.cref)[1], lits(d, w.cref)[2]}
    /\ d.ca[w.cref].mark => p \in d.dirties

GoodList(d, p, s) ==
    /\ \A i \in 1 .. Len(s) : GoodWatcher(d, p, s[i])
    /\ \A i, j \in 1 .. Len(s) : s[i].cref = s[j].cref => i = j

WatchInv(d, V) == \A p \in Lits(V) : GoodList(d, p, d.watches[p])

InList(s, cr) == \E i \in 1 .. Len(s) : s[i].cref = cr

BothWatched(d) ==
    \A cr \in live(d) : /\ InList(d.watches[neg(lits(d, cr)[1])], cr)
                        /\ InList(d.watches[neg(lits(d, cr)[2])], cr)

TrailType(t, lim, V) ==
    /\ t \in Seq(Lits(V)) /\ lim \in Seq(Nat)
    /\ \A i, j \in 1 .. Len(t) : var(t[i]) = var(t[j]) => i = j
    /\ \A k \in 1 .. Len(lim) : lim[k] <= Len(t)
    /\ \A k, l \in 1 .. Len(lim) : k <= l => lim[k] <= lim[l]

ReasonInv(d, t) ==
    \A i \in 1 .. Len(t) :
        LET r == d.reason[var(t[i])]
        IN  r # CRef_Undef =>
              /\ r \in live(d) /\ lits(d, r)[1] = t[i]
              /\ \A k \in 2 .. Len(lits(d, r)) : \E j \in 1 .. i - 1 : t[j] = neg(lits(d, r)[k])

DecisionInv(d, t, lim) ==
    \A i \in 1 .. Len(t) : d.reason[var(t[i])] = CRef_Undef =>
        \A l \in 1 .. Len(lim) : lim[l] < i => \E k \in 1 .. Len(lim) : lim[k] + 1 = i

DbInv(d, V) == DbType(d, V) /\ WatchInv(d, V) /\ BothWatched(d)

(* The elements of a sequence.                                             *)
LEMMA ToSetIs ==
    ASSUME NEW T, NEW s \in Seq(T)
    PROVE  /\ \A x : x \in ToSet(s) <=> \E i \in 1 .. Len(s) : s[i] = x
           /\ ToSet(s) \subseteq T
  BY DEF ToSet

(* One more element at the end.                                            *)
LEMMA ToSetAppend ==
    ASSUME NEW T, NEW s \in Seq(T), NEW e \in T
    PROVE  ToSet(Append(s, e)) = ToSet(s) \cup {e}
<1>1. Append(s, e) \in Seq(T) /\ Len(Append(s, e)) = Len(s) + 1 /\ Len(s) \in Nat
  OBVIOUS
<1>2. \A i \in 1 .. Len(s) : Append(s, e)[i] = s[i]
  OBVIOUS
<1>3. Append(s, e)[Len(s) + 1] = e
  OBVIOUS
<1>4. ASSUME NEW x \in ToSet(Append(s, e)) PROVE x \in ToSet(s) \cup {e}
  <2>1. PICK i \in 1 .. Len(s) + 1 : Append(s, e)[i] = x
    BY <1>1, ToSetIs
  <2>2. i \in 1 .. Len(s) \/ i = Len(s) + 1
    BY <1>1, <2>1
  <2>3. QED
    BY <1>2, <1>3, <2>1, <2>2, ToSetIs
<1>5. ASSUME NEW x \in ToSet(s) \cup {e} PROVE x \in ToSet(Append(s, e))
  <2>1. CASE x = e
    <3>1. Len(s) + 1 \in 1 .. Len(s) + 1
      BY <1>1
    <3>2. QED
      BY <1>1, <1>3, <2>1, <3>1, ToSetIs
  <2>2. CASE x \in ToSet(s)
    <3>1. PICK i \in 1 .. Len(s) : s[i] = x
      BY <2>2, ToSetIs
    <3>2. i \in 1 .. Len(s) + 1
      BY <1>1
    <3>3. QED
      BY <1>1, <1>2, <3>1, <3>2, ToSetIs
  <2>3. QED
    BY <2>1, <2>2
<1>6. QED
  BY <1>4, <1>5

(* What follows the first element.                                         *)
LEMMA ToSetTail ==
    ASSUME NEW T, NEW s \in Seq(T), Len(s) >= 1
    PROVE  \A x : x \in ToSet(Tail(s)) <=> \E k \in 2 .. Len(s) : s[k] = x
<1>1. Tail(s) \in Seq(T) /\ Len(Tail(s)) = Len(s) - 1 /\ Len(s) \in Nat
  OBVIOUS
<1>2. \A i \in 1 .. Len(s) - 1 : Tail(s)[i] = s[i + 1]
  BY <1>1
<1>3. ASSUME NEW x, x \in ToSet(Tail(s)) PROVE \E k \in 2 .. Len(s) : s[k] = x
  <2>1. PICK i \in 1 .. Len(s) - 1 : Tail(s)[i] = x
    BY <1>1, <1>3, ToSetIs
  <2>2. i + 1 \in 2 .. Len(s)
    BY <1>1
  <2>3. QED
    BY <1>2, <2>1, <2>2
<1>4. ASSUME NEW x, NEW k \in 2 .. Len(s), s[k] = x PROVE x \in ToSet(Tail(s))
  <2>1. k - 1 \in 1 .. Len(s) - 1 /\ k - 1 + 1 = k
    BY <1>1
  <2>2. Tail(s)[k - 1] = x
    BY <1>2, <1>4, <2>1
  <2>3. QED
    BY <1>1, <2>1, <2>2, ToSetIs
<1>5. QED
  BY <1>3, <1>4

(* The number of levels that begin before the position i of an assignment  *)
(* is its level.                                                           *)
LEMMA LevelIs ==
    ASSUME NEW V, TrailType(trail, trail_lim, V), NEW i \in 1 .. Len(trail)
    PROVE  /\ level(var(trail[i])) \in 0 .. Len(trail_lim)
           /\ \A k \in 1 .. Len(trail_lim) : k <= level(var(trail[i])) <=> trail_lim[k] < i
<1> DEFINE L == Len(trail_lim)
           D == {k \in DOMAIN trail_lim : trail_lim[k] < i}
           Out == {k \in 1 .. L + 1 : k = L + 1 \/ ~(trail_lim[k] < i)}
<1>1. /\ L \in Nat /\ DOMAIN trail_lim = 1 .. L /\ \A k \in 1 .. L : trail_lim[k] \in Nat
      /\ \A k, l \in 1 .. L : k <= l => trail_lim[k] <= trail_lim[l]
      /\ DOMAIN trail = 1 .. Len(trail) /\ i \in Nat
      /\ \A j \in 1 .. Len(trail) : var(trail[j]) = var(trail[i]) => j = i
  BY DEF TrailType
<1>2. level(var(trail[i])) = Cardinality(D)
  <2>1. (CHOOSE j \in DOMAIN trail : var(trail[j]) = var(trail[i])) = i
    BY <1>1
  <2>2. QED
    BY <2>1, Zenon DEF level
<1>3. PICK t \in Out : \A u \in Out : t <= u
  <2>1. Out \in SUBSET Nat /\ L + 1 \in Out
    BY <1>1
  <2>2. QED
    BY <2>1, Least
<1>4. t \in Nat /\ t - 1 \in 0 .. L /\ \A k \in 1 .. L : k < t <=> trail_lim[k] < i
  <2>1. t \in 1 .. L + 1
    BY <1>3
  <2>2. ASSUME NEW k \in 1 .. L PROVE k < t <=> trail_lim[k] < i
    <3>1. CASE k < t
      <4>1. k \notin Out
        BY <1>1, <1>3, <2>1, <3>1
      <4>2. QED
        BY <1>1, <3>1, <4>1
    <3>2. CASE ~(k < t)
      <4>1. t <= k /\ t \in 1 .. L
        BY <1>1, <2>1, <3>2
      <4>2. ~(trail_lim[t] < i) /\ trail_lim[t] <= trail_lim[k]
        BY <1>1, <1>3, <4>1
      <4>3. QED
        BY <1>1, <3>2, <4>1, <4>2
    <3>3. QED
      BY <3>1, <3>2
  <2>3. QED
    BY <1>1, <2>1, <2>2
<1>5. D = 1 .. t - 1
  BY <1>1, <1>4
<1>6. Cardinality(D) = t - 1
  <2>1. t - 1 \in Int /\ 1 \in Int /\ (1 > t - 1 => t - 1 = 0) /\ t - 1 - 1 + 1 = t - 1
    BY <1>4
  <2>2. Cardinality(1 .. t - 1) = t - 1
    BY <2>1, FS_Interval
  <2>3. QED
    BY <1>5, <2>2, Zenon
<1> HIDE DEF D, Out, L
<1>7. level(var(trail[i])) = t - 1
  BY <1>2, <1>6
<1>8. ASSUME NEW k \in 1 .. L PROVE k <= t - 1 <=> trail_lim[k] < i
  <2>1. k <= t - 1 <=> k < t
    BY <1>1, <1>4
  <2>2. QED
    BY <1>4, <2>1
<1>9. QED
  BY <1>4, <1>7, <1>8 DEF L

-----------------------------------------------------------------------------
(* What the type of the database says of a clause.                         *)
LEMMA ClauseIs ==
    ASSUME NEW V \in SUBSET Nat, NEW d, DbType(d, V), NEW cr \in 1 .. Len(d.ca)
    PROVE  /\ lits(d, cr) = d.ca[cr].lits
           /\ lits(d, cr) \in Seq(Lits(V)) /\ Len(lits(d, cr)) \in Nat /\ Len(lits(d, cr)) >= 2
           /\ lits(d, cr)[1] \in Lits(V) /\ lits(d, cr)[2] \in Lits(V)
           /\ lits(d, cr)[1] # lits(d, cr)[2]
           /\ \A i, j \in 1 .. Len(lits(d, cr)) : var(lits(d, cr)[i]) = var(lits(d, cr)[j]) => i = j
           /\ d.ca[cr].mark \in BOOLEAN
           /\ cr \in live(d) <=> ~d.ca[cr].mark
<1>1. d.ca \in Seq(Entry) /\ d.ca[cr] \in Entry
  BY DEF DbType
<1>2. IsLits(lits(d, cr), V) /\ lits(d, cr) = d.ca[cr].lits
  BY DEF DbType, lits
<1>3. lits(d, cr) \in Seq(Lits(V)) /\ Len(lits(d, cr)) \in Nat /\ Len(lits(d, cr)) >= 2
  BY <1>2 DEF IsLits
<1>4. 1 \in 1 .. Len(lits(d, cr)) /\ 2 \in 1 .. Len(lits(d, cr))
  BY <1>3
<1>5. lits(d, cr)[1] # lits(d, cr)[2]
  BY <1>2, <1>4 DEF IsLits
<1>6. cr \in live(d) <=> ~d.ca[cr].mark
  BY <1>1 DEF live
<1>7. QED
  BY <1>1, <1>2, <1>3, <1>4, <1>5, <1>6 DEF IsLits, Entry

(* The live clauses are clauses.                                           *)
LEMMA LiveIs ==
    ASSUME NEW V, NEW d, DbType(d, V)
    PROVE  live(d) \subseteq 1 .. Len(d.ca) /\ 1 .. Len(d.ca) \subseteq Nat
  BY DEF live, DbType

NewEntry(c, learnt) == [lits |-> c, learnt |-> learnt, mark |-> FALSE]
NewWatcher(cr, p) == [cref |-> cr, blocker |-> p]

(* The lists of watchers of the variables V.                               *)
Lists(d, V) ==
    /\ DOMAIN d = {"ca", "clauses", "learnts", "dirties", "watches", "reason"}
    /\ d.watches \in [Lits(V) -> Seq(Watcher)]

(* e is d with one more watcher in the lists of a and of b.                *)
MoreWatched(d, e, V, a, b, x, y) ==
    /\ e.watches[a] = Append(d.watches[a], x)
    /\ e.watches[b] = Append(d.watches[b], y)
    /\ \A p \in Lits(V) : p # a /\ p # b => e.watches[p] = d.watches[p]

(* e is d with the clause cr of the literals c attached.                   *)
Attached(d, e, V, cr, c) ==
    /\ DOMAIN e = DOMAIN d
    /\ e.ca = d.ca
    /\ e.clauses = d.clauses
    /\ e.learnts = d.learnts
    /\ e.dirties = d.dirties
    /\ e.reason = d.reason
    /\ Lists(e, V)
    /\ MoreWatched(d, e, V, neg(c[1]), neg(c[2]), NewWatcher(cr, c[2]), NewWatcher(cr, c[1]))

(* attachClause appends a watcher to two lists and changes nothing else.   *)
LEMMA AttachIs ==
    ASSUME NEW V \in SUBSET Nat, NEW d, NEW cr \in Nat, NEW c,
           Lists(d, V),
           c[1] \in Nat, c[2] \in Nat,
           neg(c[1]) \in Lits(V), neg(c[2]) \in Lits(V), neg(c[1]) # neg(c[2]),
           NEW e, e = attachClause(d, cr, c)
    PROVE  Attached(d, e, V, cr, c)
<1>0. /\ DOMAIN d = {"ca", "clauses", "learnts", "dirties", "watches", "reason"}
      /\ d.watches \in [Lits(V) -> Seq(Watcher)]
  BY DEF Lists
<1> DEFINE a == neg(c[1])
           b == neg(c[2])
           x == NewWatcher(cr, c[2])
           y == NewWatcher(cr, c[1])
<1>1. a = neg(c[1]) /\ b = neg(c[2]) /\ x = NewWatcher(cr, c[2]) /\ y = NewWatcher(cr, c[1])
  BY Zenon
<1>2. x \in Watcher /\ y \in Watcher
  BY DEF NewWatcher, Watcher
<1>3. attachClause(d, cr, c) =
        [d EXCEPT !.watches[a] = Append(@, x), !.watches[b] = Append(@, y)]
  BY Zenon DEF attachClause, NewWatcher
<1> HIDE DEF a, b, x, y
<1> DEFINE e1 == [d EXCEPT !.watches[a] = Append(@, x), !.watches[b] = Append(@, y)]
           u == [d.watches EXCEPT ![a] = Append(@, x), ![b] = Append(@, y)]
<1>4. /\ DOMAIN e1 = DOMAIN d /\ e1.ca = d.ca /\ e1.clauses = d.clauses /\ e1.learnts = d.learnts
      /\ e1.dirties = d.dirties /\ e1.reason = d.reason /\ e1.watches = u
  BY <1>0
<1> HIDE DEF e1
<1>5. a \in Lits(V) /\ b \in Lits(V) /\ a # b
  BY <1>1
<1>6. Append(d.watches[a], x) \in Seq(Watcher) /\ Append(d.watches[b], y) \in Seq(Watcher)
  BY <1>0, <1>2, <1>5
<1>7. /\ u \in [Lits(V) -> Seq(Watcher)]
      /\ u[a] = Append(d.watches[a], x) /\ u[b] = Append(d.watches[b], y)
      /\ \A p \in Lits(V) : p # a /\ p # b => u[p] = d.watches[p]
  BY <1>0, <1>5, <1>6
<1> HIDE DEF u
<1>8. e = e1
  BY <1>3 DEF e1
<1>9. Lists(e, V)
  BY <1>0, <1>4, <1>7, <1>8 DEF Lists
<1>10. MoreWatched(d, e, V, a, b, x, y)
  BY <1>4, <1>7, <1>8 DEF MoreWatched
<1>11. QED
  BY <1>1, <1>4, <1>8, <1>9, <1>10 DEF Attached

(* e is d with the clause c allocated under the reference cr and attached.   *)
ClauseAdded(d, e, V, cr, c, learnt) ==
    /\ cr = Len(d.ca) + 1 /\ cr \in Nat
    /\ DOMAIN e = DOMAIN d
    /\ e.ca = Append(d.ca, NewEntry(c, learnt))
    /\ e.clauses = IF learnt THEN d.clauses ELSE d.clauses \cup {cr}
    /\ e.learnts = IF learnt THEN d.learnts \cup {cr} ELSE d.learnts
    /\ e.dirties = d.dirties
    /\ e.reason = d.reason
    /\ Lists(e, V)
    /\ MoreWatched(d, e, V, neg(c[1]), neg(c[2]), NewWatcher(cr, c[2]), NewWatcher(cr, c[1]))

(* The fields of the database once a clause is attached.                   *)
LEMMA NewClauseFields ==
    ASSUME NEW V \in SUBSET Nat, NEW d, DbType(d, V), NEW c, IsLits(c, V), NEW learnt \in BOOLEAN,
           NEW e, e = newClause(d, c, learnt), NEW cr, cr = NextCRef(d)
    PROVE  ClauseAdded(d, e, V, cr, c, learnt)
<1>1. /\ DOMAIN d = {"ca", "clauses", "learnts", "dirties", "watches", "reason"}
      /\ cr = Len(d.ca) + 1 /\ cr \in Nat
  BY DEF DbType, NextCRef
<1> DEFINE f == [d EXCEPT
                   !.ca = Append(@, NewEntry(c, learnt)),
                   !.clauses = IF learnt THEN @ ELSE @ \cup {cr},
                   !.learnts = IF learnt THEN @ \cup {cr} ELSE @]
<1>2. e = attachClause(f, cr, c)
  BY DEF newClause, NewEntry
<1>3. /\ DOMAIN f = DOMAIN d
      /\ f.ca = Append(d.ca, NewEntry(c, learnt))
      /\ f.clauses = IF learnt THEN d.clauses ELSE d.clauses \cup {cr}
      /\ f.learnts = IF learnt THEN d.learnts \cup {cr} ELSE d.learnts
      /\ f.dirties = d.dirties /\ f.reason = d.reason /\ f.watches = d.watches
  BY <1>1
<1> HIDE DEF f
<1>4. /\ c[1] \in Lits(V) /\ c[2] \in Lits(V) /\ c[1] # c[2]
  <2>1. 1 \in 1 .. Len(c) /\ 2 \in 1 .. Len(c) /\ c \in Seq(Lits(V))
    BY DEF IsLits
  <2>2. QED
    BY <2>1 DEF IsLits
<1>5. /\ c[1] \in Nat /\ c[2] \in Nat
      /\ neg(c[1]) \in Lits(V) /\ neg(c[2]) \in Lits(V) /\ neg(c[1]) # neg(c[2])
  <2>1. c[1] \in Nat /\ c[2] \in Nat /\ neg(c[1]) \in Lits(V) /\ neg(c[2]) \in Lits(V)
    BY <1>4, LitsAre
  <2>2. neg(neg(c[1])) = c[1] /\ neg(neg(c[2])) = c[2]
    BY <2>1, Negation DEF Literal
  <2>3. QED
    BY <1>4, <2>1, <2>2
<1>6. d.watches \in [Lits(V) -> Seq(Watcher)]
  BY DEF DbType
<1>7. Lists(f, V)
  BY <1>1, <1>3, <1>6 DEF Lists
<1>8. Attached(f, e, V, cr, c)
  BY <1>1, <1>2, <1>5, <1>7, AttachIs
<1>9. MoreWatched(d, e, V, neg(c[1]), neg(c[2]), NewWatcher(cr, c[2]), NewWatcher(cr, c[1]))
  BY <1>3, <1>8 DEF MoreWatched, Attached
<1>10. QED
  BY <1>1, <1>3, <1>8, <1>9 DEF Attached, ClauseAdded

-----------------------------------------------------------------------------
(* One more watcher of another clause at the end of a list.                *)
LEMMA GoodAppend ==
    ASSUME NEW d, NEW p, NEW s \in Seq(Watcher), NEW x \in Watcher,
           GoodList(d, p, s), GoodWatcher(d, p, x), ~InList(s, x.cref)
    PROVE  GoodList(d, p, Append(s, x))
<1>1. /\ Append(s, x) \in Seq(Watcher) /\ Len(Append(s, x)) = Len(s) + 1 /\ Len(s) \in Nat
      /\ \A i \in 1 .. Len(s) : Append(s, x)[i] = s[i]
      /\ Append(s, x)[Len(s) + 1] = x
  OBVIOUS
<1> DEFINE t == Append(s, x)
<1> HIDE DEF t
<1>2. \A i \in 1 .. Len(t) : i \in 1 .. Len(s) \/ i = Len(s) + 1
  BY <1>1 DEF t
<1>3. \A i \in 1 .. Len(s) : t[i] = s[i]
  BY <1>1 DEF t
<1>4. t[Len(s) + 1] = x
  BY <1>1 DEF t
<1>5. \A i \in 1 .. Len(s) : s[i].cref # x.cref
  BY DEF InList
<1>6. \A i \in 1 .. Len(t) : GoodWatcher(d, p, t[i])
  BY <1>2, <1>3, <1>4 DEF GoodList
<1>7. ASSUME NEW i \in 1 .. Len(t), NEW j \in 1 .. Len(t), t[i].cref = t[j].cref PROVE i = j
  BY <1>2, <1>3, <1>4, <1>5, <1>7 DEF GoodList
<1>8. QED
  BY <1>6, <1>7 DEF GoodList, t

(* What is in a list with one more watcher.                                *)
LEMMA InAppend ==
    ASSUME NEW s \in Seq(Watcher), NEW x \in Watcher, NEW cr
    PROVE  InList(Append(s, x), cr) <=> InList(s, cr) \/ x.cref = cr
<1>1. /\ Len(Append(s, x)) = Len(s) + 1 /\ Len(s) \in Nat
      /\ \A i \in 1 .. Len(s) : Append(s, x)[i] = s[i]
      /\ Append(s, x)[Len(s) + 1] = x
  OBVIOUS
<1> DEFINE t == Append(s, x)
<1> HIDE DEF t
<1>2. \A i \in 1 .. Len(t) : i \in 1 .. Len(s) \/ i = Len(s) + 1
  BY <1>1 DEF t
<1>3. Len(s) + 1 \in 1 .. Len(t) /\ \A i \in 1 .. Len(s) : i \in 1 .. Len(t)
  BY <1>1 DEF t
<1>4. InList(t, cr) => InList(s, cr) \/ x.cref = cr
  BY <1>1, <1>2 DEF InList, t
<1>5. InList(s, cr) \/ x.cref = cr => InList(t, cr)
  BY <1>1, <1>3 DEF InList, t
<1>6. QED
  BY <1>4, <1>5 DEF t

(* A list stays good in a database that has its watchers good.             *)
LEMMA GoodIn ==
    ASSUME NEW d, NEW e, NEW p, NEW s, GoodList(d, p, s),
           \A i \in 1 .. Len(s) : GoodWatcher(d, p, s[i]) => GoodWatcher(e, p, s[i])
    PROVE  GoodList(e, p, s)
  BY DEF GoodList

(* The part of a list at some of its positions.                            *)
LEMMA GoodKept ==
    ASSUME NEW d, NEW p, NEW s \in Seq(Watcher), GoodList(d, p, s),
           NEW P \in SUBSET (1 .. Len(s))
    PROVE  /\ Kept(s, P) \in Seq(Watcher)
           /\ GoodList(d, p, Kept(s, P))
           /\ \A cr : InList(Kept(s, P), cr) <=> \E i \in P : s[i].cref = cr
<1> DEFINE t == Kept(s, P)
<1>1. t \in Seq(Watcher)
  BY KeptIs
<1>2. PICK f \in [1 .. Len(t) -> P] :
        /\ \A i, j \in 1 .. Len(t) : f[i] = f[j] => i = j
        /\ \A x \in P : \E i \in 1 .. Len(t) : f[i] = x
        /\ \A i \in 1 .. Len(t) : t[i] = s[f[i]]
  BY KeptIs
<1> HIDE DEF t
<1>3. \A i \in 1 .. Len(t) : f[i] \in 1 .. Len(s)
  BY <1>2
<1>4. \A i \in 1 .. Len(t) : GoodWatcher(d, p, t[i])
  BY <1>2, <1>3 DEF GoodList
<1>5. ASSUME NEW i \in 1 .. Len(t), NEW j \in 1 .. Len(t), t[i].cref = t[j].cref PROVE i = j
  <2>1. f[i] = f[j]
    BY <1>2, <1>3, <1>5 DEF GoodList
  <2>2. QED
    BY <1>2, <2>1
<1>6. ASSUME NEW cr PROVE InList(t, cr) <=> \E i \in P : s[i].cref = cr
  <2>1. ASSUME InList(t, cr) PROVE \E i \in P : s[i].cref = cr
    <3>1. PICK i \in 1 .. Len(t) : t[i].cref = cr
      BY <2>1 DEF InList
    <3>2. QED
      BY <1>2, <3>1
  <2>2. ASSUME NEW x \in P, s[x].cref = cr PROVE InList(t, cr)
    <3>1. PICK i \in 1 .. Len(t) : f[i] = x
      BY <1>2
    <3>2. QED
      BY <1>2, <2>2, <3>1 DEF InList
  <2>3. QED
    BY <2>1, <2>2
<1>7. QED
  BY <1>1, <1>4, <1>5, <1>6 DEF GoodList, t

(* The clauses of d in e, which may have more of them.                     *)
SameClause(d, e, cr) ==
    /\ cr \in 1 .. Len(e.ca)
    /\ lits(e, cr) = lits(d, cr)
    /\ e.ca[cr].mark = d.ca[cr].mark

(* e is d with the clause c under the reference cr.                        *)
Added(d, e, V, cr, c) ==
    /\ DbInv(e, V)
    /\ cr = Len(d.ca) + 1 /\ cr \in Nat
    /\ Len(e.ca) = cr
    /\ live(e) = live(d) \cup {cr}
    /\ lits(e, cr) = c
    /\ \A r \in 1 .. Len(d.ca) : SameClause(d, e, r)
    /\ e.reason = d.reason
    /\ e.dirties = d.dirties

(* newClause: the new clause is watched in both its lists and listed as    *)
(* original or learnt; nothing else changes.                               *)
LEMMA NewClauseInv ==
    ASSUME NEW V \in SUBSET Nat, NEW d, DbInv(d, V), NEW c, IsLits(c, V), NEW learnt \in BOOLEAN,
           NEW e, e = newClause(d, c, learnt)
    PROVE  /\ Added(d, e, V, NextCRef(d), c)
           /\ e.clauses = IF learnt THEN d.clauses ELSE d.clauses \cup {NextCRef(d)}
           /\ e.learnts = IF learnt THEN d.learnts \cup {NextCRef(d)} ELSE d.learnts
<1> DEFINE cr == NextCRef(d)
           n == Len(d.ca)
           a == neg(c[1])
           b == neg(c[2])
           x == NewWatcher(cr, c[2])
           y == NewWatcher(cr, c[1])
<1>1. DbType(d, V) /\ WatchInv(d, V) /\ BothWatched(d)
  BY DEF DbInv
<1>2. /\ cr = n + 1 /\ cr \in Nat
      /\ DOMAIN e = DOMAIN d
      /\ e.ca = Append(d.ca, NewEntry(c, learnt))
      /\ e.clauses = IF learnt THEN d.clauses ELSE d.clauses \cup {cr}
      /\ e.learnts = IF learnt THEN d.learnts \cup {cr} ELSE d.learnts
      /\ e.dirties = d.dirties
      /\ e.reason = d.reason
      /\ Lists(e, V)
      /\ MoreWatched(d, e, V, a, b, x, y)
  <2>1. ClauseAdded(d, e, V, cr, c, learnt)
    BY <1>1, NewClauseFields
  <2>2. QED
    BY <2>1, Zenon DEF ClauseAdded
<1> HIDE DEF cr
<1>3. /\ c[1] \in Lits(V) /\ c[2] \in Lits(V) /\ c[1] # c[2]
      /\ c \in Seq(Lits(V)) /\ 1 \in 1 .. Len(c) /\ 2 \in 1 .. Len(c)
  <2>1. 1 \in 1 .. Len(c) /\ 2 \in 1 .. Len(c) /\ c \in Seq(Lits(V))
    BY DEF IsLits
  <2>2. QED
    BY <2>1 DEF IsLits
<1>4. /\ c[1] \in Nat /\ c[2] \in Nat
      /\ neg(c[1]) \in Lits(V) /\ neg(c[2]) \in Lits(V)
      /\ neg(neg(c[1])) = c[1] /\ neg(neg(c[2])) = c[2] /\ neg(c[1]) # neg(c[2])
  <2>1. c[1] \in Nat /\ c[2] \in Nat /\ neg(c[1]) \in Lits(V) /\ neg(c[2]) \in Lits(V)
    BY <1>3, LitsAre
  <2>2. neg(neg(c[1])) = c[1] /\ neg(neg(c[2])) = c[2]
    BY <2>1, Negation DEF Literal
  <2>3. QED
    BY <1>3, <2>1, <2>2
<1>5. d.ca \in Seq(Entry) /\ NewEntry(c, learnt) \in Entry
  <2>1. c \in Seq(Nat)
    <3>1. \A i \in 1 .. Len(c) : c[i] \in Nat
      BY <1>3, LitsAre
    <3>2. QED
      BY <1>3, <3>1
  <2>2. QED
    BY <1>1, <2>1 DEF DbType, NewEntry, Entry
<1>6. /\ e.ca \in Seq(Entry) /\ Len(e.ca) = n + 1 /\ n \in Nat
      /\ \A r \in 1 .. n : e.ca[r] = d.ca[r]
      /\ e.ca[n + 1] = NewEntry(c, learnt)
  BY <1>2, <1>5
<1>7. lits(e, cr) = c /\ ~e.ca[cr].mark
  BY <1>2, <1>6 DEF lits, NewEntry
<1>8. \A r \in 1 .. n : SameClause(d, e, r)
  BY <1>6 DEF SameClause, lits
<1>9. live(e) = live(d) \cup {cr}
  <2>1. DOMAIN e.ca = 1 .. n + 1 /\ DOMAIN d.ca = 1 .. n
    BY <1>5, <1>6
  <2>2. \A r : r \in 1 .. n + 1 <=> r \in 1 .. n \/ r = cr
    BY <1>2, <1>6
  <2>3. \A r \in 1 .. n : e.ca[r].mark = d.ca[r].mark
    BY <1>6
  <2>4. \A r : r \in live(e) <=> r \in DOMAIN e.ca /\ ~e.ca[r].mark
    BY DEF live
  <2>5. \A r : r \in live(d) <=> r \in DOMAIN d.ca /\ ~d.ca[r].mark
    BY DEF live
  <2>6. QED
    BY <1>7, <2>1, <2>2, <2>3, <2>4, <2>5
<1>10. DbType(e, V)
  <2>1. \A r \in 1 .. Len(e.ca) : IsLits(e.ca[r].lits, V)
    <3> SUFFICES ASSUME NEW r \in 1 .. Len(e.ca) PROVE IsLits(e.ca[r].lits, V)
      OBVIOUS
    <3>1. CASE r \in 1 .. n
      BY <1>1, <1>6, <3>1 DEF DbType
    <3>2. CASE r = n + 1
      BY <1>6, <3>2 DEF NewEntry
    <3>3. QED
      BY <1>6, <3>1, <3>2
  <2>2. e.clauses \subseteq Nat /\ e.learnts \subseteq Nat
    BY <1>1, <1>2 DEF DbType
  <2>3. cr \notin d.clauses /\ cr \notin d.learnts
    <3>1. d.clauses \cup d.learnts \subseteq 1 .. n
      BY <1>1, LiveIs DEF DbType
    <3>2. QED
      BY <1>2, <1>6, <3>1
  <2>4. e.clauses \cup e.learnts = live(e) /\ e.clauses \cap e.learnts = {}
    BY <1>1, <1>2, <1>9, <2>3 DEF DbType
  <2>5. /\ DOMAIN e = {"ca", "clauses", "learnts", "dirties", "watches", "reason"}
        /\ e.dirties \subseteq Lits(V) /\ e.reason \in [V -> Int]
    BY <1>1, <1>2 DEF DbType
  <2>6. e.watches \in [Lits(V) -> Seq(Watcher)]
    BY <1>2 DEF Lists
  <2>7. QED
    BY <1>6, <2>1, <2>2, <2>4, <2>5, <2>6 DEF DbType
<1>11. x \in Watcher /\ y \in Watcher /\ x.cref = cr /\ y.cref = cr /\ x.blocker = c[2] /\ y.blocker = c[1]
  BY <1>2, <1>4 DEF NewWatcher, Watcher
<1>12. GoodWatcher(e, a, x) /\ GoodWatcher(e, b, y)
  <2>1. c[1] \in ToSet(c) /\ c[2] \in ToSet(c)
    BY <1>3, ToSetIs
  <2>2. cr \in 1 .. Len(e.ca)
    BY <1>2, <1>6
  <2>3. QED
    BY <1>4, <1>7, <1>11, <2>1, <2>2 DEF GoodWatcher
<1>13. \A p \in Lits(V) : d.watches[p] \in Seq(Watcher) /\ GoodList(d, p, d.watches[p])
  BY <1>1 DEF DbType, WatchInv
<1>14. ASSUME NEW p \in Lits(V) PROVE GoodList(e, p, d.watches[p]) /\ ~InList(d.watches[p], cr)
  <2>1. \A i \in 1 .. Len(d.watches[p]) : GoodWatcher(d, p, d.watches[p][i])
    BY <1>13 DEF GoodList
  <2>2. \A i \in 1 .. Len(d.watches[p]) : d.watches[p][i].cref \in 1 .. n
    BY <2>1 DEF GoodWatcher
  <2>3. \A r \in 1 .. n : /\ lits(e, r) = lits(d, r) /\ e.ca[r].mark = d.ca[r].mark
                          /\ r \in 1 .. Len(e.ca) /\ r # cr
    BY <1>2, <1>6, <1>8 DEF SameClause
  <2>4. \A i \in 1 .. Len(d.watches[p]) : GoodWatcher(e, p, d.watches[p][i])
    BY <1>2, <2>1, <2>2, <2>3 DEF GoodWatcher
  <2>5. QED
    BY <1>13, <2>2, <2>3, <2>4 DEF GoodList, InList
<1>15. /\ e.watches[a] = Append(d.watches[a], x) /\ e.watches[b] = Append(d.watches[b], y)
       /\ \A p \in Lits(V) : p # a /\ p # b => e.watches[p] = d.watches[p]
  BY <1>2 DEF MoreWatched
<1> HIDE DEF a, b, x, y
<1>16. a \in Lits(V) /\ b \in Lits(V) /\ a # b /\ a = neg(c[1]) /\ b = neg(c[2])
  BY <1>4 DEF a, b
<1>17. WatchInv(e, V)
  <2>1. ASSUME NEW p \in Lits(V) PROVE GoodList(e, p, e.watches[p])
    <3>1. CASE p = a
      BY <1>11, <1>12, <1>13, <1>14, <1>15, <3>1, GoodAppend
    <3>2. CASE p = b
      BY <1>11, <1>12, <1>13, <1>14, <1>15, <3>2, GoodAppend
    <3>3. CASE p # a /\ p # b
      BY <1>14, <1>15, <3>3
    <3>4. QED
      BY <3>1, <3>2, <3>3
  <2>2. QED
    BY <2>1 DEF WatchInv
<1>18. ASSUME NEW p \in Lits(V), NEW r, InList(d.watches[p], r) PROVE InList(e.watches[p], r)
  <2>1. d.watches[p] \in Seq(Watcher)
    BY <1>13
  <2>2. InList(Append(d.watches[p], x), r) /\ InList(Append(d.watches[p], y), r)
    BY <1>11, <1>18, <2>1, InAppend
  <2>3. QED
    BY <1>15, <1>18, <2>2
<1>19. InList(e.watches[a], cr) /\ InList(e.watches[b], cr)
  BY <1>11, <1>13, <1>15, <1>16, InAppend
<1>20. BothWatched(e)
  <2> SUFFICES ASSUME NEW r \in live(e)
               PROVE  InList(e.watches[neg(lits(e, r)[1])], r) /\ InList(e.watches[neg(lits(e, r)[2])], r)
    BY DEF BothWatched
  <2>1. CASE r = cr
    BY <1>7, <1>16, <1>19, <2>1
  <2>2. CASE r \in live(d)
    <3>1. r \in 1 .. n /\ lits(e, r) = lits(d, r)
      BY <1>1, <1>8, <2>2, LiveIs DEF SameClause
    <3>2. neg(lits(d, r)[1]) \in Lits(V) /\ neg(lits(d, r)[2]) \in Lits(V)
      BY <1>1, <3>1, ClauseIs, LitsAre
    <3>3. InList(d.watches[neg(lits(d, r)[1])], r) /\ InList(d.watches[neg(lits(d, r)[2])], r)
      BY <1>1, <2>2 DEF BothWatched
    <3>4. QED
      BY <1>18, <3>1, <3>2, <3>3
  <2>3. QED
    BY <1>9, <2>1, <2>2
<1>21. DbInv(e, V)
  BY <1>10, <1>17, <1>20 DEF DbInv
<1>22. Added(d, e, V, cr, c)
  BY <1>2, <1>6, <1>7, <1>8, <1>9, <1>21 DEF Added
<1>23. QED
  BY <1>2, <1>22 DEF cr

-----------------------------------------------------------------------------
(* e is d without what its dirty lists held of removed clauses.            *)
Cleaned(d, e, V) ==
    /\ DbInv(e, V)
    /\ e.ca = d.ca
    /\ e.clauses = d.clauses
    /\ e.learnts = d.learnts
    /\ e.reason = d.reason
    /\ e.dirties = {}

(* cleanAll drops the watchers of removed clauses from every dirty list    *)
(* and keeps the invariant of the database.                                *)
LEMMA CleanIs ==
    ASSUME NEW V \in SUBSET Nat, NEW d, DbInv(d, V), NEW e, e = cleanAll(d)
    PROVE  Cleaned(d, e, V)
<1> DEFINE stay(p) == {i \in DOMAIN d.watches[p] : ~d.ca[d.watches[p][i].cref].mark}
           u == [p \in Lits(V) |-> IF p \in d.dirties THEN Kept(d.watches[p], stay(p)) ELSE d.watches[p]]
<1>1. DbType(d, V) /\ WatchInv(d, V) /\ BothWatched(d)
  BY DEF DbInv
<1>2. /\ DOMAIN d = {"ca", "clauses", "learnts", "dirties", "watches", "reason"}
      /\ d.watches \in [Lits(V) -> Seq(Watcher)]
      /\ d.ca \in Seq(Entry)
  BY <1>1 DEF DbType
<1>3. e = [d EXCEPT !.watches = u, !.dirties = {}]
  BY <1>2 DEF cleanAll
<1>4. /\ DOMAIN e = DOMAIN d
      /\ e.ca = d.ca /\ e.clauses = d.clauses /\ e.learnts = d.learnts /\ e.reason = d.reason
      /\ e.dirties = {} /\ e.watches = u
  <2> HIDE DEF u
  <2>1. QED
    BY <1>2, <1>3
<1>5. ASSUME NEW p \in Lits(V)
      PROVE  /\ stay(p) \in SUBSET (1 .. Len(d.watches[p]))
             /\ u[p] = IF p \in d.dirties THEN Kept(d.watches[p], stay(p)) ELSE d.watches[p]
             /\ \A i : i \in stay(p) <=> i \in 1 .. Len(d.watches[p]) /\ ~d.ca[d.watches[p][i].cref].mark
  <2>1. d.watches[p] \in Seq(Watcher)
    BY <1>2
  <2>2. QED
    BY <2>1
<1>6. \A r \in 1 .. Len(d.ca) : /\ lits(e, r) = lits(d, r) /\ e.ca[r] = d.ca[r]
                                /\ d.ca[r].mark \in BOOLEAN
                                /\ r \in live(d) <=> ~d.ca[r].mark
  <2>1. \A r \in 1 .. Len(d.ca) : lits(e, r) = lits(d, r) /\ e.ca[r] = d.ca[r]
    BY <1>4 DEF lits
  <2>2. \A r \in 1 .. Len(d.ca) : d.ca[r].mark \in BOOLEAN /\ (r \in live(d) <=> ~d.ca[r].mark)
    BY <1>1, ClauseIs
  <2>3. QED
    BY <2>1, <2>2
<1>7. live(e) = live(d)
  BY <1>4 DEF live
<1> HIDE DEF u, stay
<1>8. ASSUME NEW p \in Lits(V)
      PROVE  /\ u[p] \in Seq(Watcher) /\ GoodList(d, p, u[p])
             /\ \A r \in live(d) : InList(d.watches[p], r) => InList(u[p], r)
             /\ \A i \in 1 .. Len(u[p]) : ~d.ca[u[p][i].cref].mark
  <2>1. d.watches[p] \in Seq(Watcher) /\ GoodList(d, p, d.watches[p])
    BY <1>1, <1>2 DEF WatchInv
  <2>2. CASE p \in d.dirties
    <3>1. u[p] = Kept(d.watches[p], stay(p))
      BY <1>5, <2>2
    <3>2. u[p] \in Seq(Watcher) /\ GoodList(d, p, u[p])
      BY <1>5, <2>1, <3>1, GoodKept
    <3>3. \A cr : InList(u[p], cr) <=> \E i \in stay(p) : d.watches[p][i].cref = cr
      BY <1>5, <2>1, <3>1, GoodKept
    <3>4. ASSUME NEW r \in live(d), InList(d.watches[p], r) PROVE InList(u[p], r)
      <4>1. PICK i \in 1 .. Len(d.watches[p]) : d.watches[p][i].cref = r
        BY <3>4 DEF InList
      <4>2. ~d.ca[r].mark
        BY <3>4 DEF live
      <4>3. i \in stay(p)
        BY <1>5, <4>1, <4>2
      <4>4. QED
        BY <3>3, <4>1, <4>3
    <3>5. ASSUME NEW i \in 1 .. Len(u[p]) PROVE ~d.ca[u[p][i].cref].mark
      <4>1. InList(u[p], u[p][i].cref)
        BY DEF InList
      <4>2. PICK j \in stay(p) : d.watches[p][j].cref = u[p][i].cref
        BY <3>3, <4>1
      <4>3. QED
        BY <1>5, <4>2
    <3>6. QED
      BY <3>2, <3>4, <3>5
  <2>3. CASE p \notin d.dirties
    <3>1. u[p] = d.watches[p]
      BY <1>5, <2>3
    <3>2. ASSUME NEW i \in 1 .. Len(u[p]) PROVE ~d.ca[u[p][i].cref].mark
      <4>1. GoodWatcher(d, p, u[p][i])
        BY <2>1, <3>1 DEF GoodList
      <4>2. QED
        BY <2>3, <4>1 DEF GoodWatcher
    <3>3. QED
      BY <2>1, <3>1, <3>2
  <2>4. QED
    BY <2>2, <2>3
<1>9. WatchInv(e, V)
  <2>1. ASSUME NEW p \in Lits(V) PROVE GoodList(e, p, e.watches[p])
    <3>1. ASSUME NEW i \in 1 .. Len(u[p]), GoodWatcher(d, p, u[p][i])
          PROVE  GoodWatcher(e, p, u[p][i])
      BY <1>4, <1>6, <1>8, <3>1 DEF GoodWatcher
    <3>2. GoodList(e, p, u[p])
      BY <1>8, <3>1, GoodIn
    <3>3. QED
      BY <1>4, <3>2
  <2>2. QED
    BY <2>1 DEF WatchInv
<1>10. u \in [Lits(V) -> Seq(Watcher)]
  BY <1>8 DEF u
<1>11. DbType(e, V)
  BY <1>1, <1>4, <1>7, <1>10 DEF DbType
<1>12. BothWatched(e)
  <2> SUFFICES ASSUME NEW r \in live(e)
               PROVE  InList(e.watches[neg(lits(e, r)[1])], r) /\ InList(e.watches[neg(lits(e, r)[2])], r)
    BY DEF BothWatched
  <2>1. r \in live(d) /\ r \in 1 .. Len(d.ca)
    BY <1>1, <1>7, LiveIs
  <2>2. lits(e, r) = lits(d, r)
    BY <1>6, <2>1
  <2>3. InList(d.watches[neg(lits(d, r)[1])], r) /\ InList(d.watches[neg(lits(d, r)[2])], r)
    BY <1>1, <2>1 DEF BothWatched
  <2>4. ASSUME NEW p \in Lits(V), InList(d.watches[p], r) PROVE InList(e.watches[p], r)
    BY <1>4, <1>8, <2>1, <2>4
  <2>5. neg(lits(d, r)[1]) \in Lits(V) /\ neg(lits(d, r)[2]) \in Lits(V)
    BY <1>1, <2>1, ClauseIs, LitsAre
  <2>6. QED
    BY <2>2, <2>3, <2>4, <2>5
<1>13. QED
  BY <1>4, <1>9, <1>11, <1>12 DEF Cleaned, DbInv

-----------------------------------------------------------------------------
(* e is d without the clauses of R, which are marked until they are        *)
(* collected. A variable loses its reason only if that is in R.            *)
Removed(d, e, V, R) ==
    /\ DbInv(e, V)
    /\ Len(e.ca) = Len(d.ca)
    /\ live(e) = live(d) \ R
    /\ \A r \in 1 .. Len(d.ca) : lits(e, r) = lits(d, r)
    /\ e.clauses = d.clauses \ R
    /\ e.learnts = d.learnts \ R
    /\ \A v \in V :
         \/ e.reason[v] = d.reason[v]
              /\ ~(d.reason[v] \in R /\ locked(d, d.reason[v]) /\ var(lits(d, d.reason[v])[1]) = v)
         \/ e.reason[v] = CRef_Undef /\ d.reason[v] \in R

(* removeClauses takes the clauses R away; the only reasons it resets are  *)
(* those of locked clauses.                                                *)
LEMMA RemoveIs ==
    ASSUME NEW V \in SUBSET Nat, NEW d, DbInv(d, V), NEW R \in SUBSET live(d),
           NEW e, e = removeClauses(d, R)
    PROVE  Removed(d, e, V, R)
<1> DEFINE n == Len(d.ca)
           ca == [cr \in DOMAIN d.ca |-> IF cr \in R THEN [d.ca[cr] EXCEPT !.mark = TRUE]
                                         ELSE d.ca[cr]]
           more == UNION {{neg(lits(d, cr)[1]), neg(lits(d, cr)[2])} : cr \in R}
           gone(v) == d.reason[v] \in R /\ locked(d, d.reason[v]) /\ var(lits(d, d.reason[v])[1]) = v
           reason == [v \in DOMAIN d.reason |-> IF gone(v) THEN CRef_Undef ELSE d.reason[v]]
<1>1. DbType(d, V) /\ WatchInv(d, V) /\ BothWatched(d)
  BY DEF DbInv
<1>2. /\ DOMAIN d = {"ca", "clauses", "learnts", "dirties", "watches", "reason"}
      /\ d.ca \in Seq(Entry) /\ n \in Nat /\ DOMAIN d.ca = 1 .. n
      /\ d.reason \in [V -> Int] /\ DOMAIN d.reason = V
      /\ R \subseteq 1 .. n
  <2>1. R \subseteq 1 .. n
    BY <1>1, LiveIs
  <2>2. QED
    BY <1>1, <2>1 DEF DbType
<1>3. e = [d EXCEPT !.ca = ca, !.clauses = @ \ R, !.learnts = @ \ R,
                    !.dirties = @ \cup more, !.reason = reason]
  BY Zenon DEF removeClauses
<1>4. /\ DOMAIN e = DOMAIN d
      /\ e.ca = ca /\ e.clauses = d.clauses \ R /\ e.learnts = d.learnts \ R
      /\ e.dirties = d.dirties \cup more /\ e.watches = d.watches /\ e.reason = reason
  <2> HIDE DEF ca, more, reason
  <2>1. QED
    BY <1>2, <1>3
<1>5. /\ \A r \in 1 .. n : ca[r] = IF r \in R THEN [d.ca[r] EXCEPT !.mark = TRUE] ELSE d.ca[r]
      /\ DOMAIN ca = 1 .. n
  BY <1>2
<1>6. \A r \in R : neg(lits(d, r)[1]) \in more /\ neg(lits(d, r)[2]) \in more
  OBVIOUS
<1>7. more \subseteq Lits(V)
  <2>1. \A r \in R : neg(lits(d, r)[1]) \in Lits(V) /\ neg(lits(d, r)[2]) \in Lits(V)
    BY <1>1, <1>2, ClauseIs, LitsAre
  <2>2. QED
    BY <2>1
<1>8. \A v \in V : /\ gone(v) => reason[v] = CRef_Undef
                   /\ ~gone(v) => reason[v] = d.reason[v]
  BY <1>2
<1>9. reason \in [V -> Int]
  BY <1>2 DEF CRef_Undef
<1>10. ASSUME NEW r \in 1 .. n
       PROVE  /\ ca[r] \in Entry
              /\ ca[r].lits = d.ca[r].lits
              /\ r \in R => ca[r].mark
              /\ r \notin R => ca[r].mark = d.ca[r].mark
  <2>1. d.ca[r] \in Entry
    BY <1>2
  <2>2. QED
    BY <1>5, <2>1 DEF Entry
<1> HIDE DEF ca, more, reason
<1>11. ca \in Seq(Entry) /\ Len(ca) = n
  <2>1. ca = [r \in 1 .. n |-> ca[r]]
    BY <1>2, <1>5 DEF ca
  <2>2. QED
    BY <1>2, <1>10, <2>1
<1>12. \A r \in 1 .. n : lits(e, r) = lits(d, r)
  BY <1>4, <1>10 DEF lits
<1>13. live(e) = live(d) \ R
  <2>1. \A r : r \in live(e) <=> r \in 1 .. n /\ ~ca[r].mark
    BY <1>4, <1>5 DEF live
  <2>2. \A r : r \in live(d) <=> r \in 1 .. n /\ ~d.ca[r].mark
    BY <1>2 DEF live
  <2>3. \A r \in 1 .. n : r \in live(e) <=> r \in live(d) /\ r \notin R
    BY <1>2, <1>10, <2>1, <2>2
  <2>4. QED
    BY <2>1, <2>2, <2>3
<1>14. DbType(e, V)
  <2>1. \A r \in 1 .. Len(e.ca) : IsLits(e.ca[r].lits, V)
    BY <1>1, <1>4, <1>10, <1>11 DEF DbType
  <2>2. QED
    BY <1>1, <1>4, <1>7, <1>9, <1>11, <1>13, <2>1 DEF DbType
<1>15. WatchInv(e, V)
  <2> SUFFICES ASSUME NEW p \in Lits(V) PROVE GoodList(e, p, e.watches[p])
    BY DEF WatchInv
  <2>1. GoodList(d, p, d.watches[p])
    BY <1>1 DEF WatchInv
  <2>2. ASSUME NEW w, GoodWatcher(d, p, w) PROVE GoodWatcher(e, p, w)
    <3> DEFINE r == w.cref
    <3>1. r \in 1 .. n /\ neg(p) \in {lits(d, r)[1], lits(d, r)[2]} /\ w.blocker \in ToSet(lits(d, r))
      BY <2>2 DEF GoodWatcher
    <3>2. r \in R => p \in more
      <4>1. p \in Nat /\ neg(neg(p)) = p
        BY LitsAre, Negation DEF Literal
      <4>2. QED
        BY <1>6, <3>1, <4>1
    <3>3. e.ca[r].mark => p \in e.dirties
      BY <1>4, <1>10, <2>2, <3>1, <3>2 DEF GoodWatcher
    <3>4. QED
      BY <1>4, <1>11, <1>12, <3>1, <3>3 DEF GoodWatcher
  <2>3. GoodList(e, p, d.watches[p])
    BY <2>1, <2>2 DEF GoodList
  <2>4. QED
    BY <1>4, <2>3
<1>16. BothWatched(e)
  BY <1>1, <1>2, <1>4, <1>12, <1>13, LiveIs DEF BothWatched
<1>17. \A v \in V :
         \/ e.reason[v] = d.reason[v]
              /\ ~(d.reason[v] \in R /\ locked(d, d.reason[v]) /\ var(lits(d, d.reason[v])[1]) = v)
         \/ e.reason[v] = CRef_Undef /\ d.reason[v] \in R
  BY <1>4, <1>8
<1>18. QED
  BY <1>4, <1>11, <1>12, <1>13, <1>14, <1>15, <1>16, <1>17 DEF Removed, DbInv

-----------------------------------------------------------------------------
(* The clause i of e is the live clause g[i] of d.                         *)
Moved(d, e, g) ==
    /\ g \in [1 .. Len(e.ca) -> live(d)]
    /\ \A i, j \in 1 .. Len(e.ca) : g[i] = g[j] => i = j
    /\ \A r \in live(d) : \E i \in 1 .. Len(e.ca) : g[i] = r
    /\ \A i \in 1 .. Len(e.ca) : e.ca[i] = d.ca[g[i]]
    /\ e.clauses = {i \in 1 .. Len(e.ca) : g[i] \in d.clauses}
    /\ e.learnts = {i \in 1 .. Len(e.ca) : g[i] \in d.learnts}

(* The reasons in e are those of d, renamed, for the assigned variables.   *)
Renamed(d, e, V, g) ==
    \A v \in V :
        /\ v \notin assigned => e.reason[v] = CRef_Undef
        /\ v \in assigned /\ d.reason[v] = CRef_Undef => e.reason[v] = CRef_Undef
        /\ v \in assigned /\ d.reason[v] \in live(d) =>
              e.reason[v] \in 1 .. Len(e.ca) /\ g[e.reason[v]] = d.reason[v]
        /\ v \in assigned /\ d.reason[v] # CRef_Undef /\ d.reason[v] \notin live(d) =>
              e.reason[v] = Dangling

(* e is d with its live clauses moved to a new region.                     *)
Collected(d, e, V) ==
    /\ DbInv(e, V)
    /\ live(e) = 1 .. Len(e.ca)
    /\ \E g : Moved(d, e, g) /\ Renamed(d, e, V, g)

(* garbageCollect: every live clause moves, and its watchers, its reason   *)
(* and its place among clauses or learnts with it.                         *)
LEMMA CollectIs ==
    ASSUME NEW V \in SUBSET Nat, NEW d0, DbInv(d0, V), NEW e, e = garbageCollect(d0)
    PROVE  Collected(d0, e, V)
<1> DEFINE d == cleanAll(d0)
           order == Sorted(live(d))
           n == Cardinality(live(d))
           to(cr) == CHOOSE i \in DOMAIN order : order[i] = cr
           toReason(r) == CASE r = CRef_Undef -> CRef_Undef
                            [] r \in live(d)  -> to(r)
                            [] OTHER          -> Dangling
           ca == [i \in DOMAIN order |-> d.ca[order[i]]]
           kept == {to(cr) : cr \in d.clauses}
           learnt == {to(cr) : cr \in d.learnts}
           moved(w) == [w EXCEPT !.cref = to(@)]
           lists == [p \in DOMAIN d.watches |-> [i \in DOMAIN d.watches[p] |-> moved(d.watches[p][i])]]
           reason == [v \in DOMAIN d.reason |->
                IF v \in assigned THEN toReason(d.reason[v]) ELSE CRef_Undef]
<1>1. e = [d EXCEPT !.ca = ca, !.clauses = kept, !.learnts = learnt, !.watches = lists,
                    !.reason = reason]
  BY Zenon DEF garbageCollect
<1>2. Cleaned(d0, d, V)
  BY CleanIs
<1> HIDE DEF d
<1>3. /\ DbType(d, V) /\ WatchInv(d, V) /\ BothWatched(d)
      /\ d.ca = d0.ca /\ d.clauses = d0.clauses /\ d.learnts = d0.learnts
      /\ d.reason = d0.reason /\ d.dirties = {}
  BY <1>2 DEF Cleaned, DbInv
<1>4. live(d) = live(d0)
  BY <1>3 DEF live
<1>5. /\ live(d) \subseteq 1 .. Len(d.ca) /\ live(d) \in SUBSET Nat /\ IsFiniteSet(live(d))
      /\ Len(d.ca) \in Nat
  <2>1. live(d) \subseteq 1 .. Len(d.ca) /\ 1 .. Len(d.ca) \subseteq Nat
    BY <1>3, LiveIs
  <2>2. d.ca \in Seq(Entry)
    BY <1>3 DEF DbType
  <2>3. Len(d.ca) \in Int /\ 1 \in Int /\ Len(d.ca) \in Nat
    BY <2>2
  <2>4. IsFiniteSet(1 .. Len(d.ca))
    BY <2>3, FS_Interval
  <2>5. IsFiniteSet(live(d))
    BY <2>1, <2>4, FS_Subset
  <2>6. QED
    BY <2>1, <2>3, <2>5
<1>6. /\ order \in Seq(live(d)) /\ Len(order) = n /\ n \in Nat
      /\ \A i, j \in 1 .. n : order[i] = order[j] => i = j
      /\ \A x \in live(d) : \E i \in 1 .. n : order[i] = x
  BY <1>5, SortedIs
<1> HIDE DEF order
<1>7. DOMAIN order = 1 .. n /\ \A i \in 1 .. n : order[i] \in live(d)
  BY <1>6
<1>8. ASSUME NEW r \in live(d) PROVE to(r) \in 1 .. n /\ order[to(r)] = r
  <2>1. \E i \in DOMAIN order : order[i] = r
    BY <1>6, <1>7
  <2>2. to(r) \in DOMAIN order /\ order[to(r)] = r
    BY <2>1, Zenon
  <2>3. QED
    BY <1>7, <2>2
<1>9. \A i \in 1 .. n : to(order[i]) = i
  <2> HIDE DEF to
  <2>1. QED
    BY <1>6, <1>7, <1>8
<1>10. ASSUME NEW r
       PROVE  /\ r = CRef_Undef => toReason(r) = CRef_Undef
              /\ r # CRef_Undef /\ r \in live(d) => toReason(r) = to(r)
              /\ r # CRef_Undef /\ r \notin live(d) => toReason(r) = Dangling
  <2> HIDE DEF to
  <2>1. r = CRef_Undef => toReason(r) = CRef_Undef
    BY <1>5 DEF CRef_Undef
  <2>2. r # CRef_Undef /\ r \in live(d) => toReason(r) = to(r)
    OBVIOUS
  <2>3. r # CRef_Undef /\ r \notin live(d) => toReason(r) = Dangling
    OBVIOUS
  <2>4. QED
    BY <2>1, <2>2, <2>3
<1> HIDE DEF toReason
<1>11. ca = [i \in 1 .. n |-> d.ca[order[i]]]
  BY <1>7, Zenon
<1>12. /\ DOMAIN d = {"ca", "clauses", "learnts", "dirties", "watches", "reason"}
       /\ d.ca \in Seq(Entry) /\ DOMAIN d.ca = 1 .. Len(d.ca)
       /\ d.watches \in [Lits(V) -> Seq(Watcher)] /\ d.reason \in [V -> Int]
       /\ d.clauses \cup d.learnts = live(d) /\ d.clauses \cap d.learnts = {}
       /\ \A cr \in 1 .. Len(d.ca) : IsLits(d.ca[cr].lits, V)
  BY <1>3 DEF DbType
<1>13. /\ DOMAIN e = DOMAIN d
       /\ e.ca = ca /\ e.clauses = kept /\ e.learnts = learnt
       /\ e.dirties = d.dirties /\ e.watches = lists /\ e.reason = reason
  <2> HIDE DEF ca, kept, learnt, lists, reason
  <2>1. QED
    BY <1>1, <1>12
<1>14. \A v \in V : reason[v] = IF v \in assigned THEN toReason(d.reason[v]) ELSE CRef_Undef
  BY <1>12
<1>15. reason \in [V -> Int]
  <2>1. \A r : r \in live(d) => to(r) \in Int
    <3> HIDE DEF to
    <3>1. QED
      BY <1>8
  <2>2. \A v \in V : toReason(d.reason[v]) \in Int
    <3> HIDE DEF to
    <3>1. QED
      BY <1>10, <2>1 DEF CRef_Undef, Dangling
  <2>3. reason = [v \in V |-> IF v \in assigned THEN toReason(d.reason[v]) ELSE CRef_Undef]
    BY <1>12, Zenon
  <2> HIDE DEF reason
  <2>4. QED
    BY <2>2, <2>3 DEF CRef_Undef
<1> HIDE DEF reason
<1>16. ca \in Seq(Entry) /\ Len(ca) = n /\ \A i \in 1 .. n : ca[i] = d.ca[order[i]]
  <2>1. \A i \in 1 .. n : d.ca[order[i]] \in Entry
    BY <1>5, <1>7, <1>12
  <2> HIDE DEF ca
  <2>2. QED
    BY <1>6, <1>11, <2>1
<1> HIDE DEF ca
<1>17. /\ \A i : i \in kept <=> i \in 1 .. n /\ order[i] \in d.clauses
       /\ \A i : i \in learnt <=> i \in 1 .. n /\ order[i] \in d.learnts
  <2>1. d.clauses \subseteq live(d) /\ d.learnts \subseteq live(d)
    BY <1>12
  <2>2. ASSUME NEW i \in kept PROVE i \in 1 .. n /\ order[i] \in d.clauses
    <3>1. PICK r \in d.clauses : i = to(r)
      OBVIOUS
    <3> HIDE DEF to
    <3>2. QED
      BY <1>8, <2>1, <3>1
  <2>3. ASSUME NEW i \in learnt PROVE i \in 1 .. n /\ order[i] \in d.learnts
    <3>1. PICK r \in d.learnts : i = to(r)
      OBVIOUS
    <3> HIDE DEF to
    <3>2. QED
      BY <1>8, <2>1, <3>1
  <2>4. ASSUME NEW i \in 1 .. n PROVE order[i] \in d.clauses => i \in kept
    <3>1. i = to(order[i])
      <4> HIDE DEF to
      <4>1. QED
        BY <1>9
    <3>2. QED
      BY <3>1, Zenon
  <2>5. ASSUME NEW i \in 1 .. n PROVE order[i] \in d.learnts => i \in learnt
    <3>1. i = to(order[i])
      <4> HIDE DEF to
      <4>1. QED
        BY <1>9
    <3>2. QED
      BY <3>1, Zenon
  <2> HIDE DEF kept, learnt
  <2>6. QED
    BY <2>2, <2>3, <2>4, <2>5
<1> HIDE DEF kept, learnt
<1>18. live(e) = 1 .. n
  <2>1. DOMAIN ca = 1 .. n
    BY <1>16
  <2>2. \A i \in 1 .. n : ~ca[i].mark
    BY <1>7, <1>16 DEF live
  <2>3. QED
    BY <1>13, <2>1, <2>2 DEF live
<1>19. \A r \in live(d) : lits(e, to(r)) = lits(d, r) /\ ~e.ca[to(r)].mark
  <2> HIDE DEF to
  <2>1. QED
    BY <1>8, <1>13, <1>16 DEF lits, live
<1>20. DbType(e, V)
  <2>1. \A i \in 1 .. Len(e.ca) : IsLits(e.ca[i].lits, V)
    BY <1>5, <1>7, <1>12, <1>13, <1>16
  <2>2. e.clauses \subseteq Nat /\ e.learnts \subseteq Nat
    BY <1>13, <1>17
  <2>3. e.clauses \cup e.learnts = live(e) /\ e.clauses \cap e.learnts = {}
    BY <1>7, <1>12, <1>13, <1>17, <1>18
  <2>4. lists \in [Lits(V) -> Seq(Watcher)]
    <3> DEFINE list(p) == [i \in DOMAIN d.watches[p] |-> moved(d.watches[p][i])]
    <3>1. ASSUME NEW p \in Lits(V) PROVE list(p) \in Seq(Watcher)
      <4> DEFINE s == d.watches[p]
      <4>1. s \in Seq(Watcher) /\ GoodList(d, p, s)
        BY <1>3, <1>12 DEF WatchInv
      <4>2. ASSUME NEW i \in 1 .. Len(s) PROVE moved(s[i]) \in Watcher
        <5>1. s[i] \in Watcher /\ GoodWatcher(d, p, s[i])
          BY <4>1 DEF GoodList
        <5>2. s[i].cref \in live(d)
          BY <1>3, <1>12, <5>1 DEF GoodWatcher, live
        <5>3. to(s[i].cref) \in Nat
          <6> HIDE DEF to
          <6>1. QED
            BY <1>8, <5>2
        <5> HIDE DEF to, s
        <5>4. QED
          BY <5>1, <5>3 DEF Watcher
      <4> HIDE DEF s, moved
      <4>3. DOMAIN s = 1 .. Len(s) /\ Len(s) \in Nat
        BY <4>1
      <4>4. [i \in 1 .. Len(s) |-> moved(s[i])] \in Seq(Watcher)
        BY <4>2, <4>3
      <4>5. QED
        BY <4>3, <4>4 DEF s
    <3>2. DOMAIN d.watches = Lits(V)
      BY <1>12
    <3>3. lists = [p \in Lits(V) |-> list(p)]
      BY <3>2, Zenon
    <3> HIDE DEF list, lists
    <3>4. QED
      BY <3>1, <3>3
  <2> HIDE DEF lists
  <2>5. e.watches \in [Lits(V) -> Seq(Watcher)] /\ e.dirties \subseteq Lits(V)
    BY <1>3, <1>13, <2>4
  <2>6. QED
    BY <1>12, <1>13, <1>15, <1>16, <2>1, <2>2, <2>3, <2>5 DEF DbType
<1>21. ASSUME NEW p \in Lits(V)
       PROVE  /\ d.watches[p] \in Seq(Watcher) /\ GoodList(d, p, d.watches[p])
              /\ Len(lists[p]) = Len(d.watches[p])
              /\ \A i \in 1 .. Len(d.watches[p]) :
                   /\ d.watches[p][i].cref \in live(d)
                   /\ lists[p][i].cref = to(d.watches[p][i].cref)
                   /\ lists[p][i].blocker = d.watches[p][i].blocker
  <2> DEFINE s == d.watches[p]
  <2>1. s \in Seq(Watcher) /\ GoodList(d, p, s)
    BY <1>3, <1>12 DEF WatchInv
  <2>2. lists[p] = [i \in DOMAIN s |-> moved(s[i])]
    <3>1. p \in DOMAIN d.watches
      BY <1>12
    <3>2. QED
      BY <3>1, Zenon
  <2> HIDE DEF s, to, lists, moved
  <2>3. DOMAIN s = 1 .. Len(s) /\ Len(s) \in Nat
    BY <2>1
  <2>4. \A i \in 1 .. Len(s) : s[i].cref \in live(d)
    <3>1. \A i \in 1 .. Len(s) : GoodWatcher(d, p, s[i])
      BY <2>1 DEF GoodList
    <3>2. QED
      BY <1>3, <1>12, <3>1 DEF GoodWatcher, live
  <2>5. ASSUME NEW i \in 1 .. Len(s)
        PROVE lists[p][i].cref = to(s[i].cref) /\ lists[p][i].blocker = s[i].blocker
    <3>1. lists[p][i] = moved(s[i])
      BY <2>2, <2>3
    <3>2. s[i] \in Watcher
      BY <2>1
    <3>3. QED
      BY <3>1, <3>2 DEF Watcher, moved
  <2>6. Len(lists[p]) = Len(s)
    BY <2>2, <2>3
  <2>7. QED
    BY <2>1, <2>4, <2>5, <2>6 DEF s
<1> HIDE DEF lists, to
<1>22. WatchInv(e, V)
  <2> SUFFICES ASSUME NEW p \in Lits(V) PROVE GoodList(e, p, lists[p])
    BY <1>13 DEF WatchInv
  <2> DEFINE s == d.watches[p]
             t == lists[p]
  <2>1. /\ GoodList(d, p, s) /\ Len(t) = Len(s)
        /\ \A i \in 1 .. Len(s) : /\ s[i].cref \in live(d)
                                  /\ t[i].cref = to(s[i].cref) /\ t[i].blocker = s[i].blocker
    BY <1>21
  <2> HIDE DEF s, t
  <2>2. ASSUME NEW i \in 1 .. Len(t) PROVE GoodWatcher(e, p, t[i])
    <3>1. GoodWatcher(d, p, s[i])
      BY <2>1 DEF GoodList
    <3>2. s[i].cref \in live(d) /\ t[i].cref = to(s[i].cref) /\ t[i].blocker = s[i].blocker
      BY <2>1
    <3>3. to(s[i].cref) \in 1 .. Len(e.ca)
      BY <1>8, <1>13, <1>16, <3>2
    <3>4. QED
      BY <1>19, <3>1, <3>2, <3>3 DEF GoodWatcher
  <2>3. ASSUME NEW i \in 1 .. Len(t), NEW j \in 1 .. Len(t), t[i].cref = t[j].cref PROVE i = j
    <3>1. s[i].cref = s[j].cref
      BY <1>8, <2>1, <2>3
    <3>2. QED
      BY <2>1, <3>1 DEF GoodList
  <2>4. GoodList(e, p, t)
    BY <2>2, <2>3 DEF GoodList
  <2>5. QED
    BY <2>4 DEF t
<1>23. BothWatched(e)
  <2> SUFFICES ASSUME NEW i \in 1 .. n
               PROVE  InList(e.watches[neg(lits(e, i)[1])], i) /\ InList(e.watches[neg(lits(e, i)[2])], i)
    BY <1>18 DEF BothWatched
  <2> DEFINE r == order[i]
  <2>1. r \in live(d) /\ to(r) = i
    BY <1>7, <1>9
  <2> HIDE DEF r
  <2>2. lits(e, i) = lits(d, r)
    BY <1>19, <2>1
  <2>3. InList(d.watches[neg(lits(d, r)[1])], r) /\ InList(d.watches[neg(lits(d, r)[2])], r)
    BY <1>3, <2>1 DEF BothWatched
  <2>4. neg(lits(d, r)[1]) \in Lits(V) /\ neg(lits(d, r)[2]) \in Lits(V)
    BY <1>3, <1>5, <2>1, ClauseIs, LitsAre
  <2>5. ASSUME NEW p \in Lits(V), InList(d.watches[p], r) PROVE InList(lists[p], i)
    <3>1. PICK j \in 1 .. Len(d.watches[p]) : d.watches[p][j].cref = r
      BY <2>5 DEF InList
    <3>2. lists[p][j].cref = i /\ j \in 1 .. Len(lists[p])
      BY <1>21, <2>1, <3>1
    <3>3. QED
      BY <3>2 DEF InList
  <2>6. QED
    BY <1>13, <2>2, <2>3, <2>4, <2>5
<1>24. Moved(d0, e, order)
  <2>1. order \in [1 .. n -> live(d)]
    BY <1>6, <1>7
  <2>2. Len(e.ca) = n /\ \A i \in 1 .. n : e.ca[i] = d.ca[order[i]]
    BY <1>13, <1>16
  <2>3. e.clauses = {i \in 1 .. n : order[i] \in d.clauses} /\ e.learnts = {i \in 1 .. n : order[i] \in d.learnts}
    BY <1>13, <1>17
  <2>4. QED
    BY <1>3, <1>4, <1>6, <2>1, <2>2, <2>3 DEF Moved
<1>25. Renamed(d0, e, V, order)
  <2> SUFFICES ASSUME NEW v \in V
               PROVE  /\ v \notin assigned => e.reason[v] = CRef_Undef
                      /\ v \in assigned /\ d.reason[v] = CRef_Undef => e.reason[v] = CRef_Undef
                      /\ v \in assigned /\ d.reason[v] \in live(d) =>
                            e.reason[v] \in 1 .. Len(e.ca) /\ order[e.reason[v]] = d.reason[v]
                      /\ v \in assigned /\ d.reason[v] # CRef_Undef /\ d.reason[v] \notin live(d) =>
                            e.reason[v] = Dangling
    BY <1>3, <1>4 DEF Renamed
  <2>1. e.reason[v] = IF v \in assigned THEN toReason(d.reason[v]) ELSE CRef_Undef
    BY <1>13, <1>14
  <2>2. d.reason[v] \in live(d) => d.reason[v] # CRef_Undef
    BY <1>5 DEF CRef_Undef
  <2>3. QED
    BY <1>8, <1>10, <1>13, <1>16, <2>1, <2>2
<1>26. QED
  BY <1>13, <1>16, <1>18, <1>20, <1>22, <1>23, <1>24, <1>25 DEF Collected, DbInv

-----------------------------------------------------------------------------
(* Two literals of a clause change places.                                 *)
Permuted(b, c, V) == IsLits(c, V) /\ Len(c) = Len(b) /\ ToSet(c) = ToSet(b)

Swap(b, j, k) == [b EXCEPT ![j] = b[k], ![k] = b[j]]

SwapOf(b, c, V, j, k) ==
    /\ Permuted(b, c, V)
    /\ c[j] = b[k] /\ c[k] = b[j]
    /\ \A i \in 1 .. Len(b) : i # j /\ i # k => c[i] = b[i]

(* Swapping two positions of a clause permutes its literals.               *)
LEMMA SwapIs ==
    ASSUME NEW V, NEW b, IsLits(b, V), NEW j \in 1 .. Len(b), NEW k \in 1 .. Len(b), j # k,
           NEW c, c = Swap(b, j, k)
    PROVE  SwapOf(b, c, V, j, k)
<1>1. /\ b \in Seq(Lits(V)) /\ Len(b) \in Nat /\ Len(b) >= 2 /\ DOMAIN b = 1 .. Len(b)
      /\ \A x, y \in 1 .. Len(b) : var(b[x]) = var(b[y]) => x = y
  BY DEF IsLits
<1>2. c \in Seq(Lits(V)) /\ Len(c) = Len(b)
  BY <1>1 DEF Swap
<1>3. c[j] = b[k] /\ c[k] = b[j] /\ \A i \in 1 .. Len(b) : i # j /\ i # k => c[i] = b[i]
  BY <1>1 DEF Swap
<1> DEFINE s == [i \in 1 .. Len(b) |-> IF i = j THEN k ELSE IF i = k THEN j ELSE i]
<1>4. /\ \A i \in 1 .. Len(b) : s[i] \in 1 .. Len(b) /\ c[i] = b[s[i]] /\ s[s[i]] = i
  BY <1>3
<1> HIDE DEF s
<1>5. IsLits(c, V)
  <2>1. ASSUME NEW x \in 1 .. Len(c), NEW y \in 1 .. Len(c), var(c[x]) = var(c[y]) PROVE x = y
    <3>1. s[x] \in 1 .. Len(b) /\ s[y] \in 1 .. Len(b) /\ s[s[x]] = x /\ s[s[y]] = y
          /\ c[x] = b[s[x]] /\ c[y] = b[s[y]]
      BY <1>2, <1>4
    <3>2. s[x] = s[y]
      BY <1>1, <2>1, <3>1
    <3>3. QED
      BY <3>1, <3>2
  <2>2. QED
    BY <1>1, <1>2, <2>1 DEF IsLits
<1>6. ToSet(c) = ToSet(b)
  <2>1. \A x : x \in ToSet(c) <=> \E i \in 1 .. Len(c) : c[i] = x
    <3>1. DOMAIN c = 1 .. Len(c)
      BY <1>2
    <3>2. QED
      BY <3>1, Zenon DEF ToSet
  <2>2. \A x : x \in ToSet(b) <=> \E i \in 1 .. Len(b) : b[i] = x
    BY <1>1, Zenon DEF ToSet
  <2>3. ASSUME NEW x PROVE x \in ToSet(c) <=> x \in ToSet(b)
    <3>1. x \in ToSet(c) => x \in ToSet(b)
      BY <1>2, <1>4, <2>1, <2>2
    <3>2. ASSUME x \in ToSet(b) PROVE x \in ToSet(c)
      <4>1. PICK i \in 1 .. Len(b) : b[i] = x
        BY <2>2, <3>2
      <4>2. s[i] \in 1 .. Len(c) /\ c[s[i]] = x
        BY <1>2, <1>4, <4>1
      <4>3. QED
        BY <2>1, <4>2
    <3>3. QED
      BY <3>1, <3>2
  <2>4. QED
    BY <2>3
<1>7. QED
  BY <1>2, <1>3, <1>5, <1>6 DEF Permuted, SwapOf

(* e is d with the literals of the clause cr in the order c.               *)
Shuffled(d, e, V, cr, c) ==
    /\ DbInv(e, V)
    /\ Len(e.ca) = Len(d.ca)
    /\ live(e) = live(d)
    /\ lits(e, cr) = c
    /\ \A r \in 1 .. Len(d.ca) : r # cr => lits(e, r) = lits(d, r)
    /\ e.clauses = d.clauses
    /\ e.learnts = d.learnts
    /\ e.reason = d.reason
    /\ e.dirties = d.dirties

(* e is d but for its lists and the literals of the clause cr, which are c. *)
Turn(d, e, V, cr, c) ==
    /\ DOMAIN e = DOMAIN d
    /\ e.ca = [d.ca EXCEPT ![cr] = [d.ca[cr] EXCEPT !.lits = c]]
    /\ e.clauses = d.clauses
    /\ e.learnts = d.learnts
    /\ e.reason = d.reason
    /\ e.dirties = d.dirties
    /\ Lists(e, V)

(* What such a turn leaves alone.                                          *)
TurnKeeps(d, e, V, cr, c) ==
    /\ DbType(e, V)
    /\ Len(e.ca) = Len(d.ca)
    /\ live(e) = live(d)
    /\ lits(e, cr) = c
    /\ \A r \in 1 .. Len(d.ca) : r # cr => lits(e, r) = lits(d, r)
    /\ \A r \in 1 .. Len(d.ca) : e.ca[r].mark = d.ca[r].mark

(* A clause whose literals are turned around in place keeps the types of   *)
(* the database and every other clause.                                    *)
LEMMA Turning ==
    ASSUME NEW V \in SUBSET Nat, NEW d, DbType(d, V), NEW cr \in 1 .. Len(d.ca), NEW c,
           IsLits(c, V), NEW e, Turn(d, e, V, cr, c)
    PROVE  TurnKeeps(d, e, V, cr, c)
<1>1. d.ca \in Seq(Entry) /\ Len(d.ca) \in Nat /\ DOMAIN d.ca = 1 .. Len(d.ca) /\ d.ca[cr] \in Entry
  BY DEF DbType
<1> DEFINE x == [d.ca[cr] EXCEPT !.lits = c]
<1>2. c \in Seq(Nat)
  <2>1. c \in Seq(Lits(V))
    BY DEF IsLits
  <2>2. \A i \in 1 .. Len(c) : c[i] \in Nat
    BY <2>1, LitsAre
  <2>3. QED
    BY <2>1, <2>2
<1>3. x \in Entry /\ x.lits = c /\ x.mark = d.ca[cr].mark
  BY <1>1, <1>2 DEF Entry
<1> HIDE DEF x
<1>4. e.ca = [d.ca EXCEPT ![cr] = x]
  BY DEF x, Turn
<1>5. /\ e.ca \in Seq(Entry) /\ Len(e.ca) = Len(d.ca) /\ DOMAIN e.ca = 1 .. Len(d.ca)
      /\ e.ca[cr] = x
      /\ \A r \in 1 .. Len(d.ca) : r # cr => e.ca[r] = d.ca[r]
  BY <1>1, <1>3, <1>4
<1>6. /\ lits(e, cr) = c
      /\ \A r \in 1 .. Len(d.ca) : r # cr => lits(e, r) = lits(d, r)
      /\ \A r \in 1 .. Len(d.ca) : e.ca[r].mark = d.ca[r].mark
  BY <1>3, <1>5 DEF lits
<1>7. live(e) = live(d)
  BY <1>1, <1>5, <1>6 DEF live
<1>8. \A r \in 1 .. Len(e.ca) : IsLits(e.ca[r].lits, V)
  BY <1>3, <1>5 DEF DbType
<1>9. e.watches \in [Lits(V) -> Seq(Watcher)]
  BY DEF Lists, Turn
<1>10. DbType(e, V)
  BY <1>5, <1>7, <1>8, <1>9 DEF DbType, Turn
<1>11. QED
  BY <1>5, <1>6, <1>7, <1>10 DEF TurnKeeps

(* e is d with the literals of the clause cr in the order c, the first one *)
(* in the watcher i of p.                                                  *)
KeepTurned(d, e, p, i, cr, c) ==
    e = [d EXCEPT !.ca[cr].lits = c, !.watches[p][i].blocker = c[1]]

(* The lists hold the same clauses.                                        *)
SameCRefs(d, e, V) ==
    \A q \in Lits(V) :
        /\ Len(e.watches[q]) = Len(d.watches[q])
        /\ \A j \in 1 .. Len(d.watches[q]) : e.watches[q][j].cref = d.watches[q][j].cref

(* The clause of the watcher i of p stays in the list.                     *)
LEMMA KeepWatchIs ==
    ASSUME NEW V \in SUBSET Nat, NEW d, DbInv(d, V), NEW p \in Lits(V),
           NEW i \in 1 .. Len(d.watches[p]), NEW cr, cr = d.watches[p][i].cref,
           NEW c, Permuted(lits(d, cr), c, V),
           {c[1], c[2]} = {lits(d, cr)[1], lits(d, cr)[2]},
           NEW e, KeepTurned(d, e, p, i, cr, c)
    PROVE  /\ Shuffled(d, e, V, cr, c)
           /\ SameCRefs(d, e, V)
<1>1. /\ DbType(d, V) /\ WatchInv(d, V) /\ BothWatched(d)
      /\ IsLits(c, V) /\ Len(c) = Len(lits(d, cr)) /\ ToSet(c) = ToSet(lits(d, cr))
  BY DEF DbInv, Permuted
<1> DEFINE w == d.watches[p][i]
           x == [w EXCEPT !.blocker = c[1]]
           u == [d.watches EXCEPT ![p] = [@ EXCEPT ![i] = x]]
           ca == [d.ca EXCEPT ![cr] = [d.ca[cr] EXCEPT !.lits = c]]
<1>2. /\ DOMAIN d = {"ca", "clauses", "learnts", "dirties", "watches", "reason"}
      /\ d.watches \in [Lits(V) -> Seq(Watcher)] /\ DOMAIN d.watches = Lits(V)
      /\ d.ca \in Seq(Entry)
  BY <1>1 DEF DbType
<1>3. GoodList(d, p, d.watches[p]) /\ GoodWatcher(d, p, w) /\ w \in Watcher
  BY <1>1, <1>2 DEF WatchInv, GoodList
<1>4. cr \in 1 .. Len(d.ca) /\ neg(p) \in {c[1], c[2]}
  BY <1>3 DEF GoodWatcher
<1>5. e = [d EXCEPT !.ca = ca, !.watches = u]
  BY Zenon DEF KeepTurned
<1>6. /\ DOMAIN e = DOMAIN d
      /\ e.ca = ca /\ e.watches = u
      /\ e.clauses = d.clauses /\ e.learnts = d.learnts /\ e.reason = d.reason /\ e.dirties = d.dirties
  <2> HIDE DEF ca, u
  <2>1. QED
    BY <1>2, <1>5
<1>7. c[1] \in ToSet(c) /\ c[1] \in Nat
  <2>1. c \in Seq(Lits(V)) /\ 1 \in 1 .. Len(c)
    BY <1>1 DEF IsLits
  <2>2. QED
    BY <2>1, ToSetIs, LitsAre
<1>8. x \in Watcher /\ x.cref = cr /\ x.blocker = c[1]
  BY <1>3, <1>7 DEF Watcher
<1> HIDE DEF ca, w, x
<1>9. /\ u \in [Lits(V) -> Seq(Watcher)]
      /\ u[p] = [d.watches[p] EXCEPT ![i] = x]
      /\ \A q \in Lits(V) : q # p => u[q] = d.watches[q]
  BY <1>2, <1>8
<1> HIDE DEF u
<1>10. /\ Len(u[p]) = Len(d.watches[p]) /\ u[p][i] = x
       /\ \A j \in 1 .. Len(d.watches[p]) : j # i => u[p][j] = d.watches[p][j]
  BY <1>2, <1>9
<1>11. Lists(e, V)
  BY <1>2, <1>6, <1>9 DEF Lists
<1>12. /\ DbType(e, V) /\ Len(e.ca) = Len(d.ca) /\ live(e) = live(d) /\ lits(e, cr) = c
       /\ \A r \in 1 .. Len(d.ca) : r # cr => lits(e, r) = lits(d, r)
       /\ \A r \in 1 .. Len(d.ca) : e.ca[r].mark = d.ca[r].mark
  <2>1. Turn(d, e, V, cr, c)
    BY <1>6, <1>11 DEF ca, Turn
  <2>2. TurnKeeps(d, e, V, cr, c)
    BY <1>1, <1>4, <2>1, Turning
  <2>3. QED
    BY <2>2 DEF TurnKeeps
<1>13. \A q \in Lits(V) : /\ Len(u[q]) = Len(d.watches[q])
                          /\ \A j \in 1 .. Len(d.watches[q]) : u[q][j].cref = d.watches[q][j].cref
  BY <1>8, <1>9, <1>10
<1>14. ASSUME NEW q, NEW v, GoodWatcher(d, q, v) PROVE GoodWatcher(e, q, v)
  <2>1. CASE v.cref = cr
    BY <1>1, <1>6, <1>12, <1>14, <2>1 DEF GoodWatcher
  <2>2. CASE v.cref # cr
    BY <1>6, <1>12, <1>14, <2>2 DEF GoodWatcher
  <2>3. QED
    BY <2>1, <2>2
<1>15. WatchInv(e, V)
  <2> SUFFICES ASSUME NEW q \in Lits(V) PROVE GoodList(e, q, u[q])
    BY <1>6 DEF WatchInv
  <2>1. GoodList(d, q, d.watches[q])
    BY <1>1 DEF WatchInv
  <2>2. ASSUME NEW j \in 1 .. Len(u[q]) PROVE GoodWatcher(e, q, u[q][j])
    <3>1. GoodWatcher(e, q, d.watches[q][j])
      BY <1>13, <1>14, <2>1 DEF GoodList
    <3>2. CASE q = p /\ j = i
      <4>1. GoodWatcher(e, p, w)
        BY <1>3, <1>14
      <4>2. w.cref = cr
        BY DEF w
      <4>3. GoodWatcher(e, p, x)
        BY <1>7, <1>8, <1>12, <4>1, <4>2 DEF GoodWatcher
      <4>4. QED
        BY <1>10, <3>2, <4>3
    <3>3. CASE ~(q = p /\ j = i)
      BY <1>9, <1>10, <1>13, <3>1, <3>3
    <3>4. QED
      BY <3>2, <3>3
  <2>3. ASSUME NEW j \in 1 .. Len(u[q]), NEW k \in 1 .. Len(u[q]), u[q][j].cref = u[q][k].cref
        PROVE  j = k
    BY <1>13, <2>1, <2>3 DEF GoodList
  <2>4. QED
    BY <2>2, <2>3 DEF GoodList
<1>16. BothWatched(e)
  <2> SUFFICES ASSUME NEW r \in live(d)
               PROVE  InList(u[neg(lits(e, r)[1])], r) /\ InList(u[neg(lits(e, r)[2])], r)
    BY <1>6, <1>12 DEF BothWatched
  <2>1. r \in 1 .. Len(d.ca)
    BY <1>1, LiveIs
  <2>2. InList(d.watches[neg(lits(d, r)[1])], r) /\ InList(d.watches[neg(lits(d, r)[2])], r)
    BY <1>1 DEF BothWatched
  <2>3. neg(lits(d, r)[1]) \in Lits(V) /\ neg(lits(d, r)[2]) \in Lits(V)
    BY <1>1, <2>1, ClauseIs, LitsAre
  <2>4. \A q \in Lits(V) : InList(d.watches[q], r) => InList(u[q], r)
    BY <1>13 DEF InList
  <2>5. {lits(e, r)[1], lits(e, r)[2]} = {lits(d, r)[1], lits(d, r)[2]}
    BY <1>12, <2>1
  <2>6. QED
    BY <2>2, <2>3, <2>4, <2>5
<1>17. QED
  BY <1>6, <1>12, <1>13, <1>15, <1>16 DEF Shuffled, DbInv, SameCRefs

-----------------------------------------------------------------------------
(* A list without one of its watchers.                                     *)
LEMMA RemoveAtIs ==
    ASSUME NEW T, NEW s \in Seq(T), NEW i \in 1 .. Len(s), NEW t, t = RemoveAt(s, i)
    PROVE  /\ t \in Seq(T) /\ Len(t) = Len(s) - 1
           /\ \A j \in 1 .. Len(s) - 1 : t[j] = IF j < i THEN s[j] ELSE s[j + 1]
<1>1. t = SubSeq(s, 1, i - 1) \o SubSeq(s, i + 1, Len(s))
  BY DEF RemoveAt
<1>2. Len(s) \in Nat /\ i \in Nat /\ i >= 1 /\ i <= Len(s)
  OBVIOUS
<1>3. /\ SubSeq(s, 1, i - 1) \in Seq(T) /\ Len(SubSeq(s, 1, i - 1)) = i - 1
      /\ \A j \in 1 .. i - 1 : SubSeq(s, 1, i - 1)[j] = s[j]
  BY <1>2
<1>4. /\ SubSeq(s, i + 1, Len(s)) \in Seq(T) /\ Len(SubSeq(s, i + 1, Len(s))) = Len(s) - i
      /\ \A j \in 1 .. Len(s) - i : SubSeq(s, i + 1, Len(s))[j] = s[j + i]
  BY <1>2
<1> DEFINE a == SubSeq(s, 1, i - 1)
           b == SubSeq(s, i + 1, Len(s))
<1>5. t = a \o b /\ a \in Seq(T) /\ b \in Seq(T) /\ Len(a) = i - 1 /\ Len(b) = Len(s) - i
      /\ (\A j \in 1 .. i - 1 : a[j] = s[j]) /\ \A j \in 1 .. Len(s) - i : b[j] = s[j + i]
  BY <1>1, <1>3, <1>4
<1> HIDE DEF a, b
<1>6. t \in Seq(T) /\ Len(t) = Len(s) - 1
  BY <1>2, <1>5
<1>7. \A j \in 1 .. i - 1 : t[j] = s[j]
  BY <1>2, <1>5
<1>8. ASSUME NEW j \in i .. Len(s) - 1 PROVE t[j] = s[j + 1]
  <2>1. t[j] = b[j - (i - 1)]
    <3>1. /\ t = a \o b /\ a \in Seq(T) /\ b \in Seq(T)
          /\ Len(a) = i - 1 /\ Len(b) = Len(s) - i
      BY <1>5
    <3>2. j \in Len(a) + 1 .. Len(a) + Len(b)
      BY <1>2, <3>1
    <3>3. t[j] = b[j - Len(a)]
      BY <3>1, <3>2
    <3>4. QED
      BY <3>1, <3>3
  <2>2. j - (i - 1) \in 1 .. Len(s) - i /\ j - (i - 1) + i = j + 1
    BY <1>2
  <2>3. QED
    BY <1>5, <2>1, <2>2
<1>9. QED
  BY <1>2, <1>6, <1>7, <1>8

(* The watchers that remain are those of the other clauses.                *)
ListWithout(d, p, s, i, t) ==
    /\ t \in Seq(Watcher)
    /\ GoodList(d, p, t)
    /\ \A r : InList(t, r) <=> InList(s, r) /\ r # s[i].cref

(* Taking one watcher out of a list leaves a good list of the others.      *)
LEMMA GoodRemoved ==
    ASSUME NEW d, NEW p, NEW s \in Seq(Watcher), GoodList(d, p, s), NEW i \in 1 .. Len(s),
           NEW t, t = RemoveAt(s, i)
    PROVE  ListWithout(d, p, s, i, t)
<1>1. /\ t \in Seq(Watcher) /\ Len(t) = Len(s) - 1
      /\ \A j \in 1 .. Len(s) - 1 : t[j] = IF j < i THEN s[j] ELSE s[j + 1]
  BY RemoveAtIs, Zenon
<1>2. Len(s) \in Nat /\ i \in Nat
  OBVIOUS
<1> DEFINE f == [j \in 1 .. Len(t) |-> IF j < i THEN j ELSE j + 1]
<1>3. \A j \in 1 .. Len(t) : f[j] \in 1 .. Len(s) /\ f[j] # i /\ t[j] = s[f[j]]
  BY <1>1, <1>2
<1>4. \A j, k \in 1 .. Len(t) : f[j] = f[k] => j = k
  BY <1>1, <1>2
<1>5. \A k \in 1 .. Len(s) : k # i => \E j \in 1 .. Len(t) : f[j] = k
  <2> SUFFICES ASSUME NEW k \in 1 .. Len(s), k # i PROVE \E j \in 1 .. Len(t) : f[j] = k
    OBVIOUS
  <2>1. CASE k < i
    BY <1>1, <1>2, <2>1
  <2>2. CASE k > i
    <3>1. k - 1 \in 1 .. Len(t) /\ f[k - 1] = k
      BY <1>1, <1>2, <2>2
    <3>2. QED
      BY <3>1, Zenon
  <2>3. QED
    BY <1>2, <2>1, <2>2
<1> HIDE DEF f
<1>6. \A j, k \in 1 .. Len(s) : s[j].cref = s[k].cref => j = k
  BY DEF GoodList
<1>7. GoodList(d, p, t)
  <2>1. \A j \in 1 .. Len(t) : GoodWatcher(d, p, t[j])
    BY <1>3 DEF GoodList
  <2>2. ASSUME NEW j \in 1 .. Len(t), NEW k \in 1 .. Len(t), t[j].cref = t[k].cref PROVE j = k
    <3>1. f[j] \in 1 .. Len(s) /\ f[k] \in 1 .. Len(s) /\ t[j] = s[f[j]] /\ t[k] = s[f[k]]
      BY <1>3
    <3>2. f[j] = f[k]
      BY <1>6, <2>2, <3>1
    <3>3. QED
      BY <1>4, <3>2
  <2>3. QED
    BY <2>1, <2>2 DEF GoodList
<1>8. ASSUME NEW r PROVE InList(t, r) <=> InList(s, r) /\ r # s[i].cref
  <2>1. ASSUME InList(t, r) PROVE InList(s, r) /\ r # s[i].cref
    <3>1. PICK j \in 1 .. Len(t) : t[j].cref = r
      BY <2>1 DEF InList
    <3>2. QED
      BY <1>3, <1>6, <3>1 DEF InList
  <2>2. ASSUME InList(s, r), r # s[i].cref PROVE InList(t, r)
    <3>1. PICK k \in 1 .. Len(s) : s[k].cref = r
      BY <2>2 DEF InList
    <3>2. PICK j \in 1 .. Len(t) : f[j] = k
      BY <1>5, <2>2, <3>1
    <3>3. QED
      BY <1>3, <3>1, <3>2 DEF InList
  <2>3. QED
    BY <2>1, <2>2
<1>9. QED
  BY <1>1, <1>7, <1>8 DEF ListWithout

(* What becomes of the lists when the watcher i of p moves to q.           *)
WatchMoved(d, e, V, p, i, q, x) ==
    /\ e.watches[p] = RemoveAt(d.watches[p], i)
    /\ e.watches[q] = Append(d.watches[q], x)
    /\ \A r \in Lits(V) : r # p /\ r # q => e.watches[r] = d.watches[r]

WatchTaken(d, e, p, i, cr, b, k, c) ==
    e = [d EXCEPT !.ca[cr].lits = c,
                  !.watches[p] = RemoveAt(@, i),
                  !.watches[neg(b[k])] = Append(@, [cref |-> cr, blocker |-> b[1]])]

(* The clause cr of the watcher i of p, whose second literal is false, is  *)
(* watched by its literal k instead.                                       *)
LEMMA MoveWatchIs ==
    ASSUME NEW V \in SUBSET Nat, NEW d, DbInv(d, V), NEW p \in Lits(V),
           NEW i \in 1 .. Len(d.watches[p]), NEW cr, cr = d.watches[p][i].cref,
           NEW b, Permuted(lits(d, cr), b, V),
           {b[1], b[2]} = {lits(d, cr)[1], lits(d, cr)[2]}, b[2] = neg(p),
           cr \in live(d), NEW k \in 3 .. Len(b), NEW c, c = Swap(b, 2, k),
           NEW e, WatchTaken(d, e, p, i, cr, b, k, c)
    PROVE  /\ Shuffled(d, e, V, cr, c)
           /\ WatchMoved(d, e, V, p, i, neg(b[k]), NewWatcher(cr, b[1]))
<1> DEFINE n == Len(b)
           q == neg(b[k])
           x == NewWatcher(cr, b[1])
           w == d.watches[p][i]
<1>1. /\ DbType(d, V) /\ WatchInv(d, V) /\ BothWatched(d)
      /\ IsLits(b, V) /\ n = Len(lits(d, cr)) /\ ToSet(b) = ToSet(lits(d, cr))
  BY DEF DbInv, Permuted
<1>2. /\ b \in Seq(Lits(V)) /\ n \in Nat /\ 1 \in 1 .. n /\ 2 \in 1 .. n /\ k \in 1 .. n
      /\ k # 1 /\ k # 2
      /\ \A g, h \in 1 .. n : var(b[g]) = var(b[h]) => g = h
  BY <1>1 DEF IsLits
<1>3. Permuted(b, c, V) /\ c[2] = b[k] /\ c[1] = b[1]
  <2>1. SwapOf(b, c, V, 2, k)
    BY <1>1, <1>2, SwapIs
  <2>2. QED
    BY <1>2, <2>1 DEF SwapOf
<1>4. Permuted(lits(d, cr), c, V)
  BY <1>1, <1>3 DEF Permuted
<1>5. /\ b[1] \in Lits(V) /\ b[2] \in Lits(V) /\ b[k] \in Lits(V)
      /\ b[1] # b[2] /\ b[1] # b[k] /\ b[2] # b[k]
  BY <1>2
<1>6. /\ b[1] \in Nat /\ p \in Nat
      /\ q \in Lits(V) /\ neg(b[1]) \in Lits(V)
      /\ neg(q) = b[k] /\ neg(neg(b[1])) = b[1] /\ p = neg(b[2]) /\ neg(p) = b[2]
      /\ q # p /\ neg(b[1]) # p /\ neg(b[1]) # q
  <2>1. b[1] \in Nat /\ b[2] \in Nat /\ b[k] \in Nat /\ p \in Nat
    BY <1>5, LitsAre
  <2>2. neg(neg(b[1])) = b[1] /\ neg(neg(b[k])) = b[k] /\ neg(neg(p)) = p
    BY <2>1, Negation DEF Literal
  <2>3. neg(b[1]) \in Lits(V) /\ neg(b[k]) \in Lits(V)
    BY <1>5, LitsAre
  <2>4. QED
    BY <1>5, <2>1, <2>2, <2>3
<1>7. /\ DOMAIN d = {"ca", "clauses", "learnts", "dirties", "watches", "reason"}
      /\ d.watches \in [Lits(V) -> Seq(Watcher)] /\ DOMAIN d.watches = Lits(V)
      /\ d.ca \in Seq(Entry)
  BY <1>1 DEF DbType
<1>8. GoodList(d, p, d.watches[p]) /\ GoodWatcher(d, p, w) /\ w \in Watcher /\ w.cref = cr
  BY <1>1, <1>7 DEF WatchInv, GoodList
<1>9. cr \in 1 .. Len(d.ca) /\ cr \in Nat
  <2>1. cr \in 1 .. Len(d.ca)
    BY <1>8 DEF GoodWatcher
  <2>2. QED
    BY <1>7, <2>1
<1>10. x \in Watcher /\ x.cref = cr /\ x.blocker = b[1] /\ x = [cref |-> cr, blocker |-> b[1]]
  BY <1>6, <1>9 DEF NewWatcher, Watcher
<1> HIDE DEF q, w, n, x
<1> DEFINE ca == [d.ca EXCEPT ![cr] = [d.ca[cr] EXCEPT !.lits = c]]
           u == [d.watches EXCEPT ![p] = RemoveAt(@, i), ![q] = Append(@, x)]
<1>11. e = [d EXCEPT !.ca = ca, !.watches = u]
  <2>1. e = [d EXCEPT !.ca[cr].lits = c, !.watches[p] = RemoveAt(@, i), !.watches[q] = Append(@, x)]
    BY <1>10, Zenon DEF q, WatchTaken
  <2>2. QED
    BY <1>6, <1>7, <2>1
<1>12. /\ DOMAIN e = DOMAIN d
       /\ e.ca = ca /\ e.watches = u
       /\ e.clauses = d.clauses /\ e.learnts = d.learnts /\ e.reason = d.reason /\ e.dirties = d.dirties
  <2> HIDE DEF ca, u
  <2>1. QED
    BY <1>7, <1>11
<1>13. ListWithout(d, p, d.watches[p], i, RemoveAt(d.watches[p], i))
  BY <1>7, <1>8, GoodRemoved
<1>14. /\ u \in [Lits(V) -> Seq(Watcher)]
       /\ u[p] = RemoveAt(d.watches[p], i)
       /\ u[q] = Append(d.watches[q], x)
       /\ \A r \in Lits(V) : r # p /\ r # q => u[r] = d.watches[r]
  <2>1. Append(d.watches[q], x) \in Seq(Watcher)
    BY <1>6, <1>7, <1>10
  <2>2. RemoveAt(d.watches[p], i) \in Seq(Watcher)
    BY <1>13 DEF ListWithout
  <2>3. QED
    BY <1>6, <1>7, <2>1, <2>2
<1> HIDE DEF u
<1>15. Lists(e, V)
  BY <1>7, <1>12, <1>14 DEF Lists
<1>16. TurnKeeps(d, e, V, cr, c)
  <2>1. Turn(d, e, V, cr, c)
    BY <1>12, <1>15 DEF Turn
  <2>2. IsLits(c, V)
    BY <1>4 DEF Permuted
  <2>3. QED
    BY <1>1, <1>9, <2>1, <2>2, Turning
<1> HIDE DEF ca
<1>17. /\ DbType(e, V) /\ Len(e.ca) = Len(d.ca) /\ live(e) = live(d) /\ lits(e, cr) = c
       /\ \A r \in 1 .. Len(d.ca) : r # cr => lits(e, r) = lits(d, r)
       /\ \A r \in 1 .. Len(d.ca) : e.ca[r].mark = d.ca[r].mark
  BY <1>16 DEF TurnKeeps
<1>18. ASSUME NEW r, NEW v, GoodWatcher(d, r, v), v.cref = cr => neg(r) \in {c[1], c[2]}
       PROVE  GoodWatcher(e, r, v)
  <2>1. CASE v.cref = cr
    BY <1>4, <1>12, <1>17, <1>18, <2>1 DEF GoodWatcher, Permuted
  <2>2. CASE v.cref # cr
    BY <1>12, <1>17, <1>18, <2>2 DEF GoodWatcher
  <2>3. QED
    BY <2>1, <2>2
<1>19. ASSUME NEW r \in Lits(V), r # p, NEW j \in 1 .. Len(d.watches[r])
       PROVE  /\ GoodWatcher(e, r, d.watches[r][j])
              /\ r = q => d.watches[r][j].cref # cr
  <2>1. GoodWatcher(d, r, d.watches[r][j])
    BY <1>1 DEF WatchInv, GoodList
  <2>2. d.watches[r][j].cref = cr => neg(r) \in {b[1], b[2]}
    BY <2>1 DEF GoodWatcher
  <2>3. neg(r) # b[2]
    <3>1. r \in Nat /\ neg(neg(r)) = r
      BY LitsAre, Negation DEF Literal
    <3>2. QED
      BY <1>6, <1>19, <3>1
  <2>4. QED
    BY <1>3, <1>5, <1>6, <1>18, <2>1, <2>2, <2>3
<1>20. WatchInv(e, V)
  <2> SUFFICES ASSUME NEW r \in Lits(V) PROVE GoodList(e, r, u[r])
    BY <1>12 DEF WatchInv
  <2>1. GoodList(d, r, d.watches[r]) /\ d.watches[r] \in Seq(Watcher)
    BY <1>1, <1>7 DEF WatchInv
  <2>2. CASE r = p
    <3> DEFINE t == RemoveAt(d.watches[p], i)
    <3>1. GoodList(d, p, t) /\ t \in Seq(Watcher)
          /\ \A h : InList(t, h) <=> InList(d.watches[p], h) /\ h # d.watches[p][i].cref
      BY <1>13 DEF ListWithout
    <3> HIDE DEF t
    <3>2. ASSUME NEW j \in 1 .. Len(t) PROVE GoodWatcher(e, p, t[j])
      <4>1. InList(t, t[j].cref)
        BY DEF InList
      <4>2. t[j].cref # cr
        BY <3>1, <4>1
      <4>3. GoodWatcher(d, p, t[j])
        BY <3>1 DEF GoodList
      <4>4. QED
        BY <1>18, <4>2, <4>3
    <3>3. GoodList(e, p, t)
      BY <3>1, <3>2 DEF GoodList
    <3>4. QED
      BY <1>14, <2>2, <3>3 DEF t
  <2>3. CASE r = q
    <3>1. GoodList(e, r, d.watches[r])
      BY <1>6, <1>19, <2>1, <2>3 DEF GoodList
    <3>2. ~InList(d.watches[r], x.cref)
      BY <1>6, <1>10, <1>19, <2>3 DEF InList
    <3>3. GoodWatcher(e, q, x)
      <4>1. b[1] \in ToSet(lits(d, cr))
        <5>1. b[1] \in ToSet(b)
          BY <1>2, ToSetIs DEF n
        <5>2. QED
          BY <1>1, <5>1
      <4>2. ~e.ca[cr].mark \/ q \in e.dirties
        BY <1>9, <1>17 DEF live
      <4>3. QED
        BY <1>3, <1>4, <1>6, <1>9, <1>10, <1>17, <4>1, <4>2 DEF GoodWatcher, Permuted
    <3>4. QED
      <4>1. GoodList(e, r, Append(d.watches[r], x))
        BY <1>10, <2>1, <2>3, <3>1, <3>2, <3>3, GoodAppend
      <4>2. QED
        BY <1>14, <2>3, <4>1
  <2>4. CASE r # p /\ r # q
    BY <1>14, <1>19, <2>1, <2>4 DEF GoodList
  <2>5. QED
    BY <2>2, <2>3, <2>4
<1>21. BothWatched(e)
  <2> SUFFICES ASSUME NEW r \in live(d)
               PROVE  InList(u[neg(lits(e, r)[1])], r) /\ InList(u[neg(lits(e, r)[2])], r)
    BY <1>12, <1>17 DEF BothWatched
  <2>1. r \in 1 .. Len(d.ca)
    BY <1>1, LiveIs
  <2>2. InList(d.watches[neg(lits(d, r)[1])], r) /\ InList(d.watches[neg(lits(d, r)[2])], r)
    BY <1>1 DEF BothWatched
  <2>3. neg(lits(d, r)[1]) \in Lits(V) /\ neg(lits(d, r)[2]) \in Lits(V)
    BY <1>1, <2>1, ClauseIs, LitsAre
  <2>4. ASSUME NEW h \in Lits(V), InList(d.watches[h], r), h = p => r # cr PROVE InList(u[h], r)
    <3>0. d.watches[h] \in Seq(Watcher) /\ GoodList(d, h, d.watches[h])
      BY <1>1, <1>7 DEF WatchInv
    <3>1. CASE h = p
      BY <1>8, <1>13, <1>14, <2>4, <3>1 DEF w, ListWithout
    <3>2. CASE h = q
      <4>1. InList(d.watches[q], r) /\ d.watches[q] \in Seq(Watcher)
        BY <2>4, <3>0, <3>2
      <4>2. InList(Append(d.watches[q], x), r)
        BY <1>10, <4>1, InAppend
      <4>3. QED
        BY <1>14, <3>2, <4>2
    <3>3. CASE h # p /\ h # q
      BY <1>14, <2>4, <3>3
    <3>4. QED
      BY <3>1, <3>2, <3>3
  <2>5. CASE r # cr
    BY <1>17, <2>1, <2>2, <2>3, <2>4, <2>5
  <2>6. CASE r = cr
    <3>1. InList(d.watches[neg(b[1])], cr)
      BY <2>2, <2>6
    <3>2. InList(u[neg(b[1])], cr)
      BY <1>6, <2>4, <2>6, <3>1
    <3>3. InList(u[q], cr)
      <4>1. u[q] = Append(d.watches[q], x) /\ x.cref = cr
        BY <1>10, <1>14, Zenon
      <4>2. d.watches[q] \in Seq(Watcher)
        BY <1>6, <1>7
      <4>3. QED
        BY <1>10, <4>1, <4>2, InAppend
    <3>4. lits(e, r)[1] = b[1] /\ lits(e, r)[2] = b[k]
      BY <1>3, <1>17, <2>6
    <3>5. QED
      BY <2>6, <3>2, <3>3, <3>4 DEF q
  <2>7. QED
    BY <2>5, <2>6
<1>22. Shuffled(d, e, V, cr, c)
  BY <1>12, <1>17, <1>20, <1>21 DEF Shuffled, DbInv
<1>23. WatchMoved(d, e, V, p, i, q, x)
  BY <1>12, <1>14 DEF WatchMoved
<1>24. QED
  BY <1>22, <1>23 DEF q, x

-----------------------------------------------------------------------------
(* What depends on the clauses and the lists only.                         *)
SameStore(d, e) ==
    /\ e.ca = d.ca
    /\ e.clauses = d.clauses
    /\ e.learnts = d.learnts
    /\ e.dirties = d.dirties

(* A variable gets a reason.                                               *)
Reasoned(d, e, V, v, r) ==
    /\ DbInv(e, V)
    /\ SameStore(d, e)
    /\ e.watches = d.watches
    /\ e.reason[v] = r
    /\ \A u \in V : u # v => e.reason[u] = d.reason[u]

(* Setting the reason of one variable touches nothing else of the          *)
(* database.                                                               *)
LEMMA ReasonIs ==
    ASSUME NEW V, NEW d, DbInv(d, V), NEW v \in V, NEW r \in Int,
           NEW e, e = [d EXCEPT !.reason[v] = r]
    PROVE  Reasoned(d, e, V, v, r)
<1>1. DbType(d, V) /\ WatchInv(d, V) /\ BothWatched(d)
  BY DEF DbInv
<1>2. /\ DOMAIN d = {"ca", "clauses", "learnts", "dirties", "watches", "reason"}
      /\ d.reason \in [V -> Int]
  BY <1>1 DEF DbType
<1> DEFINE u == [d.reason EXCEPT ![v] = r]
<1>3. u \in [V -> Int] /\ u[v] = r /\ \A x \in V : x # v => u[x] = d.reason[x]
  BY <1>2
<1>4. e = [d EXCEPT !.reason = u]
  BY Zenon
<1> HIDE DEF u
<1>5. /\ DOMAIN e = DOMAIN d
      /\ e.ca = d.ca /\ e.clauses = d.clauses /\ e.learnts = d.learnts /\ e.dirties = d.dirties
      /\ e.watches = d.watches /\ e.reason = u
  BY <1>2, <1>4
<1>6. live(e) = live(d) /\ \A r1 : lits(e, r1) = lits(d, r1)
  BY <1>5 DEF live, lits
<1>7. DbType(e, V)
  BY <1>1, <1>3, <1>5, <1>6 DEF DbType
<1>8. WatchInv(e, V)
  <2>1. \A p, w : GoodWatcher(d, p, w) <=> GoodWatcher(e, p, w)
    BY <1>5, <1>6 DEF GoodWatcher
  <2>2. \A p, s : GoodList(d, p, s) <=> GoodList(e, p, s)
    BY <2>1 DEF GoodList
  <2>3. QED
    BY <1>1, <1>5, <2>2 DEF WatchInv
<1>9. BothWatched(e)
  BY <1>1, <1>5, <1>6 DEF BothWatched
<1>10. QED
  BY <1>3, <1>5, <1>7, <1>8, <1>9 DEF Reasoned, DbInv, SameStore

(* A database whose clauses, lists and dirty literals are those of d.      *)
Grew(d, V, W) ==
    [d EXCEPT !.watches = [p \in Lits(W) |-> IF var(p) \in W \ V THEN <<>> ELSE @[p]],
              !.reason = [v \in W |-> IF v \in W \ V THEN CRef_Undef ELSE @[v]]]

(* The variables W instead of V: the new ones have no watcher, no reason.  *)
MoreVars(d, e, V, W) ==
    /\ DbInv(e, W)
    /\ SameStore(d, e)
    /\ \A p \in Lits(V) : e.watches[p] = d.watches[p]
    /\ \A v \in V : e.reason[v] = d.reason[v]
    /\ \A v \in W \ V : e.reason[v] = CRef_Undef

(* The literals of a clause belong to the larger set of variables too.     *)
LEMMA MoreLits ==
    ASSUME NEW W \in SUBSET Nat, NEW V \in SUBSET W
    PROVE  /\ Lits(V) \subseteq Lits(W)
           /\ \A c : IsLits(c, V) => IsLits(c, W)
<1>1. Lits(V) \subseteq Lits(W)
  BY DEF Lits
<1>2. ASSUME NEW c, IsLits(c, V) PROVE IsLits(c, W)
  BY <1>1, <1>2 DEF IsLits
<1>3. QED
  BY <1>1, <1>2

(* newVar gives a variable two empty watch lists and no reason; the        *)
(* invariant of the database holds for the larger set.                     *)
LEMMA NewVarsIs ==
    ASSUME NEW W \in SUBSET Nat, NEW V \in SUBSET W, NEW d, DbInv(d, V), NEW e, e = Grew(d, V, W)
    PROVE  MoreVars(d, e, V, W)
<1>1. DbType(d, V) /\ WatchInv(d, V) /\ BothWatched(d)
  BY DEF DbInv
<1>2. /\ DOMAIN d = {"ca", "clauses", "learnts", "dirties", "watches", "reason"}
      /\ d.reason \in [V -> Int]
      /\ d.watches \in [Lits(V) -> Seq(Watcher)]
  BY <1>1 DEF DbType
<1> DEFINE u == [p \in Lits(W) |-> IF var(p) \in W \ V THEN <<>> ELSE d.watches[p]]
           z == [v \in W |-> IF v \in W \ V THEN CRef_Undef ELSE d.reason[v]]
<1>3. e = [d EXCEPT !.watches = u, !.reason = z]
  BY Zenon DEF Grew
<1>4. /\ \A p \in Lits(W) : p \in Lits(V) \/ var(p) \in W \ V
      /\ \A p \in Lits(V) : p \in Lits(W) /\ var(p) \notin W \ V
      /\ \A p \in Lits(W) : var(p) \in W \ V => p \notin Lits(V)
  <2>1. /\ \A p : p \in Lits(W) <=> p \in Nat /\ var(p) \in W
        /\ \A p : p \in Lits(V) <=> p \in Nat /\ var(p) \in V
    <3>1. V \in SUBSET Nat
      OBVIOUS
    <3>2. \A p : p \in Lits(W) <=> p \in Nat /\ var(p) \in W
      BY LitsAre
    <3>3. \A p : p \in Lits(V) <=> p \in Nat /\ var(p) \in V
      BY <3>1, LitsAre
    <3>4. QED
      BY <3>2, <3>3
  <2>2. QED
    BY <2>1
<1>5. /\ \A p \in Lits(V) : u[p] = d.watches[p]
      /\ \A p \in Lits(W) : p \notin Lits(V) => u[p] = <<>>
  BY <1>4
<1>6. u \in [Lits(W) -> Seq(Watcher)]
  <2>1. \A p \in Lits(V) : u[p] \in Seq(Watcher)
    BY <1>2, <1>5
  <2>2. <<>> \in Seq(Watcher)
    OBVIOUS
  <2>3. \A p \in Lits(W) : u[p] \in Seq(Watcher)
    BY <1>5, <2>1, <2>2, Zenon
  <2>4. QED
    BY <2>3
<1>7. /\ z \in [W -> Int]
      /\ \A v \in V : z[v] = d.reason[v]
      /\ \A v \in W \ V : z[v] = CRef_Undef
  <2>1. \A v \in V : v \in W /\ z[v] = d.reason[v]
    OBVIOUS
  <2>2. \A v \in W \ V : z[v] = CRef_Undef
    OBVIOUS
  <2>3. \A v \in W : z[v] \in Int
    <3>1. \A v \in V : d.reason[v] \in Int
      BY <1>2
    <3>2. CRef_Undef \in Int
      BY DEF CRef_Undef
    <3>3. QED
      BY <2>1, <2>2, <3>1, <3>2
  <2>4. z \in [W -> Int]
    BY <2>3
  <2>5. QED
    BY <2>1, <2>2, <2>4
<1> HIDE DEF u, z
<1>8. /\ DOMAIN e = DOMAIN d
      /\ e.ca = d.ca /\ e.clauses = d.clauses /\ e.learnts = d.learnts /\ e.dirties = d.dirties
      /\ e.watches = u /\ e.reason = z
  BY <1>2, <1>3
<1>9. live(e) = live(d) /\ \A r : lits(e, r) = lits(d, r)
  BY <1>8 DEF live, lits
<1>10. Lits(V) \subseteq Lits(W) /\ \A c : IsLits(c, V) => IsLits(c, W)
  BY MoreLits
<1>11. DbType(e, W)
  BY <1>1, <1>6, <1>7, <1>8, <1>9, <1>10 DEF DbType
<1>12. WatchInv(e, W)
  <2> SUFFICES ASSUME NEW p \in Lits(W) PROVE GoodList(e, p, u[p])
    BY <1>8 DEF WatchInv
  <2>1. CASE p \in Lits(V)
    <3>1. GoodList(d, p, d.watches[p])
      BY <1>1, <2>1 DEF WatchInv
    <3>2. GoodList(e, p, d.watches[p])
      BY <1>8, <1>9, <3>1 DEF GoodList, GoodWatcher
    <3>3. QED
      BY <1>5, <2>1, <3>2
  <2>2. CASE p \notin Lits(V)
    <3>1. u[p] = <<>>
      BY <1>5, <2>2
    <3>2. QED
      BY <3>1 DEF GoodList
  <2>3. QED
    BY <2>1, <2>2
<1>13. BothWatched(e)
  <2> SUFFICES ASSUME NEW r \in live(d)
               PROVE  InList(u[neg(lits(d, r)[1])], r) /\ InList(u[neg(lits(d, r)[2])], r)
    BY <1>8, <1>9 DEF BothWatched
  <2>1. neg(lits(d, r)[1]) \in Lits(V) /\ neg(lits(d, r)[2]) \in Lits(V)
    BY <1>1, LiveIs, ClauseIs, LitsAre
  <2>2. InList(d.watches[neg(lits(d, r)[1])], r) /\ InList(d.watches[neg(lits(d, r)[2])], r)
    BY <1>1 DEF BothWatched
  <2>3. QED
    BY <1>5, <2>1, <2>2
<1>14. QED
  BY <1>5, <1>7, <1>8, <1>11, <1>12, <1>13 DEF MoreVars, DbInv, SameStore

(* No clause at all.                                                       *)
LEMMA EmptyDb ==
    ASSUME NEW V, NEW d,
           d = [ca |-> <<>>, clauses |-> {}, learnts |-> {}, dirties |-> {},
                watches |-> [p \in Lits(V) |-> <<>>],
                reason |-> [v \in V |-> CRef_Undef]]
    PROVE  DbInv(d, V) /\ live(d) = {}
<1>1. /\ d.ca = <<>> /\ d.clauses = {} /\ d.learnts = {} /\ d.dirties = {}
      /\ d.watches = [p \in Lits(V) |-> <<>>]
      /\ d.reason = [v \in V |-> CRef_Undef]
      /\ DOMAIN d = {"ca", "clauses", "learnts", "dirties", "watches", "reason"}
  OBVIOUS
<1>2. DOMAIN d.ca = {}
  BY <1>1
<1>3. live(d) = {}
  BY <1>2 DEF live
<1>4. d.watches \in [Lits(V) -> Seq(Watcher)] /\ \A p \in Lits(V) : d.watches[p] = <<>>
  BY <1>1
<1>5. d.reason \in [V -> Int]
  BY <1>1 DEF CRef_Undef
<1>0. d.ca \in Seq(Entry) /\ Len(d.ca) = 0 /\ 1 .. Len(d.ca) = {}
  <2>1. <<>> \in Seq(Entry) /\ Len(<<>>) = 0 /\ 1 .. 0 = {}
    OBVIOUS
  <2>2. QED
    BY <1>1, <2>1, Zenon
<1>6. DbType(d, V)
  BY <1>0, <1>1, <1>3, <1>4, <1>5 DEF DbType
<1>7. WatchInv(d, V)
  BY <1>4 DEF WatchInv, GoodList
<1>8. BothWatched(d)
  BY <1>3 DEF BothWatched
<1>9. QED
  BY <1>3, <1>6, <1>7, <1>8 DEF DbInv

-----------------------------------------------------------------------------
(* The ring buffer of minisat/mtl/Queue.h is a queue: in every state its   *)
(* operations can reach, insert appends to what it holds and pop takes the *)
(* head off, also when the buffer wraps around or grows.                   *)

Ring(buf, f, e) == [buf |-> buf, first |-> f, end |-> e]

Put(buf, e, x) == [buf EXCEPT ![e + 1] = x]

(* The buffers of elements of S with their positions inside them.          *)
IsRing(S, buf, f, e) ==
    /\ buf \in Seq(S \cup {Fresh})
    /\ f \in Nat /\ e \in Nat /\ f < Len(buf) /\ e < Len(buf)

Rings(S) ==
    {q \in [buf : Seq(S \cup {Fresh}), first : Nat, end : Nat] :
        IsRing(S, q.buf, q.first, q.end)}

-----------------------------------------------------------------------------
(* The operations in terms of the positions. *)

(* The number of elements, with end before or behind first.                 *)
LEMMA SizeOf ==
    ASSUME NEW S, NEW buf, NEW f, NEW e, IsRing(S, buf, f, e)
    PROVE  /\ e >= f => size(Ring(buf, f, e)) = e - f
           /\ e < f => size(Ring(buf, f, e)) = e - f + Len(buf)
  BY DEF IsRing, Ring, size, cap

(* The cell of an element, before or behind the end of the buffer.          *)
LEMMA NthOf ==
    ASSUME NEW S, NEW buf, NEW f, NEW e, IsRing(S, buf, f, e), NEW i \in Nat
    PROVE  /\ f + i < Len(buf) => nth(Ring(buf, f, e), i) = buf[f + i + 1]
           /\ f + i >= Len(buf) => nth(Ring(buf, f, e), i) = buf[f + i - Len(buf) + 1]
  BY DEF IsRing, Ring, nth, cell, cap

(* Each cell holds an element, or nothing yet.                              *)
LEMMA NthType ==
    ASSUME NEW S, NEW buf, NEW f, NEW e, IsRing(S, buf, f, e), NEW i \in Nat, i < Len(buf)
    PROVE  nth(Ring(buf, f, e), i) \in S \cup {Fresh}
<1>1. PICK n : /\ n = Len(buf) /\ n \in Nat /\ f \in Nat /\ f < n
              /\ buf \in Seq(S \cup {Fresh})
  BY DEF IsRing
<1>2. CASE f + i < n
  <2>1. nth(Ring(buf, f, e), i) = buf[f + i + 1] /\ f + i + 1 \in 1 .. n
    BY <1>1, <1>2, NthOf
  <2>2. QED
    BY <1>1, <2>1
<1>3. CASE f + i >= n
  <2>1. nth(Ring(buf, f, e), i) = buf[f + i - n + 1] /\ f + i - n + 1 \in 1 .. n
    BY <1>1, <1>3, NthOf
  <2>2. QED
    BY <1>1, <2>1
<1>4. QED
  BY <1>1, <1>2, <1>3

(* pop moves first by a cell, around the end of the buffer.                 *)
LEMMA PopOf ==
    ASSUME NEW S, NEW buf, NEW f, NEW e, IsRing(S, buf, f, e)
    PROVE  /\ f + 1 = Len(buf) => pop(Ring(buf, f, e)) = Ring(buf, 0, e)
           /\ f + 1 # Len(buf) => pop(Ring(buf, f, e)) = Ring(buf, f + 1, e)
           /\ peek(Ring(buf, f, e)) = buf[f + 1]
  BY DEF IsRing, Ring, pop, wrap, peek, cell, cap

(* insert fills the cell at end and moves end, around the end of the buffer. *)
LEMMA StoredOf ==
    ASSUME NEW S, NEW buf, NEW f, NEW e, IsRing(S, buf, f, e), NEW x
    PROVE  /\ e + 1 = Len(buf) => Stored(Ring(buf, f, e), x) = Ring(Put(buf, e, x), f, 0)
           /\ e + 1 # Len(buf) => Stored(Ring(buf, f, e), x) = Ring(Put(buf, e, x), f, e + 1)
  BY DEF IsRing, Ring, Put, Stored, wrap, cap

(* A queue is the ring of its three members.                                *)
LEMMA RingOf ==
    ASSUME NEW S, NEW q \in Rings(S)
    PROVE  /\ q = Ring(q.buf, q.first, q.end)
           /\ IsRing(S, q.buf, q.first, q.end)
  BY DEF Rings, Ring

(* The ring of a buffer and two positions in it is a queue.                 *)
LEMMA OfRing ==
    ASSUME NEW S, NEW buf, NEW f, NEW e, IsRing(S, buf, f, e)
    PROVE  Ring(buf, f, e) \in Rings(S)
  BY DEF Rings, Ring, IsRing

-----------------------------------------------------------------------------
(* pop: one element less, the others move up by one.                       *)
LEMMA PopElements ==
    ASSUME NEW S, NEW q \in Rings(S), size(q) > 0
    PROVE  /\ pop(q) \in Rings(S)
           /\ size(pop(q)) = size(q) - 1
           /\ \A i \in Nat : i < size(q) - 1 => nth(pop(q), i) = nth(q, i + 1)
           /\ peek(q) = nth(q, 0)
<1>1. PICK buf, f, e : q = Ring(buf, f, e) /\ IsRing(S, buf, f, e)
  BY RingOf
<1>2. PICK n : n = Len(buf) /\ n \in Nat /\ f \in Nat /\ e \in Nat /\ f < n /\ e < n
  BY <1>1 DEF IsRing
<1>3. /\ e >= f => size(q) = e - f
      /\ e < f => size(q) = e - f + n
  BY <1>1, <1>2, SizeOf
<1>4. PICK g \in Nat : /\ pop(q) = Ring(buf, g, e) /\ IsRing(S, buf, g, e)
                       /\ (f + 1 = n => g = 0) /\ (f + 1 # n => g = f + 1)
  <2>1. CASE f + 1 = n
    <3>1. pop(q) = Ring(buf, 0, e)
      BY <1>1, <1>2, <2>1, PopOf
    <3>2. IsRing(S, buf, 0, e)
      BY <1>1, <1>2 DEF IsRing
    <3>3. QED
      BY <2>1, <3>1, <3>2
  <2>2. CASE f + 1 # n
    <3>1. pop(q) = Ring(buf, f + 1, e)
      BY <1>1, <1>2, <2>2, PopOf
    <3>2. IsRing(S, buf, f + 1, e) /\ f + 1 \in Nat
      BY <1>1, <1>2, <2>2 DEF IsRing
    <3>3. QED
      BY <2>2, <3>1, <3>2
  <2>3. QED
    BY <2>1, <2>2
<1>5. /\ e >= g => size(pop(q)) = e - g
      /\ e < g => size(pop(q)) = e - g + n
  BY <1>2, <1>4, SizeOf
<1>6. size(pop(q)) = size(q) - 1
  BY <1>2, <1>3, <1>4, <1>5
<1>7. ASSUME NEW i \in Nat, i < size(q) - 1 PROVE nth(pop(q), i) = nth(q, i + 1)
  <2>1. /\ f + (i + 1) < n => nth(q, i + 1) = buf[f + (i + 1) + 1]
        /\ f + (i + 1) >= n => nth(q, i + 1) = buf[f + (i + 1) - n + 1]
    <3>1. i + 1 \in Nat
      OBVIOUS
    <3>2. /\ f + (i + 1) < Len(buf) => nth(Ring(buf, f, e), i + 1) = buf[f + (i + 1) + 1]
          /\ f + (i + 1) >= Len(buf) =>
                 nth(Ring(buf, f, e), i + 1) = buf[f + (i + 1) - Len(buf) + 1]
      BY <1>1, <3>1, NthOf
    <3>3. QED
      BY <1>1, <1>2, <3>2
  <2>2. /\ g + i < n => nth(pop(q), i) = buf[g + i + 1]
        /\ g + i >= n => nth(pop(q), i) = buf[g + i - n + 1]
    <3>1. /\ g + i < Len(buf) => nth(Ring(buf, g, e), i) = buf[g + i + 1]
          /\ g + i >= Len(buf) => nth(Ring(buf, g, e), i) = buf[g + i - Len(buf) + 1]
      BY <1>4, NthOf
    <3>2. QED
      BY <1>2, <1>4, <3>1
  <2>3. CASE f + 1 = n
    <3>1. g + i < n /\ f + (i + 1) >= n /\ g + i + 1 = f + (i + 1) - n + 1
      BY <1>2, <1>3, <1>4, <1>7, <2>3
    <3>2. QED
      BY <2>1, <2>2, <3>1
  <2>4. CASE f + 1 # n
    <3>1. /\ g + i = f + (i + 1) /\ g + i + 1 = f + (i + 1) + 1
          /\ g + i - n + 1 = f + (i + 1) - n + 1
      BY <1>2, <1>4, <2>4
    <3>2. f + (i + 1) < n \/ f + (i + 1) >= n
      BY <1>2
    <3>3. QED
      BY <2>1, <2>2, <3>1, <3>2
  <2>5. QED
    BY <2>3, <2>4
<1>8. peek(q) = nth(q, 0)
  <2>1. f + 0 = f /\ f + 0 + 1 = f + 1
    BY <1>2
  <2>2. QED
    BY <1>1, <1>2, <2>1, PopOf, NthOf
<1>9. QED
  BY <1>4, <1>6, <1>7, <1>8, OfRing

-----------------------------------------------------------------------------
(* The buffer that has just become full is copied from its first element   *)
(* on into a larger one, where the cell after the last element is free.    *)
LEMMA GrownOf ==
    ASSUME NEW S, NEW buf, NEW f, IsRing(S, buf, f, f)
    PROVE  \E big : /\ Grown(Ring(buf, f, f)) = Ring(big, 0, Len(buf))
                    /\ IsRing(S, big, 0, Len(buf))
                    /\ \A i \in Nat : i < Len(buf) => big[i + 1] = nth(Ring(buf, f, f), i)
<1> DEFINE q == Ring(buf, f, f)
           n == Len(buf)
           k == (n * 3 + 1) \div 2
           big == [i \in 1 .. k |-> IF i <= n THEN nth(q, i - 1) ELSE Fresh]
<1>1. n \in Nat /\ f \in Nat /\ f < n /\ buf \in Seq(S \cup {Fresh})
  BY DEF IsRing
<1>2. k \in Nat /\ n < k
  BY <1>1
<1>3. cap(q) = n
  BY DEF cap, Ring
<1>4. Grown(q) = Ring(big, 0, n)
  BY <1>3 DEF Grown, Ring
<1> HIDE DEF q
<1>5. ASSUME NEW i \in 1 .. n PROVE nth(q, i - 1) \in S \cup {Fresh}
  <2>1. i - 1 \in Nat /\ i - 1 < Len(buf)
    BY <1>1
  <2>2. QED
    BY <2>1, NthType DEF q
<1> HIDE DEF k, n
<1>6. big \in Seq(S \cup {Fresh}) /\ Len(big) = k
  <2>1. big \in [1 .. k -> S \cup {Fresh}]
    BY <1>1, <1>2, <1>5
  <2>2. QED
    BY <1>2, <2>1
<1>7. \A i \in Nat : i < n => big[i + 1] = nth(q, i)
  <2>1. SUFFICES ASSUME NEW i \in Nat, i < n PROVE big[i + 1] = nth(q, i)
    OBVIOUS
  <2>2. i + 1 \in 1 .. k /\ i + 1 <= n /\ (i + 1) - 1 = i
    BY <1>1, <1>2, <2>1
  <2>3. QED
    BY <2>2
<1> HIDE DEF big
<1>8. IsRing(S, big, 0, n)
  BY <1>1, <1>2, <1>6 DEF IsRing
<1>9. QED
  BY <1>4, <1>7, <1>8 DEF n, q

(* The buffer after the store. It is full if the positions have met.       *)
LEMMA StoredElements ==
    ASSUME NEW S, NEW buf, NEW f, NEW e, IsRing(S, buf, f, e), NEW x \in S,
           NEW n, n = size(Ring(buf, f, e))
    PROVE  \E new, g :
              /\ Stored(Ring(buf, f, e), x) = Ring(new, f, g)
              /\ IsRing(S, new, f, g)
              /\ n \in Nat /\ Len(new) = Len(buf)
              /\ f = g => n + 1 = Len(buf)
              /\ f # g => size(Ring(new, f, g)) = n + 1
              /\ \A i \in Nat : i < n => nth(Ring(new, f, g), i) = nth(Ring(buf, f, e), i)
              /\ nth(Ring(new, f, g), n) = x
<1> DEFINE new == Put(buf, e, x)
<1>1. PICK len : /\ len = Len(buf) /\ len \in Nat
                /\ f \in Nat /\ e \in Nat /\ f < len /\ e < len
                /\ buf \in Seq(S \cup {Fresh})
  BY DEF IsRing
<1>2. /\ new \in Seq(S \cup {Fresh}) /\ Len(new) = len
      /\ new[e + 1] = x
      /\ \A j \in 1 .. len : j # e + 1 => new[j] = buf[j]
  BY <1>1 DEF Put
<1>3. PICK g \in Nat : /\ g < len /\ (e + 1 = len => g = 0) /\ (e + 1 # len => g = e + 1)
                       /\ Stored(Ring(buf, f, e), x) = Ring(new, f, g)
  <2>1. CASE e + 1 = len
    <3>1. Stored(Ring(buf, f, e), x) = Ring(new, f, 0)
      BY <1>1, <2>1, StoredOf
    <3>2. QED
      BY <1>1, <2>1, <3>1
  <2>2. CASE e + 1 # len
    <3>1. Stored(Ring(buf, f, e), x) = Ring(new, f, e + 1)
      BY <1>1, <2>2, StoredOf
    <3>2. e + 1 \in Nat /\ e + 1 < len
      BY <1>1, <2>2
    <3>3. QED
      BY <2>2, <3>1, <3>2
  <2>3. QED
    BY <2>1, <2>2
<1> HIDE DEF new
<1>4. IsRing(S, new, f, g)
  BY <1>1, <1>2, <1>3 DEF IsRing
<1>5. (e >= f => n = e - f) /\ (e < f => n = e - f + len)
  BY <1>1, SizeOf
<1>6. /\ g >= f => size(Ring(new, f, g)) = g - f
      /\ g < f => size(Ring(new, f, g)) = g - f + len
  BY <1>2, <1>4, SizeOf
<1>7. n \in Nat /\ n < len /\ (f = g => n + 1 = len) /\ (f # g => size(Ring(new, f, g)) = n + 1)
  BY <1>1, <1>3, <1>5, <1>6
<1>8. ASSUME NEW i \in Nat
      PROVE  /\ f + i < len => nth(Ring(new, f, g), i) = new[f + i + 1]
             /\ f + i >= len => nth(Ring(new, f, g), i) = new[f + i - len + 1]
             /\ f + i < len => nth(Ring(buf, f, e), i) = buf[f + i + 1]
             /\ f + i >= len => nth(Ring(buf, f, e), i) = buf[f + i - len + 1]
  <2>1. /\ f + i < Len(new) => nth(Ring(new, f, g), i) = new[f + i + 1]
        /\ f + i >= Len(new) => nth(Ring(new, f, g), i) = new[f + i - Len(new) + 1]
    BY <1>4, NthOf
  <2>2. /\ f + i < Len(buf) => nth(Ring(buf, f, e), i) = buf[f + i + 1]
        /\ f + i >= Len(buf) => nth(Ring(buf, f, e), i) = buf[f + i - Len(buf) + 1]
    BY NthOf
  <2>3. QED
    BY <1>1, <1>2, <2>1, <2>2
<1>9. ASSUME NEW i \in Nat, i < n PROVE nth(Ring(new, f, g), i) = nth(Ring(buf, f, e), i)
  <2>1. CASE f + i < len
    <3>1. f + i + 1 \in 1 .. len /\ f + i + 1 # e + 1
      BY <1>1, <1>5, <1>9, <2>1
    <3>2. QED
      BY <1>2, <1>8, <2>1, <3>1
  <2>2. CASE f + i >= len
    <3>1. f + i - len + 1 \in 1 .. len /\ f + i - len + 1 # e + 1
      BY <1>1, <1>5, <1>7, <1>9, <2>2
    <3>2. QED
      BY <1>2, <1>8, <2>2, <3>1
  <2>3. QED
    BY <1>1, <2>1, <2>2
<1>10. nth(Ring(new, f, g), n) = x
  <2>1. CASE e >= f
    <3>1. f + n < len /\ f + n + 1 = e + 1
      BY <1>1, <1>5, <2>1
    <3>2. QED
      BY <1>2, <1>7, <1>8, <3>1
  <2>2. CASE e < f
    <3>1. f + n >= len /\ f + n - len + 1 = e + 1
      BY <1>1, <1>5, <2>2
    <3>2. QED
      BY <1>2, <1>7, <1>8, <3>1
  <2>3. QED
    BY <1>1, <2>1, <2>2
<1>11. QED
  BY <1>1, <1>2, <1>3, <1>4, <1>7, <1>9, <1>10

(* insert: the elements stay where they are, and x is the last.            *)
LEMMA InsertElements ==
    ASSUME NEW S, NEW q \in Rings(S), NEW x \in S
    PROVE  /\ insert(q, x) \in Rings(S)
           /\ size(q) \in Nat /\ size(insert(q, x)) = size(q) + 1
           /\ \A i \in Nat : i < size(q) => nth(insert(q, x), i) = nth(q, i)
           /\ nth(insert(q, x), size(q)) = x
<1>1. PICK buf, f, e : q = Ring(buf, f, e) /\ IsRing(S, buf, f, e)
  BY RingOf
<1>2. PICK n : n = size(q)
  OBVIOUS
<1>3. PICK new, g : /\ Stored(q, x) = Ring(new, f, g)
                    /\ IsRing(S, new, f, g)
                    /\ n \in Nat /\ Len(new) = Len(buf)
                    /\ f = g => n + 1 = Len(buf)
                    /\ f # g => size(Ring(new, f, g)) = n + 1
                    /\ \A i \in Nat : i < n => nth(Ring(new, f, g), i) = nth(q, i)
                    /\ nth(Ring(new, f, g), n) = x
  BY <1>1, <1>2, StoredElements
<1>4. insert(q, x) = IF f = g THEN Grown(Ring(new, f, g)) ELSE Ring(new, f, g)
  <2>1. Ring(new, f, g).first = f /\ Ring(new, f, g).end = g
    BY DEF Ring
  <2>2. QED
    BY <1>3, <2>1 DEF insert
<1>5. CASE f # g
  BY <1>2, <1>3, <1>4, <1>5, OfRing
<1>6. CASE f = g
  <2>1. PICK big : /\ insert(q, x) = Ring(big, 0, n + 1)
                   /\ IsRing(S, big, 0, n + 1)
                   /\ \A i \in Nat : i < n + 1 => big[i + 1] = nth(Ring(new, f, g), i)
    BY <1>3, <1>4, <1>6, GrownOf
  <2>2. n + 1 < Len(big) /\ Len(big) \in Nat
    BY <2>1 DEF IsRing
  <2>3. size(insert(q, x)) = n + 1
    <3>1. n + 1 >= 0 /\ (n + 1) - 0 = n + 1
      BY <1>3
    <3>2. QED
      BY <2>1, <3>1, SizeOf
  <2>4. ASSUME NEW i \in Nat, i < n + 1 PROVE nth(insert(q, x), i) = nth(Ring(new, f, g), i)
    <3>1. 0 + i < Len(big) /\ 0 + i + 1 = i + 1
      BY <1>3, <2>2, <2>4
    <3>2. nth(insert(q, x), i) = big[i + 1]
      BY <2>1, <3>1, NthOf
    <3>3. QED
      BY <2>1, <2>4, <3>2
  <2>5. n < n + 1 /\ \A i \in Nat : i < n => i < n + 1
    BY <1>3
  <2>6. QED
    BY <1>2, <1>3, <2>1, <2>3, <2>4, <2>5, OfRing
<1>7. QED
  BY <1>5, <1>6

-----------------------------------------------------------------------------
(* The queue of the constructor, and that of clear, is empty.              *)
LEMMA EmptyRing == ASSUME NEW S PROVE Empty \in Rings(S) /\ Contents(Empty) = <<>>
<1>1. <<Fresh>> \in Seq(S \cup {Fresh}) /\ Len(<<Fresh>>) = 1
  OBVIOUS
<1>2. Empty = Ring(<<Fresh>>, 0, 0) /\ IsRing(S, <<Fresh>>, 0, 0)
  BY <1>1 DEF Empty, Ring, IsRing
<1>3. size(Empty) = 0
  BY DEF Empty, size
<1>4. Contents(Empty) = <<>>
  BY <1>3 DEF Contents
<1>5. QED
  BY <1>2, <1>4, OfRing

(* What the queue holds is a sequence.                                     *)
LEMMA ContentsType ==
    ASSUME NEW S, NEW q \in Rings(S)
    PROVE  /\ Contents(q) \in Seq(S \cup {Fresh})
           /\ size(q) \in Nat /\ Len(Contents(q)) = size(q)
<1>1. PICK buf, f, e : q = Ring(buf, f, e) /\ IsRing(S, buf, f, e)
  BY RingOf
<1>2. PICK n : n = size(q) /\ n \in Nat /\ n <= Len(buf) /\ Len(buf) \in Nat
  <2>1. PICK len : /\ len = Len(buf) /\ len \in Nat
                  /\ f \in Nat /\ e \in Nat /\ f < len /\ e < len
    BY <1>1 DEF IsRing
  <2>2. /\ e >= f => size(q) = e - f
        /\ e < f => size(q) = e - f + len
    BY <1>1, <2>1, SizeOf
  <2>3. size(q) \in Nat /\ size(q) <= len
    BY <2>1, <2>2
  <2>4. QED
    BY <2>1, <2>3
<1>3. ASSUME NEW i \in 1 .. n PROVE nth(q, i - 1) \in S \cup {Fresh}
  <2>1. i - 1 \in Nat /\ i - 1 < Len(buf)
    BY <1>2
  <2>2. QED
    BY <1>1, <2>1, NthType
<1>4. Contents(q) = [i \in 1 .. n |-> nth(q, i - 1)]
  BY <1>2 DEF Contents
<1>5. QED
  BY <1>2, <1>3, <1>4

(* pop and peek take the oldest element: first in, first out.              *)
THEOREM PopTakesTheHead ==
    ASSUME NEW S, NEW q \in Rings(S), size(q) > 0
    PROVE  /\ pop(q) \in Rings(S)
           /\ peek(q) = Head(Contents(q))
           /\ Contents(pop(q)) = Tail(Contents(q))
<1>1. PICK n : n = size(q) /\ n \in Nat /\ n > 0
  <2>1. size(q) \in Nat
    BY ContentsType
  <2>2. QED
    BY <2>1
<1>2. /\ Contents(q) \in Seq(S \cup {Fresh}) /\ Len(Contents(q)) = n
      /\ Contents(q) = [i \in 1 .. n |-> nth(q, i - 1)]
  BY <1>1, ContentsType DEF Contents
<1>3. /\ Contents(pop(q)) \in Seq(S \cup {Fresh}) /\ Len(Contents(pop(q))) = n - 1
      /\ Contents(pop(q)) = [i \in 1 .. n - 1 |-> nth(pop(q), i - 1)]
  BY <1>1, PopElements, ContentsType DEF Contents
<1>4. /\ Tail(Contents(q)) \in Seq(S \cup {Fresh})
      /\ Len(Tail(Contents(q))) = n - 1
      /\ \A i \in 1 .. n - 1 : Tail(Contents(q))[i] = Contents(q)[i + 1]
  <2>1. Contents(q) # <<>>
    BY <1>1, <1>2
  <2>2. QED
    BY <1>2, <2>1, HeadTailProperties
<1>5. ASSUME NEW i \in 1 .. n - 1 PROVE Contents(pop(q))[i] = Tail(Contents(q))[i]
  <2>1. i - 1 \in Nat /\ i - 1 < n - 1 /\ (i - 1) + 1 = i /\ (i + 1) - 1 = i /\ i + 1 \in 1 .. n
    BY <1>1
  <2>2. nth(pop(q), i - 1) = nth(q, i)
    BY <1>1, <2>1, PopElements
  <2>3. Contents(pop(q))[i] = nth(pop(q), i - 1)
    BY <1>3
  <2>4. Contents(q)[i + 1] = nth(q, i)
    <3>1. Contents(q)[i + 1] = nth(q, (i + 1) - 1)
      BY <1>2, <2>1
    <3>2. QED
      BY <2>1, <3>1
  <2>5. QED
    BY <1>4, <2>2, <2>3, <2>4
<1>6. Contents(pop(q)) = Tail(Contents(q))
  BY <1>3, <1>4, <1>5, SeqEqual
<1>7. peek(q) = Head(Contents(q))
  <2>1. 1 \in 1 .. n /\ 1 - 1 = 0
    BY <1>1
  <2>2. Head(Contents(q)) = nth(q, 0)
    BY <1>2, <2>1
  <2>3. QED
    BY <2>2, PopElements
<1>8. QED
  BY <1>6, <1>7, PopElements

(* insert appends, whether the buffer wraps around, grows or neither.      *)
THEOREM InsertAppends ==
    ASSUME NEW S, NEW q \in Rings(S), NEW x \in S
    PROVE  /\ insert(q, x) \in Rings(S)
           /\ Contents(insert(q, x)) = Append(Contents(q), x)
<1>1. PICK n : n = size(q) /\ n \in Nat
  BY ContentsType
<1>2. /\ Contents(q) \in Seq(S \cup {Fresh}) /\ Len(Contents(q)) = n
      /\ Contents(q) = [i \in 1 .. n |-> nth(q, i - 1)]
  BY <1>1, ContentsType DEF Contents
<1>3. Contents(insert(q, x)) = [i \in 1 .. n + 1 |-> nth(insert(q, x), i - 1)]
  BY <1>1, InsertElements DEF Contents
<1>4. ASSUME NEW i \in 1 .. n PROVE nth(insert(q, x), i - 1) = Contents(q)[i]
  <2>1. i - 1 \in Nat /\ i - 1 < n
    BY <1>1
  <2>2. QED
    BY <1>1, <1>2, <2>1, InsertElements
<1>5. nth(insert(q, x), (n + 1) - 1) = x
  BY <1>1, InsertElements
<1>6. Append(Contents(q), x) = [i \in 1 .. n + 1 |-> IF i = n + 1 THEN x ELSE Contents(q)[i]]
  BY <1>1, <1>2
<1>7. ASSUME NEW i \in 1 .. n + 1
      PROVE  nth(insert(q, x), i - 1) = IF i = n + 1 THEN x ELSE Contents(q)[i]
  <2>1. CASE i = n + 1
    BY <1>5, <2>1
  <2>2. CASE i # n + 1
    <3>1. i \in 1 .. n
      BY <1>1, <2>2
    <3>2. QED
      BY <1>4, <2>2, <3>1
  <2>3. QED
    BY <2>1, <2>2
<1>8. QED
  BY <1>3, <1>6, <1>7, InsertElements

=============================================================================
