--------------------------- MODULE CountingLemmas ---------------------------
(***************************************************************************)
(* Facts the proofs about counting share: induction over numbers, folds    *)
(* over finite sets, the cardinality of a set that grows, powers, the      *)
(* values of bit vectors, sums and products, what sequences hold, and how  *)
(* an entropy grows.                                                       *)
(***************************************************************************)
EXTENDS Entropy, BitVectors, Order, FiniteSetTheorems, SequenceTheorems, TLAPS

(* A set of numbers that is not empty has a least element: the form of     *)
(* induction the proofs use, on the numbers for which a formula fails.     *)
LEMMA Least ==
    ASSUME NEW T \in SUBSET Nat, T # {}
    PROVE  \E x \in T : \A y \in T : x <= y
<1> DEFINE R == {s \in Nat \X Nat : s[1] < s[2]}
<1>1. IsWellFoundedOn(R, Nat)
  BY NatLessThanWellFounded DEF OpToRel
<1>2. PICK x \in T : \A y \in T : <<y, x>> \notin R
  BY <1>1, WFMin
<1>3. ASSUME NEW y \in T PROVE x <= y
  <2>1. ~(y < x)
    BY <1>2
  <2>2. QED
    BY <2>1
<1>4. QED
  BY <1>3

(* Induction, with a set in the place of a formula.                        *)
LEMMA UpFromZero ==
    ASSUME NEW G, 0 \in G, \A n \in Nat : n \in G => n + 1 \in G
    PROVE  \A n \in Nat : n \in G
<1> DEFINE Bad == {n \in Nat : n \notin G}
<1> SUFFICES ASSUME Bad # {} PROVE FALSE
  OBVIOUS
<1>1. PICK n \in Bad : \A k \in Bad : n <= k
  BY Least
<1>2. n # 0
  OBVIOUS
<1>3. n - 1 \in Nat /\ n - 1 \notin Bad
  BY <1>1, <1>2
<1>4. n - 1 + 1 \in G
  BY <1>3
<1>5. QED
  BY <1>1, <1>4

(* A function over the subsets of a finite set may be defined by removing  *)
(* one chosen element after the other: the fold of the community modules.  *)
(* A fold over a finite set, as the community modules define it: g[s] takes *)
(* the element c[s] out of s and combines it with what the rest gives.     *)
FoldInput(D, T, base, c, step) ==
    /\ IsFiniteSet(D)
    /\ base \in T
    /\ \A s \in SUBSET D : s # {} => c[s] \in s
    /\ step \in [D -> [T -> T]]

IsFold(g, D, T, base, c, step) ==
    /\ g \in [SUBSET D -> T]
    /\ \A s \in SUBSET D :
           g[s] = IF s = {} THEN base ELSE step[c[s]][g[s \ {c[s]}]]

(* Every fold whose steps stay within a type exists.                       *)
LEMMA FoldExists ==
    ASSUME NEW D, NEW T, NEW base, NEW c, NEW step, FoldInput(D, T, base, c, step)
    PROVE  \E g : IsFold(g, D, T, base, c, step)
<1> USE DEF FoldInput
<1> DEFINE F(g, s) == IF s = {} THEN base ELSE step[c[s]][g[s \ {c[s]}]]
           Q(n) == \E g \in [SUBSET D -> T] : \A s \in SUBSET D :
                       Cardinality(s) <= n => g[s] = F(g, s)
           Bad == {n \in Nat : ~Q(n)}
<1>1. \A s \in SUBSET D : IsFiniteSet(s) /\ Cardinality(s) \in Nat
  BY FS_Subset, FS_CardinalityType
<1>2. Q(0)
  <2> DEFINE g == [s \in SUBSET D |-> base]
  <2>1. g \in [SUBSET D -> T]
    OBVIOUS
  <2>2. ASSUME NEW s \in SUBSET D, Cardinality(s) <= 0 PROVE g[s] = F(g, s)
    <3>1. s = {}
      BY <1>1, <2>2, FS_EmptySet
    <3>2. QED
      BY <3>1
  <2>3. QED
    BY <2>1, <2>2
<1>3. ASSUME NEW n \in Nat, Q(n) PROVE Q(n + 1)
  <2>1. PICK g \in [SUBSET D -> T] : \A s \in SUBSET D : Cardinality(s) <= n => g[s] = F(g, s)
    BY <1>3
  <2> DEFINE h == [s \in SUBSET D |-> F(g, s)]
  <2>2. h \in [SUBSET D -> T]
    <3>1. ASSUME NEW s \in SUBSET D PROVE F(g, s) \in T
      <4>1. CASE s = {}
        BY <4>1
      <4>2. CASE s # {}
        <5>1. c[s] \in D /\ s \ {c[s]} \in SUBSET D
          BY <4>2
        <5>2. g[s \ {c[s]}] \in T
          BY <5>1
        <5>3. QED
          BY <4>2, <5>1, <5>2
      <4>3. QED
        BY <4>1, <4>2
    <3>2. QED
      BY <3>1
  <2>3. ASSUME NEW s \in SUBSET D, Cardinality(s) <= n + 1 PROVE h[s] = F(h, s)
    <3>1. CASE s = {}
      BY <3>1
    <3>2. CASE s # {}
      <4> DEFINE r == s \ {c[s]}
      <4>1. c[s] \in s /\ r \in SUBSET D
        BY <3>2
      <4>2. Cardinality(r) = Cardinality(s) - 1
        BY <1>1, <4>1, FS_RemoveElement
      <4>3. Cardinality(r) <= n
        BY <1>1, <2>3, <4>2
      <4>4. h[r] = g[r]
        BY <2>1, <4>1, <4>3
      <4>5. QED
        BY <3>2, <4>4
    <3>3. QED
      BY <3>1, <3>2
  <2>4. QED
    BY <2>2, <2>3
<1> HIDE DEF Q
<1>4. \A n \in Nat : Q(n)
  <2> SUFFICES ASSUME Bad # {} PROVE FALSE
    OBVIOUS
  <2>1. PICK n \in Bad : \A k \in Bad : n <= k
    BY Least
  <2>2. n # 0
    BY <1>2
  <2>3. n - 1 \in Nat /\ n - 1 \notin Bad
    BY <2>1, <2>2
  <2>4. Q(n - 1 + 1)
    BY <1>3, <2>3
  <2>5. QED
    BY <2>1, <2>4
<1>5. Q(Cardinality(D))
  BY <1>1, <1>4
<1>6. QED
  <2>1. PICK g \in [SUBSET D -> T] : \A s \in SUBSET D : Cardinality(s) <= Cardinality(D) => g[s] = F(g, s)
    BY <1>5 DEF Q
  <2>2. \A s \in SUBSET D : Cardinality(s) <= Cardinality(D)
    BY FS_Subset
  <2>3. QED
    BY <2>1, <2>2 DEF IsFold

-----------------------------------------------------------------------------
(* One more element of a finite set.                                       *)
LEMMA OneMore ==
    ASSUME NEW S, IsFiniteSet(S), NEW x, x \notin S, NEW P
    PROVE  /\ IsFiniteSet(S \cup {x})
           /\ Cardinality((S \cup {x}) \cap P) =
                  Cardinality(S \cap P) + (IF x \in P THEN 1 ELSE 0)
<1>1. IsFiniteSet(S \cup {x})
  BY FS_AddElement
<1>2. IsFiniteSet(S \cap P) /\ Cardinality(S \cap P) \in Nat
  BY FS_Subset, FS_CardinalityType
<1>3. CASE x \in P
  <2> DEFINE T == S \cap P
  <2>1. (S \cup {x}) \cap P = T \cup {x} /\ x \notin T
    BY <1>3
  <2> HIDE DEF T
  <2>2. Cardinality(T \cup {x}) = Cardinality(T) + 1
    BY <1>2, <2>1, FS_AddElement DEF T
  <2>3. QED
    BY <1>1, <1>3, <2>1, <2>2 DEF T
<1>4. CASE x \notin P
  <2>1. Cardinality((S \cup {x}) \cap P) = Cardinality(S \cap P)
    <3>1. (S \cup {x}) \cap P = S \cap P
      BY <1>4
    <3>2. QED
      BY <3>1, Zenon
  <2>2. QED
    BY <1>1, <1>2, <1>4, <2>1
<1>5. QED
  BY <1>3, <1>4

(* What the element adds to the number of those that are in P.             *)
LEMMA OneMoreInside ==
    ASSUME NEW S, IsFiniteSet(S), NEW x, x \notin S, NEW P, x \in P
    PROVE  Cardinality((S \cup {x}) \cap P) = Cardinality(S \cap P) + 1
<1> DEFINE T == S \cap P
<1>1. (S \cup {x}) \cap P = T \cup {x} /\ x \notin T
  OBVIOUS
<1>2. IsFiniteSet(T)
  BY FS_Subset
<1> HIDE DEF T
<1>3. Cardinality(T \cup {x}) = Cardinality(T) + 1
  BY <1>1, <1>2, FS_AddElement
<1>4. QED
  BY <1>1, <1>3 DEF T

(* Nor does it add anything from outside.                                  *)
LEMMA OneMoreOutside ==
    ASSUME NEW S, NEW x, NEW P, x \notin P
    PROVE  Cardinality((S \cup {x}) \cap P) = Cardinality(S \cap P)
<1>1. (S \cup {x}) \cap P = S \cap P
  OBVIOUS
<1>2. QED
  BY <1>1, Zenon

-----------------------------------------------------------------------------
ArePowers(f, v) ==
    /\ f \in [Nat -> Nat]
    /\ \A n \in Nat : f[n] = IF n = 0 THEN 1 ELSE v * f[n - 1]

(* The powers of a number exist as a recursive function.                   *)
LEMMA PowersExist ==
    ASSUME NEW v \in Nat
    PROVE  \E f : ArePowers(f, v)
<1> DEFINE Right(g, n) == g \in [Nat -> Nat] /\ \A k \in 0 .. n : g[k] = IF k = 0 THEN 1 ELSE v * g[k - 1]
           Q(n) == \E g : Right(g, n)
           Bad == {n \in Nat : ~Q(n)}
<1>1. Q(0)
  <2> DEFINE g == [n \in Nat |-> 1]
  <2>1. Right(g, 0)
    OBVIOUS
  <2>2. QED
    BY <2>1
<1>2. ASSUME NEW n \in Nat, Q(n) PROVE Q(n + 1)
  <2>1. PICK g : Right(g, n)
    BY <1>2
  <2> DEFINE h == [k \in Nat |-> IF k = n + 1 THEN v * g[n] ELSE g[k]]
  <2>2. h \in [Nat -> Nat]
    BY <2>1
  <2>3. ASSUME NEW k \in 0 .. n + 1 PROVE h[k] = IF k = 0 THEN 1 ELSE v * h[k - 1]
    <3>1. CASE k = n + 1
      BY <2>1, <3>1
    <3>2. CASE k # n + 1
      <4>1. k \in 0 .. n
        BY <2>3, <3>2
      <4>2. k = 0 \/ k - 1 \in 0 .. n
        BY <4>1
      <4>3. QED
        BY <2>1, <4>1, <4>2
    <3>3. QED
      BY <3>1, <3>2
  <2>4. QED
    BY <2>2, <2>3
<1> HIDE DEF Q
<1>3. \A n \in Nat : Q(n)
  <2> SUFFICES ASSUME Bad # {} PROVE FALSE
    OBVIOUS
  <2>1. PICK n \in Bad : \A k \in Bad : n <= k
    BY Least
  <2>2. n # 0
    BY <1>1
  <2>3. n - 1 \in Nat /\ n - 1 \notin Bad
    BY <2>1, <2>2
  <2>4. Q(n - 1 + 1)
    BY <1>2, <2>3
  <2>5. QED
    BY <2>1, <2>4
<1>4. ASSUME NEW g, NEW h, NEW n \in Nat, Right(g, n), Right(h, n) PROVE \A k \in 0 .. n : g[k] = h[k]
  <2> DEFINE B == {k \in 0 .. n : g[k] # h[k]}
  <2> SUFFICES ASSUME B # {} PROVE FALSE
    OBVIOUS
  <2>0. B \in SUBSET Nat
    OBVIOUS
  <2> HIDE DEF B
  <2>1. PICK k \in B : \A j \in B : k <= j
    BY <2>0, Least
  <2> USE DEF B
  <2>2. k # 0
    BY <1>4
  <2>3. k - 1 \in 0 .. n /\ k - 1 \notin B
    BY <2>1, <2>2
  <2>4. QED
    BY <1>4, <2>1, <2>2, <2>3
<1> DEFINE G(n) == CHOOSE g : Right(g, n)
           f == [n \in Nat |-> G(n)[n]]
<1>5. ASSUME NEW n \in Nat PROVE Right(G(n), n)
  BY <1>3 DEF Q
<1> HIDE DEF G, Right
<1>6. f \in [Nat -> Nat]
  BY <1>5 DEF Right
<1>7. ASSUME NEW n \in Nat PROVE f[n] = IF n = 0 THEN 1 ELSE v * f[n - 1]
  <2>1. CASE n = 0
    <3>1. n \in 0 .. n
      OBVIOUS
    <3>2. G(n)[n] = 1
      BY <1>5, <2>1, <3>1 DEF Right
    <3>3. QED
      BY <2>1, <3>2
  <2>2. CASE n # 0
    <3>1. n - 1 \in Nat /\ n - 1 \in 0 .. n - 1
      BY <2>2
    <3>2. Right(G(n), n - 1) /\ Right(G(n - 1), n - 1)
      BY <1>5, <3>1 DEF Right
    <3>3. G(n)[n - 1] = G(n - 1)[n - 1]
      BY <1>4, <3>1, <3>2
    <3>4. G(n)[n] = v * G(n)[n - 1]
      BY <1>5, <2>2 DEF Right
    <3>5. QED
      BY <2>2, <3>1, <3>3, <3>4
  <2>3. QED
    BY <2>1, <2>2
<1>8. QED
  BY <1>6, <1>7 DEF ArePowers

(* twoTo is the function its definition says, and its values are numbers.  *)
LEMMA TwoTo ==
    /\ twoTo \in [Nat -> Nat]
    /\ twoTo[0] = 1
    /\ \A n \in Nat : twoTo[n + 1] = 2 * twoTo[n]
<1> DEFINE Eq(f) == f = [n \in Nat |-> IF n = 0 THEN 1 ELSE 2 * f[n - 1]]
<1>1. \E f : Eq(f)
  <2>1. PICK f : ArePowers(f, 2)
    BY PowersExist
  <2>2. Eq(f)
    BY <2>1 DEF ArePowers
  <2>3. QED
    BY <2>2
<1>2. Eq(twoTo)
  BY <1>1, Zenon DEF twoTo
<1>3. \A n \in Nat : twoTo[n] = IF n = 0 THEN 1 ELSE 2 * twoTo[n - 1]
  BY <1>2
<1> DEFINE Bad == {n \in Nat : twoTo[n] \notin Nat}
<1>4. Bad = {}
  <2> SUFFICES ASSUME Bad # {} PROVE FALSE
    OBVIOUS
  <2>1. PICK n \in Bad : \A k \in Bad : n <= k
    BY Least
  <2>2. n # 0
    BY <1>3
  <2>3. n - 1 \in Nat /\ n - 1 \notin Bad
    BY <2>1, <2>2
  <2>4. QED
    BY <1>3, <2>1, <2>2, <2>3
<1>5. twoTo = [n \in Nat |-> twoTo[n]]
  BY <1>2
<1>6. twoTo[0] = 1
  BY <1>3
<1>7. ASSUME NEW n \in Nat PROVE twoTo[n + 1] = 2 * twoTo[n]
  BY <1>3
<1>8. QED
  BY <1>4, <1>5, <1>6, <1>7

(* Power is the power.                                                     *)
LEMMA PowerIs ==
    ASSUME NEW v \in Nat
    PROVE  /\ Power(v, 0) = 1
           /\ \A n \in Nat : Power(v, n) \in Nat /\ Power(v, n + 1) = v * Power(v, n)
<1> DEFINE Eq(f) == f = [k \in Nat |-> IF k = 0 THEN 1 ELSE v * f[k - 1]]
           p == CHOOSE f : Eq(f)
<1>1. PICK f : ArePowers(f, v)
  BY PowersExist
<1>2. Eq(f)
  BY <1>1 DEF ArePowers
<1>3. Eq(p)
  BY <1>2, Zenon
<1>4. \A n : Power(v, n) = p[n]
  BY Zenon DEF Power
<1> HIDE DEF p
<1>5. \A n \in Nat : p[n] = IF n = 0 THEN 1 ELSE v * p[n - 1]
  BY <1>3
<1>6. p[0] = 1 /\ \A n \in Nat : p[n + 1] = v * p[n]
  <2>1. p[0] = 1
    BY <1>5
  <2>2. ASSUME NEW n \in Nat PROVE p[n + 1] = v * p[n]
    <3>1. n + 1 \in Nat /\ n + 1 # 0 /\ n + 1 - 1 = n
      OBVIOUS
    <3>2. QED
      BY <1>5, <3>1
  <2>3. QED
    BY <2>1, <2>2
<1> DEFINE Bad == {n \in Nat : p[n] \notin Nat}
<1>7. Bad = {}
  <2> SUFFICES ASSUME Bad # {} PROVE FALSE
    OBVIOUS
  <2>1. PICK n \in Bad : \A k \in Bad : n <= k
    BY Least
  <2>2. n # 0
    BY <1>6
  <2>3. n - 1 \in Nat /\ n - 1 \notin Bad
    BY <2>1, <2>2
  <2>4. p[n] = v * p[n - 1] /\ p[n - 1] \in Nat
    BY <1>5, <2>1, <2>2, <2>3
  <2>5. v * p[n - 1] \in Nat
    BY <2>4
  <2>6. QED
    BY <2>1, <2>4, <2>5
<1>8. QED
  BY <1>4, <1>6, <1>7

(* What FoldRight takes first is the first position that is left.          *)
LEMMA MinIsLeast ==
    ASSUME NEW T \in SUBSET Nat, T # {}
    PROVE  Min(T) \in T /\ \A y \in T : Min(T) <= y
  BY Least DEF Min

BitOf(m, lits, k) == IF m[lits[k]] THEN 1 ELSE 0

(* val[k] is the value of the bits of m from position k on. *)
IsBinary(val, m, lits) ==
    /\ val \in [1 .. Len(lits) + 1 -> Nat]
    /\ interpret(m, lits) = val[1]
    /\ val[Len(lits) + 1] = 0
    /\ \A k \in 1 .. Len(lits) : val[k] = 2 * val[k + 1] + BitOf(m, lits, k)

(* interpret adds up the bits, the first one being the lowest.             *)
LEMMA InterpretIsBinary ==
    ASSUME NEW V, NEW m \in [V -> BOOLEAN], NEW lits \in Seq(V)
    PROVE  \E val : IsBinary(val, m, lits)
<1> DEFINE D == DOMAIN lits
           bit(k) == BitOf(m, lits, k)
           Eq(g) == g = [s \in SUBSET D |->
                           IF s = {} THEN 0 ELSE 2 * g[s \ {Min(s)}] + bit(Min(s))]
           iter == CHOOSE g : Eq(g)
<1>1. D = 1 .. Len(lits) /\ Len(lits) \in Nat /\ IsFiniteSet(D)
  BY FS_Interval
<1>2. \A k \in D : bit(k) \in Nat
  BY DEF BitOf
<1>3. \A s \in SUBSET D : s # {} => Min(s) \in s /\ \A y \in s : Min(s) <= y
  BY <1>1, MinIsLeast
<1>4. interpret(m, lits) = iter[D]
  BY Zenon DEF interpret, FoldRight, MapThenFoldSet, BitOf
<1> HIDE DEF D, bit
<1>5. \E g \in [SUBSET D -> Nat] : Eq(g)
  <2> DEFINE c == [s \in SUBSET D |-> Min(s)]
             step == [k \in D |-> [n \in Nat |-> 2 * n + bit(k)]]
  <2>1. step \in [D -> [Nat -> Nat]]
    BY <1>2
  <2>2. \A s \in SUBSET D : s # {} => c[s] \in s
    BY <1>3
  <2>3. \A k \in D, n \in Nat : step[k][n] = 2 * n + bit(k)
    OBVIOUS
  <2>4. \A s \in SUBSET D : c[s] = Min(s)
    OBVIOUS
  <2>5. PICK g : IsFold(g, D, Nat, 0, c, step)
    <3>1. FoldInput(D, Nat, 0, c, step)
      BY <1>1, <2>1, <2>2 DEF FoldInput
    <3> HIDE DEF D, c, step
    <3>2. QED
      BY <3>1, FoldExists
  <2> HIDE DEF c, step
  <2>6. ASSUME NEW s \in SUBSET D
        PROVE  g[s] = IF s = {} THEN 0 ELSE 2 * g[s \ {Min(s)}] + bit(Min(s))
    <3>1. CASE s = {}
      BY <2>5, <3>1 DEF IsFold
    <3>2. CASE s # {}
      <4>1. Min(s) \in D /\ s \ {Min(s)} \in SUBSET D
        BY <1>3, <3>2
      <4>2. g[s \ {Min(s)}] \in Nat
        BY <2>5, <4>1 DEF IsFold
      <4>3. QED
        BY <2>3, <2>4, <2>5, <3>2, <4>1, <4>2 DEF IsFold
    <3>3. QED
      BY <3>1, <3>2
  <2>7. QED
    BY <2>5, <2>6 DEF IsFold
<1>6. Eq(iter)
  BY <1>5, Zenon
<1>7. \A s \in SUBSET D :
          iter[s] = IF s = {} THEN 0 ELSE 2 * iter[s \ {Min(s)}] + bit(Min(s))
  BY <1>6
<1> HIDE DEF iter, Eq
<1> DEFINE val == [k \in 1 .. Len(lits) + 1 |-> iter[k .. Len(lits)]]
<1>8. \A k \in 1 .. Len(lits) + 1 : k .. Len(lits) \in SUBSET D
  BY <1>1
<1>9. ASSUME NEW k \in 1 .. Len(lits)
      PROVE  val[k] = 2 * val[k + 1] + bit(k)
  <2> DEFINE s == k .. Len(lits)
  <2>1. k \in s /\ \A y \in s : k <= y
    BY <1>1
  <2>2. s # {} /\ s \in SUBSET D /\ Min(s) = k
    <3>1. s # {} /\ s \in SUBSET D
      BY <1>8, <2>1
    <3> HIDE DEF s
    <3>2. Min(s) \in s /\ Min(s) <= k /\ k <= Min(s)
      BY <1>3, <2>1, <3>1
    <3>3. Min(s) \in D
      BY <3>1, <3>2
    <3>4. QED
      BY <1>1, <3>1, <3>2, <3>3
  <2>3. s \ {k} = k + 1 .. Len(lits)
    BY <1>1
  <2>4. iter[s] = 2 * iter[s \ {k}] + bit(k)
    BY <1>7, <2>2
  <2>5. k \in 1 .. Len(lits) + 1 /\ k + 1 \in 1 .. Len(lits) + 1
    BY <1>1
  <2>6. QED
    BY <2>3, <2>4, <2>5
<1>10. val[Len(lits) + 1] = 0
  <2>1. Len(lits) + 1 .. Len(lits) = {} /\ Len(lits) + 1 \in 1 .. Len(lits) + 1
    BY <1>1
  <2>2. QED
    BY <1>7, <2>1
<1>11. val[1] = iter[D] /\ 1 \in 1 .. Len(lits) + 1
  BY <1>1
<1>12. val \in [1 .. Len(lits) + 1 -> Nat]
  <2> DEFINE B == {j \in 0 .. Len(lits) : val[Len(lits) + 1 - j] \notin Nat}
  <2>1. B = {}
    <3> SUFFICES ASSUME B # {} PROVE FALSE
      OBVIOUS
    <3>1. B \in SUBSET Nat
      OBVIOUS
    <3> HIDE DEF B
    <3>2. PICK j \in B : \A i \in B : j <= i
      BY <3>1, Least
    <3>3. j \in 0 .. Len(lits) /\ val[Len(lits) + 1 - j] \notin Nat
      BY <3>2 DEF B
    <3>4. j # 0
      BY <1>1, <1>10, <3>3
    <3> DEFINE k == Len(lits) + 1 - j
    <3>5. k \in 1 .. Len(lits) /\ j - 1 \in 0 .. Len(lits) /\ k + 1 = Len(lits) + 1 - (j - 1)
      BY <1>1, <3>3, <3>4
    <3> HIDE DEF k, val
    <3>6. val[k + 1] \in Nat
      BY <3>2, <3>5 DEF B
    <3>7. val[k] = 2 * val[k + 1] + bit(k) /\ bit(k) \in Nat
      BY <1>1, <1>2, <1>9, <3>5
    <3>8. QED
      BY <3>3, <3>6, <3>7 DEF k
  <2>2. ASSUME NEW k \in 1 .. Len(lits) + 1 PROVE val[k] \in Nat
    <3>1. Len(lits) + 1 - k \in 0 .. Len(lits) /\ k = Len(lits) + 1 - (Len(lits) + 1 - k)
      BY <1>1
    <3> HIDE DEF val
    <3>2. QED
      BY <2>1, <3>1
  <2>3. QED
    BY <2>2
<1>13. QED
  BY <1>4, <1>9, <1>10, <1>11, <1>12 DEF bit, IsBinary

(* A vector of n bits has a value below 2^n.                               *)
LEMMA InterpretRange ==
    ASSUME NEW V, NEW m \in [V -> BOOLEAN], NEW lits \in Seq(V)
    PROVE  interpret(m, lits) \in Nat /\ interpret(m, lits) < twoTo[Len(lits)]
<1>1. PICK n \in Nat : n = Len(lits)
  OBVIOUS
<1>2. PICK val : IsBinary(val, m, lits)
  BY InterpretIsBinary
<1>0. /\ val \in [1 .. n + 1 -> Nat] /\ interpret(m, lits) = val[1] /\ val[n + 1] = 0
      /\ \A k \in 1 .. n : val[k] = 2 * val[k + 1] + BitOf(m, lits, k)
  BY <1>1, <1>2 DEF IsBinary
<1> DEFINE B == {j \in 0 .. n : ~(val[n + 1 - j] < twoTo[j])}
<1>3. B = {}
  <2> SUFFICES ASSUME B # {} PROVE FALSE
    OBVIOUS
  <2>1. B \in SUBSET Nat
    OBVIOUS
  <2> HIDE DEF B
  <2>2. PICK j \in B : \A i \in B : j <= i
    BY <2>1, Least
  <2>3. j \in 0 .. n /\ ~(val[n + 1 - j] < twoTo[j])
    BY <2>2 DEF B
  <2>4. j # 0
    <3>1. SUFFICES ASSUME j = 0 PROVE val[n + 1 - j] < twoTo[j]
      BY <2>3
    <3>2. n + 1 - j = n + 1
      BY <3>1
    <3>3. QED
      BY <1>0, <3>1, <3>2, TwoTo
  <2> DEFINE k == n + 1 - j
  <2>5. /\ k \in 1 .. n /\ k \in 1 .. n + 1 /\ k + 1 \in 1 .. n + 1
        /\ j - 1 \in 0 .. n /\ j - 1 \in Nat /\ j - 1 + 1 = j /\ k + 1 = n + 1 - (j - 1)
    BY <2>3, <2>4
  <2> HIDE DEF k
  <2>6. val[k + 1] < twoTo[j - 1]
    BY <2>2, <2>5 DEF B
  <2>7. val[k] = 2 * val[k + 1] + BitOf(m, lits, k) /\ BitOf(m, lits, k) \in {0, 1}
    BY <1>0, <2>5 DEF BitOf
  <2>8. twoTo[j] = 2 * twoTo[j - 1] /\ twoTo[j - 1] \in Nat
    BY <2>5, TwoTo
  <2>9. val[k + 1] \in Nat /\ val[k] \in Nat
    BY <1>0, <2>5
  <2>10. val[k] < twoTo[j]
    BY <2>6, <2>7, <2>8, <2>9
  <2>11. QED
    BY <2>3, <2>10 DEF k
<1>4. val[1] < twoTo[n] /\ val[1] \in Nat
  <2>1. n \in 0 .. n /\ n + 1 - n = 1 /\ 1 \in 1 .. n + 1
    BY <1>1
  <2>2. QED
    BY <1>0, <1>3, <2>1
<1>5. QED
  BY <1>0, <1>1, <1>4

(* Vectors with the same value have the same bits.                         *)
LEMMA InterpretInjective ==
    ASSUME NEW V, NEW m \in [V -> BOOLEAN], NEW l \in [V -> BOOLEAN], NEW lits \in Seq(V),
           interpret(m, lits) = interpret(l, lits)
    PROVE  \A k \in 1 .. Len(lits) : m[lits[k]] = l[lits[k]]
<1>1. PICK n \in Nat : n = Len(lits)
  OBVIOUS
<1> DEFINE bit(a, k) == BitOf(a, lits, k)
<1>2. PICK x : IsBinary(x, m, lits)
  BY InterpretIsBinary
<1>3. PICK y : IsBinary(y, l, lits)
  BY InterpretIsBinary
<1>0. /\ x \in [1 .. n + 1 -> Nat] /\ y \in [1 .. n + 1 -> Nat] /\ x[1] = y[1]
      /\ \A k \in 1 .. n : x[k] = 2 * x[k + 1] + bit(m, k)
      /\ \A k \in 1 .. n : y[k] = 2 * y[k + 1] + bit(l, k)
  BY <1>1, <1>2, <1>3 DEF IsBinary
<1>4. \A k \in 1 .. n : m[lits[k]] \in BOOLEAN /\ l[lits[k]] \in BOOLEAN
  <2>1. \A k \in 1 .. n : lits[k] \in V
    BY <1>1
  <2>2. QED
    BY <2>1
<1>5. ASSUME NEW k \in 1 .. n, x[k] = y[k]
      PROVE  x[k + 1] = y[k + 1] /\ m[lits[k]] = l[lits[k]]
  <2>1. x[k + 1] \in Nat /\ y[k + 1] \in Nat
    <3>1. k + 1 \in 1 .. n + 1
      OBVIOUS
    <3>2. QED
      BY <1>0, <3>1
  <2>2. 2 * x[k + 1] + bit(m, k) = 2 * y[k + 1] + bit(l, k)
    BY <1>0, <1>5
  <2>3. bit(m, k) \in {0, 1} /\ bit(l, k) \in {0, 1}
    BY DEF BitOf
  <2>4. (bit(m, k) = 1 <=> m[lits[k]]) /\ (bit(l, k) = 1 <=> l[lits[k]])
    BY DEF BitOf
  <2> HIDE DEF bit
  <2>5. x[k + 1] = y[k + 1] /\ bit(m, k) = bit(l, k)
    BY <2>1, <2>2, <2>3
  <2>6. m[lits[k]] <=> l[lits[k]]
    BY <2>4, <2>5
  <2>7. QED
    BY <1>4, <2>5, <2>6
<1> HIDE DEF bit
<1> DEFINE B == {k \in 1 .. n : x[k] # y[k]}
<1>6. B = {}
  <2> SUFFICES ASSUME B # {} PROVE FALSE
    OBVIOUS
  <2>1. B \in SUBSET Nat
    OBVIOUS
  <2> HIDE DEF B
  <2>2. PICK k \in B : \A i \in B : k <= i
    BY <2>1, Least
  <2>3. k \in 1 .. n /\ x[k] # y[k]
    BY <2>2 DEF B
  <2>4. k # 1
    BY <1>0, <2>3
  <2>5. k - 1 \in 1 .. n /\ k - 1 + 1 = k
    BY <2>3, <2>4
  <2>6. x[k - 1] = y[k - 1]
    BY <2>2, <2>5 DEF B
  <2>7. x[k - 1 + 1] = y[k - 1 + 1]
    BY <1>5, <2>5, <2>6
  <2>8. QED
    BY <2>3, <2>5, <2>7
<1>7. QED
  BY <1>1, <1>5, <1>6

(* Vectors with the same bits have the same value.                         *)
LEMMA InterpretSame ==
    ASSUME NEW V, NEW m \in [V -> BOOLEAN], NEW l \in [V -> BOOLEAN], NEW lits \in Seq(V),
           \A k \in 1 .. Len(lits) : m[lits[k]] = l[lits[k]]
    PROVE  interpret(m, lits) = interpret(l, lits)
<1>1. PICK n \in Nat : n = Len(lits)
  OBVIOUS
<1>2. PICK x : IsBinary(x, m, lits)
  BY InterpretIsBinary
<1>3. PICK y : IsBinary(y, l, lits)
  BY InterpretIsBinary
<1>4. /\ interpret(m, lits) = x[1] /\ interpret(l, lits) = y[1] /\ x[n + 1] = y[n + 1]
      /\ \A k \in 1 .. n : x[k] = 2 * x[k + 1] + BitOf(m, lits, k)
      /\ \A k \in 1 .. n : y[k] = 2 * y[k + 1] + BitOf(m, lits, k)
  BY <1>1, <1>2, <1>3 DEF IsBinary, BitOf
<1> DEFINE B == {j \in 0 .. n : x[n + 1 - j] # y[n + 1 - j]}
<1>5. B = {}
  <2> SUFFICES ASSUME B # {} PROVE FALSE
    OBVIOUS
  <2>1. B \in SUBSET Nat
    OBVIOUS
  <2> HIDE DEF B
  <2>2. PICK j \in B : \A i \in B : j <= i
    BY <2>1, Least
  <2>3. j \in 0 .. n /\ x[n + 1 - j] # y[n + 1 - j]
    BY <2>2 DEF B
  <2>4. j # 0
    <3>1. SUFFICES ASSUME j = 0 PROVE FALSE
      OBVIOUS
    <3>2. n + 1 - j = n + 1
      BY <3>1
    <3>3. QED
      BY <1>4, <2>3, <3>2
  <2>5. PICK k \in 1 .. n : k = n + 1 - j
    BY <2>3, <2>4
  <2>6. j - 1 \in 0 .. n /\ k + 1 = n + 1 - (j - 1)
    BY <2>3, <2>4, <2>5
  <2>7. j - 1 \notin B
    BY <2>2, <2>3
  <2>8. x[n + 1 - (j - 1)] = y[n + 1 - (j - 1)]
    BY <2>6, <2>7 DEF B
  <2>9. x[k] = y[k]
    BY <1>4, <2>5, <2>6, <2>8
  <2>10. QED
    BY <2>3, <2>5, <2>9
<1>6. n \in 0 .. n /\ n + 1 - n = 1
  OBVIOUS
<1>7. x[n + 1 - n] = y[n + 1 - n]
  BY <1>5, <1>6
<1>8. QED
  BY <1>4, <1>6, <1>7

(* The vectors over a finite set of variables are finitely many.           *)
LEMMA FiniteVectors ==
    ASSUME NEW S, IsFiniteSet(S)
    PROVE  IsFiniteSet([S -> BOOLEAN])
<1> DEFINE f == [T \in SUBSET S |-> [v \in S |-> v \in T]]
<1>1. f \in Surjection(SUBSET S, [S -> BOOLEAN])
  <2>1. f \in [SUBSET S -> [S -> BOOLEAN]]
    OBVIOUS
  <2>2. ASSUME NEW m \in [S -> BOOLEAN] PROVE \E T \in SUBSET S : f[T] = m
    <3> DEFINE T == {v \in S : m[v]}
    <3>1. T \in SUBSET S /\ \A v \in S : (v \in T) = m[v]
      OBVIOUS
    <3> HIDE DEF T
    <3>2. m = [v \in S |-> m[v]]
      OBVIOUS
    <3>3. f[T] = [v \in S |-> v \in T]
      BY <3>1
    <3>4. [v \in S |-> v \in T] = [v \in S |-> m[v]]
      BY <3>1, Zenon
    <3>5. QED
      BY <3>1, <3>2, <3>3, <3>4
  <2>3. QED
    BY <2>1, <2>2 DEF Surjection
<1>2. IsFiniteSet(SUBSET S)
  BY FS_SUBSET
<1>3. QED
  BY <1>1, <1>2, FS_Surjection

-----------------------------------------------------------------------------
(* Numbers in ascending order. *)

(* What a set of numbers has below one of its elements is smaller than it. *)
LEMMA SortedIs ==
    ASSUME NEW S \in SUBSET Nat, IsFiniteSet(S)
    PROVE  /\ Sorted(S) \in Seq(S)
           /\ Len(Sorted(S)) = Cardinality(S) /\ Cardinality(S) \in Nat
           /\ \A i, j \in 1 .. Cardinality(S) : Sorted(S)[i] = Sorted(S)[j] => i = j
           /\ \A x \in S : \E i \in 1 .. Cardinality(S) : Sorted(S)[i] = x
<1> DEFINE n == Cardinality(S)
           Below(x) == {y \in S : y < x}
           rank == [x \in S |-> Cardinality(Below(x)) + 1]
<1>1. n \in Nat
  BY FS_CardinalityType
<1>2. ASSUME NEW x \in S PROVE IsFiniteSet(Below(x)) /\ Cardinality(Below(x)) \in Nat /\ Cardinality(Below(x)) < n
  <2>0. Below(x) \in SUBSET S
    OBVIOUS
  <2>5. x \in Nat
    OBVIOUS
  <2>2. x \notin Below(x)
    BY <2>5
  <2> HIDE DEF Below
  <2>1. IsFiniteSet(Below(x)) /\ Cardinality(Below(x)) <= n /\ (Cardinality(Below(x)) = n => Below(x) = S)
    BY <2>0, FS_Subset
  <2>3. Cardinality(Below(x)) \in Nat
    BY <2>1, FS_CardinalityType
  <2>4. QED
    BY <1>1, <2>1, <2>2, <2>3
<1>3. ASSUME NEW x \in S, NEW y \in S, x < y PROVE Cardinality(Below(x)) < Cardinality(Below(y))
  <2>0. x \in Nat /\ y \in Nat /\ \A z \in S : z \in Nat
    OBVIOUS
  <2>1. Below(x) \subseteq Below(y) /\ x \in Below(y) /\ x \notin Below(x)
    <3>1. \A z \in S : z < x => z < y
      BY <1>3, <2>0
    <3>2. ~(x < x)
      BY <2>0
    <3>3. QED
      BY <1>3, <3>1, <3>2, Zenon
  <2>2. Below(x) # Below(y)
    BY <2>1
  <2> HIDE DEF Below
  <2>3. Cardinality(Below(x)) <= Cardinality(Below(y)) /\ Cardinality(Below(x)) # Cardinality(Below(y))
    BY <1>2, <2>1, <2>2, FS_Subset
  <2>4. QED
    BY <1>2, <2>3
<1> HIDE DEF Below
<1>4. rank \in [S -> 1 .. n]
  BY <1>1, <1>2
<1>5. \A x, y \in S : rank[x] = rank[y] => x = y
  <2> SUFFICES ASSUME NEW x \in S, NEW y \in S, x # y PROVE rank[x] # rank[y]
    OBVIOUS
  <2>0. x \in Nat /\ y \in Nat
    OBVIOUS
  <2>1. x < y \/ y < x
    BY <2>0
  <2>2. QED
    BY <1>2, <1>3, <2>1
<1>6. \A i \in 1 .. n : \E x \in S : rank[x] = i
  <2>1. IsFiniteSet(1 .. n) /\ Cardinality(1 .. n) = n
    BY <1>1, FS_Interval
  <2> DEFINE R == {rank[x] : x \in S}
  <2>2. R \subseteq 1 .. n
    BY <1>4
  <2> HIDE DEF rank
  <2>3. rank \in Injection(S, R)
    BY <1>4, <1>5 DEF Injection, IsInjective
  <2>4. IsFiniteSet(R) /\ Cardinality(R) <= n
    BY <2>1, <2>2, FS_Subset
  <2>5. Cardinality(S) <= Cardinality(R)
    BY <2>3, <2>4, FS_Injection
  <2>6. Cardinality(R) = Cardinality(1 .. n)
    BY <1>1, <2>1, <2>4, <2>5, FS_CardinalityType
  <2>7. R = 1 .. n
    BY <2>1, <2>2, <2>6, FS_Subset
  <2>8. QED
    BY <2>7
<1>7. ASSUME NEW i \in 1 .. n PROVE Sorted(S)[i] \in S /\ rank[Sorted(S)[i]] = i
  <2> DEFINE Q(x) == Cardinality({y \in S : y < x}) = i - 1
  <2>1. \E x \in S : Q(x)
    <3>1. PICK x \in S : rank[x] = i
      BY <1>6
    <3>2. Cardinality(Below(x)) = i - 1
      BY <1>2, <3>1
    <3>3. QED
      BY <3>2 DEF Below
  <2>2. Sorted(S)[i] = CHOOSE x \in S : Q(x)
    BY Zenon DEF Sorted
  <2> DEFINE x == CHOOSE u \in S : Q(u)
  <2>3. x \in S /\ Q(x)
    BY <2>1, Zenon
  <2>4. Cardinality(Below(x)) = i - 1
    BY <2>3 DEF Below
  <2> HIDE DEF x, Q
  <2>5. rank[x] = i
    BY <2>3, <2>4
  <2>6. QED
    BY <2>2, <2>3, <2>5 DEF x
<1> HIDE DEF rank
<1>8. Sorted(S) = [i \in 1 .. n |-> Sorted(S)[i]]
  <2> DEFINE F(i) == CHOOSE x \in S : Cardinality({y \in S : y < x}) = i - 1
  <2>1. Sorted(S) = [i \in 1 .. n |-> F(i)]
    BY Zenon DEF Sorted
  <2> HIDE DEF F, n
  <2>2. QED
    BY <2>1
<1>9. Sorted(S) \in Seq(S) /\ Len(Sorted(S)) = n
  BY <1>1, <1>7, <1>8
<1>10. \A x \in S : Sorted(S)[rank[x]] = x
  BY <1>4, <1>5, <1>7
<1>11. QED
  BY <1>1, <1>4, <1>7, <1>9, <1>10

(* Kept takes the elements at the positions P, each once.                  *)
LEMMA KeptIs ==
    ASSUME NEW T, NEW s \in Seq(T), NEW P \in SUBSET (1 .. Len(s))
    PROVE  /\ Kept(s, P) \in Seq(T)
           /\ \E f \in [1 .. Len(Kept(s, P)) -> P] :
                /\ \A i, j \in 1 .. Len(Kept(s, P)) : f[i] = f[j] => i = j
                /\ \A x \in P : \E i \in 1 .. Len(Kept(s, P)) : f[i] = x
                /\ \A i \in 1 .. Len(Kept(s, P)) : Kept(s, P)[i] = s[f[i]]
<1>1. P \in SUBSET Nat /\ IsFiniteSet(P)
  <2>1. Len(s) \in Int /\ 1 \in Int /\ P \in SUBSET (1 .. Len(s))
    OBVIOUS
  <2>2. IsFiniteSet(1 .. Len(s))
    BY <2>1, FS_Interval
  <2>3. IsFiniteSet(P)
    BY <2>1, <2>2, FS_Subset
  <2>4. QED
    BY <2>3
<1> DEFINE f == Sorted(P)
           n == Cardinality(P)
<1>2. /\ f \in Seq(P) /\ Len(f) = n /\ n \in Nat
      /\ \A i, j \in 1 .. n : f[i] = f[j] => i = j
      /\ \A x \in P : \E i \in 1 .. n : f[i] = x
  BY <1>1, SortedIs
<1>3. Kept(s, P) = [i \in DOMAIN f |-> s[f[i]]]
  BY DEF Kept
<1> HIDE DEF f, n
<1>4. DOMAIN f = 1 .. n /\ \A i \in 1 .. n : f[i] \in P
  BY <1>2
<1>5. \A i \in 1 .. n : s[f[i]] \in T
  <2>1. \A i \in P : s[i] \in T
    OBVIOUS
  <2>2. QED
    BY <1>4, <2>1
<1>6. Kept(s, P) = [i \in 1 .. n |-> s[f[i]]]
  BY <1>3, <1>4
<1>7. Kept(s, P) \in Seq(T) /\ Len(Kept(s, P)) = n
  BY <1>2, <1>5, <1>6
<1>8. f \in [1 .. n -> P]
  BY <1>2, <1>4
<1>9. \A i \in 1 .. n : Kept(s, P)[i] = s[f[i]]
  BY <1>6
<1>10. QED
  BY <1>2, <1>7, <1>8, <1>9

-----------------------------------------------------------------------------
(* A sum over the subsets of D may take out any element first.             *)
IsSum(h, g, D) ==
    /\ h \in [SUBSET D -> Nat]
    /\ h[{}] = 0
    /\ \A s \in SUBSET D : \A x \in s : h[s] = g[x] + h[s \ {x}]

(* A set loses one element at a time.                                     *)
LEMMA OneLess ==
    ASSUME NEW s, IsFiniteSet(s), NEW n \in Nat, Cardinality(s) = n + 1, NEW z \in s
    PROVE  Cardinality(s \ {z}) = n
<1>1. Cardinality(s \ {z}) = Cardinality(s) - 1
  BY FS_RemoveElement
<1>2. QED
  BY <1>1

(* h[s] is what the steps of the elements of s make of base, whatever      *)
(* element is taken first.                                                 *)
IsAnyFold(h, D, T, base, step) ==
    /\ h \in [SUBSET D -> T]
    /\ h[{}] = base
    /\ \A s \in SUBSET D : \A x \in s : h[s] = step[x][h[s \ {x}]]

(* Steps that commute can be taken in any order.                           *)
LEMMA AnyFoldExists ==
    ASSUME NEW D, IsFiniteSet(D), NEW T, NEW base \in T, NEW step \in [D -> [T -> T]],
           \A x, y \in D, t \in T : step[x][step[y][t]] = step[y][step[x][t]]
    PROVE  \E h : IsAnyFold(h, D, T, base, step)
<1> DEFINE c == [s \in SUBSET D |-> CHOOSE x \in s : TRUE]
<1>1. PICK h : IsFold(h, D, T, base, c, step)
  <2>1. \A s \in SUBSET D : s # {} => c[s] \in s
    OBVIOUS
  <2> HIDE DEF c
  <2>2. FoldInput(D, T, base, c, step)
    BY <2>1 DEF FoldInput
  <2>3. QED
    BY <2>2, FoldExists
<1>2. h \in [SUBSET D -> T] /\ h[{}] = base
  BY <1>1 DEF IsFold
<1>3. ASSUME NEW s \in SUBSET D, s # {}
      PROVE  c[s] \in s /\ h[s] = step[c[s]][h[s \ {c[s]}]]
  <2>1. c[s] \in s
    BY <1>3
  <2> HIDE DEF c
  <2>2. h[s] = step[c[s]][h[s \ {c[s]}]]
    BY <1>1, <1>3 DEF IsFold
  <2>3. QED
    BY <2>1, <2>2
<1> HIDE DEF c
<1> DEFINE Q(n) == \A s \in SUBSET D : Cardinality(s) = n =>
                       \A x \in s : h[s] = step[x][h[s \ {x}]]
           Bad == {n \in Nat : ~Q(n)}
<1>4. \A s \in SUBSET D : IsFiniteSet(s) /\ Cardinality(s) \in Nat
  BY FS_Subset, FS_CardinalityType
<1>5. Q(0)
  BY <1>4, FS_EmptySet
<1>6. ASSUME NEW n \in Nat, Q(n) PROVE Q(n + 1)
  <2> SUFFICES ASSUME NEW s \in SUBSET D, Cardinality(s) = n + 1, NEW x \in s
               PROVE  h[s] = step[x][h[s \ {x}]]
    OBVIOUS
  <2> DEFINE y == c[s]
             r == s \ {y}
             t == s \ {x}
  <2>1. y \in s /\ h[s] = step[y][h[r]]
    BY <1>3
  <2>2. CASE x = y
    BY <2>1, <2>2
  <2>3. CASE x # y
    <3>1. r \in SUBSET D /\ t \in SUBSET D /\ x \in r /\ y \in t
      BY <2>1, <2>3
    <3>2. Cardinality(r) = n /\ Cardinality(t) = n
      <4>1. IsFiniteSet(s)
        BY <1>4
      <4>2. \A z \in s : Cardinality(s \ {z}) = n
        BY <4>1, OneLess
      <4>3. QED
        BY <2>1, <4>2
    <3>3. r \ {x} = t \ {y} /\ x \in D /\ y \in D
      BY <2>1
    <3> HIDE DEF r, t, y
    <3>4. h[r] = step[x][h[r \ {x}]]
      BY <1>6, <3>1, <3>2
    <3>5. h[t] = step[y][h[t \ {y}]]
      BY <1>6, <3>1, <3>2
    <3>6. h[r \ {x}] \in T
      <4>1. r \ {x} \in SUBSET D
        BY <3>1
      <4>2. QED
        BY <1>2, <4>1
    <3>7. h[s] = step[x][h[t]]
      <4>1. PICK w \in T : w = h[r \ {x}]
        BY <3>6
      <4>2. h[t] = step[y][w] /\ h[s] = step[y][step[x][w]]
        BY <2>1, <3>3, <3>4, <3>5, <4>1
      <4>3. QED
        BY <3>3, <4>2
    <3>8. QED
      BY <3>7 DEF t
  <2>4. QED
    BY <2>2, <2>3
<1> HIDE DEF Q
<1>7. \A n \in Nat : Q(n)
  <2> SUFFICES ASSUME Bad # {} PROVE FALSE
    OBVIOUS
  <2>1. PICK n \in Bad : \A k \in Bad : n <= k
    BY Least
  <2>2. n # 0
    BY <1>5
  <2>3. n - 1 \in Nat /\ n - 1 \notin Bad
    BY <2>1, <2>2
  <2>4. Q(n - 1 + 1)
    BY <1>6, <2>3
  <2>5. QED
    BY <2>1, <2>4
<1>8. \A s \in SUBSET D : \A x \in s : h[s] = step[x][h[s \ {x}]]
  BY <1>4, <1>7 DEF Q
<1>9. IsAnyFold(h, D, T, base, step)
  BY <1>2, <1>8 DEF IsAnyFold
<1>10. QED
  BY <1>9

(* Numbers have a sum, in whatever order they are taken.                   *)
LEMMA SumExists ==
    ASSUME NEW D, IsFiniteSet(D), NEW g \in [D -> Nat]
    PROVE  \E h : IsSum(h, g, D)
<1> DEFINE step == [k \in D |-> [n \in Nat |-> g[k] + n]]
<1>1. step \in [D -> [Nat -> Nat]]
  OBVIOUS
<1>2. \A k \in D, n \in Nat : step[k][n] = g[k] + n
  OBVIOUS
<1> HIDE DEF step
<1>3. ASSUME NEW x \in D, NEW y \in D, NEW t \in Nat
      PROVE  step[x][step[y][t]] = step[y][step[x][t]]
  <2>1. PICK p \in Nat, q \in Nat : p = g[x] /\ q = g[y]
    OBVIOUS
  <2>2. step[x][step[y][t]] = p + (q + t) /\ step[y][step[x][t]] = q + (p + t)
    BY <1>2, <2>1
  <2>3. QED
    BY <2>2
<1>4. PICK h : IsAnyFold(h, D, Nat, 0, step)
  BY <1>1, <1>3, AnyFoldExists
<1>5. ASSUME NEW s \in SUBSET D, NEW x \in s PROVE h[s] = g[x] + h[s \ {x}]
  <2>1. h[s] = step[x][h[s \ {x}]] /\ h[s \ {x}] \in Nat
    BY <1>4 DEF IsAnyFold
  <2>2. QED
    BY <1>2, <2>1
<1>6. IsSum(h, g, D)
  BY <1>4, <1>5 DEF IsAnyFold, IsSum
<1>7. QED
  BY <1>6

(* The recursion that MapThenSumSet stands for.                            *)
SumEq(f, g, T) ==
    f = [s \in SUBSET T |-> IF s = {} THEN 0
                            ELSE g[CHOOSE x \in s : TRUE] + f[s \ {CHOOSE x \in s : TRUE}]]

(* It has a solution, and that is the sum.                                 *)
LEMMA SumIs ==
    ASSUME NEW D, IsFiniteSet(D), NEW g, NEW h, IsSum(h, g, D), NEW T \in SUBSET D
    PROVE  /\ \E f : SumEq(f, g, T)
           /\ \A f : SumEq(f, g, T) => f[T] = h[T]
<1> DEFINE c(s) == CHOOSE x \in s : TRUE
<1>1. \A s \in SUBSET T : s # {} => c(s) \in s
  OBVIOUS
<1>2. ASSUME NEW s \in SUBSET T PROVE h[s] = IF s = {} THEN 0 ELSE g[c(s)] + h[s \ {c(s)}]
  <2>1. s \in SUBSET D
    OBVIOUS
  <2>2. CASE s = {}
    BY <2>2 DEF IsSum
  <2>3. CASE s # {}
    <3>1. c(s) \in s
      BY <1>1, <2>3
    <3> HIDE DEF c
    <3>2. h[s] = g[c(s)] + h[s \ {c(s)}]
      BY <2>1, <3>1 DEF IsSum
    <3>3. QED
      BY <2>3, <3>2
  <2>4. QED
    BY <2>2, <2>3
<1>3. \E f : SumEq(f, g, T)
  <2> DEFINE f == [s \in SUBSET T |-> h[s]]
  <2>1. ASSUME NEW s \in SUBSET T
        PROVE  f[s] = IF s = {} THEN 0 ELSE g[c(s)] + f[s \ {c(s)}]
    <3>1. f[s] = h[s] /\ f[s \ {c(s)}] = h[s \ {c(s)}]
      OBVIOUS
    <3>2. QED
      BY <1>2, <3>1
  <2>2. f = [s \in SUBSET T |-> IF s = {} THEN 0 ELSE g[c(s)] + f[s \ {c(s)}]]
    <3>1. f = [s \in SUBSET T |-> f[s]]
      OBVIOUS
    <3> HIDE DEF f
    <3>2. QED
      BY <2>1, <3>1, Zenon
  <2>3. SumEq(f, g, T)
    BY <2>2, Zenon DEF SumEq, c
  <2>4. QED
    BY <2>3, Zenon
<1>4. ASSUME NEW f, SumEq(f, g, T) PROVE f[T] = h[T]
  <2>1. \A s \in SUBSET T : f[s] = IF s = {} THEN 0 ELSE g[c(s)] + f[s \ {c(s)}]
    BY <1>4 DEF SumEq
  <2> DEFINE Q(n) == \A s \in SUBSET T : Cardinality(s) = n => f[s] = h[s]
             Bad == {n \in Nat : ~Q(n)}
  <2>2. \A s \in SUBSET T : IsFiniteSet(s) /\ Cardinality(s) \in Nat
    BY FS_Subset, FS_CardinalityType
  <2>3. Q(0)
    BY <1>2, <2>1, <2>2, FS_EmptySet
  <2>4. ASSUME NEW n \in Nat, Q(n) PROVE Q(n + 1)
    <3> SUFFICES ASSUME NEW s \in SUBSET T, Cardinality(s) = n + 1 PROVE f[s] = h[s]
      OBVIOUS
    <3>1. s # {}
      BY FS_EmptySet
    <3>2. c(s) \in s
      BY <1>1, <3>1
    <3> HIDE DEF c
    <3>3. Cardinality(s \ {c(s)}) = n /\ s \ {c(s)} \in SUBSET T
      BY <2>2, <3>2, FS_RemoveElement
    <3>4. f[s \ {c(s)}] = h[s \ {c(s)}]
      BY <2>4, <3>3
    <3>5. f[s] = g[c(s)] + f[s \ {c(s)}]
      BY <2>1, <3>1
    <3>6. h[s] = g[c(s)] + h[s \ {c(s)}]
      BY <1>2, <3>1
    <3>7. QED
      BY <3>4, <3>5, <3>6
  <2> HIDE DEF Q
  <2>5. \A n \in Nat : Q(n)
    <3> SUFFICES ASSUME Bad # {} PROVE FALSE
      OBVIOUS
    <3>1. PICK n \in Bad : \A k \in Bad : n <= k
      BY Least
    <3>2. n # 0
      BY <2>3
    <3>3. n - 1 \in Nat /\ n - 1 \notin Bad
      BY <3>1, <3>2
    <3>4. Q(n - 1 + 1)
      BY <2>4, <3>3
    <3>5. QED
      BY <3>1, <3>4
  <2>6. QED
    BY <2>2, <2>5 DEF Q
<1>5. QED
  BY <1>3, <1>4

(* What the community module's sum over a set of numbers comes to.         *)
LEMMA SumOver ==
    ASSUME NEW D, IsFiniteSet(D), NEW g, NEW h, IsSum(h, g, D), NEW T \in SUBSET D
    PROVE  MapThenSumSet(LAMBDA k : g[k], T) = h[T]
<1> DEFINE f == CHOOSE f : SumEq(f, g, T)
<1>1. SumEq(f, g, T)
  BY SumIs, Zenon
<1>2. MapThenSumSet(LAMBDA k : g[k], T) = f[T]
  BY Zenon DEF MapThenSumSet, MapThenFoldSet, SumEq
<1> HIDE DEF f
<1>3. QED
  BY <1>1, <1>2, SumIs

SizesEq(f, buckets) ==
    f = [s \in SUBSET (DOMAIN buckets) |->
            IF s = {} THEN 0 ELSE buckets[CHOOSE x \in s : TRUE].size
                                  + f[s \ {CHOOSE x \in s : TRUE}]]

(* The recursion of sum_buckets.                                           *)
LEMMA SizesIs ==
    ASSUME NEW buckets, NEW g, \A k \in DOMAIN buckets : g[k] = buckets[k].size, NEW f
    PROVE  SizesEq(f, buckets) <=> SumEq(f, g, DOMAIN buckets)
<1> DEFINE D == DOMAIN buckets
           c(s) == CHOOSE x \in s : TRUE
           A == [s \in SUBSET D |-> IF s = {} THEN 0 ELSE buckets[c(s)].size + f[s \ {c(s)}]]
           B == [s \in SUBSET D |-> IF s = {} THEN 0 ELSE g[c(s)] + f[s \ {c(s)}]]
<1>1. ASSUME NEW s \in SUBSET D PROVE A[s] = B[s]
  <2>1. CASE s = {}
    BY <2>1
  <2>2. CASE s # {}
    <3>1. c(s) \in D
      BY <2>2
    <3>2. buckets[c(s)].size = g[c(s)]
      BY <3>1
    <3> HIDE DEF c
    <3>3. QED
      BY <2>2, <3>2
  <2>3. QED
    BY <2>1, <2>2
<1>2. A = [s \in SUBSET D |-> A[s]]
  OBVIOUS
<1>3. B = [s \in SUBSET D |-> B[s]]
  OBVIOUS
<1>4. A = B
  <2> HIDE DEF A, B
  <2>1. QED
    BY <1>1, <1>2, <1>3, Zenon
<1>5. (SizesEq(f, buckets) <=> f = A) /\ (SumEq(f, g, D) <=> f = B)
  BY Zenon DEF SizesEq, SumEq
<1> HIDE DEF A, B
<1>6. QED
  BY <1>4, <1>5, Zenon

(* The buckets' sizes have the sum of the sum function.                    *)
LEMMA SumOfBuckets ==
    ASSUME NEW buckets, IsFiniteSet(DOMAIN buckets),
           NEW g, \A k \in DOMAIN buckets : g[k] = buckets[k].size,
           NEW h, IsSum(h, g, DOMAIN buckets)
    PROVE  sum_buckets(buckets) = h[DOMAIN buckets]
<1> DEFINE D == DOMAIN buckets
           e == CHOOSE f : SizesEq(f, buckets)
<1>1. sum_buckets(buckets) = e[D]
  BY Zenon DEF sum_buckets, MapThenSumSet, MapThenFoldSet, SizesEq
<1>2. \E f : SumEq(f, g, D)
  BY SumIs
<1>3. \E f : SizesEq(f, buckets)
  BY <1>2, SizesIs
<1>4. SizesEq(e, buckets)
  BY <1>3, Zenon
<1> HIDE DEF e
<1>5. SumEq(e, g, D)
  BY <1>4, SizesIs
<1>6. e[D] = h[D]
  BY <1>5, SumIs
<1>7. QED
  BY <1>1, <1>6

-----------------------------------------------------------------------------
(* Sequences: what they hold, one after the other.                         *)

(* An element added to a sequence is added to what it holds.               *)
LEMMA RangeOfAppend ==
    ASSUME NEW T, NEW s \in Seq(T), NEW e
    PROVE  Range(Append(s, e)) = Range(s) \cup {e}
<1> DEFINE t == Append(s, e)
<1>1. DOMAIN s = 1 .. Len(s) /\ Len(s) \in Nat /\ DOMAIN t = 1 .. Len(s) + 1
  OBVIOUS
<1>2. \A i \in 1 .. Len(s) : t[i] = s[i]
  OBVIOUS
<1>3. t[Len(s) + 1] = e
  OBVIOUS
<1> HIDE DEF t
<1>4. ASSUME NEW x \in Range(t) PROVE x \in Range(s) \cup {e}
  <2>1. PICK i \in 1 .. Len(s) + 1 : x = t[i]
    BY <1>1 DEF Range
  <2>2. CASE i = Len(s) + 1
    BY <1>3, <2>1, <2>2
  <2>3. CASE i # Len(s) + 1
    <3>1. i \in 1 .. Len(s)
      BY <1>1, <2>3
    <3>2. QED
      BY <1>1, <1>2, <2>1, <3>1 DEF Range
  <2>4. QED
    BY <2>2, <2>3
<1>5. ASSUME NEW x \in Range(s) \cup {e} PROVE x \in Range(t)
  <2>1. CASE x = e
    <3>1. Len(s) + 1 \in DOMAIN t
      BY <1>1
    <3>2. QED
      BY <1>3, <2>1, <3>1 DEF Range
  <2>2. CASE x \in Range(s)
    <3>1. PICK i \in 1 .. Len(s) : x = s[i]
      BY <1>1, <2>2 DEF Range
    <3>2. i \in DOMAIN t
      BY <1>1
    <3>3. QED
      BY <1>2, <3>1, <3>2 DEF Range
  <2>3. QED
    BY <2>1, <2>2
<1>6. QED
  BY <1>4, <1>5 DEF t

(* Two sequences in a row hold what each of them holds.                    *)
LEMMA RangeOfConcat ==
    ASSUME NEW T, NEW s \in Seq(T), NEW t \in Seq(T)
    PROVE  s \o t \in Seq(T) /\ Range(s \o t) = Range(s) \cup Range(t)
<1> DEFINE u == s \o t
<1>1. /\ DOMAIN s = 1 .. Len(s) /\ Len(s) \in Nat
      /\ DOMAIN t = 1 .. Len(t) /\ Len(t) \in Nat
  OBVIOUS
<1>2. u \in Seq(T) /\ DOMAIN u = 1 .. Len(s) + Len(t)
  <2>1. u \in Seq(T) /\ Len(u) = Len(s) + Len(t)
    BY ConcatProperties
  <2>2. QED
    BY <2>1, LenProperties
<1>3. \A i \in 1 .. Len(s) : u[i] = s[i]
  BY ConcatProperties
<1>4. \A i \in 1 .. Len(t) : u[Len(s) + i] = t[i]
  <2> SUFFICES ASSUME NEW i \in 1 .. Len(t) PROVE u[Len(s) + i] = t[i]
    OBVIOUS
  <2>1. Len(s) + i \in 1 .. Len(s) + Len(t) /\ ~(Len(s) + i <= Len(s)) /\ Len(s) + i - Len(s) = i
    BY <1>1
  <2>2. QED
    BY <2>1, ConcatProperties
<1> HIDE DEF u
<1>5. ASSUME NEW x \in Range(u) PROVE x \in Range(s) \cup Range(t)
  <2>1. PICK i \in 1 .. Len(s) + Len(t) : x = u[i]
    BY <1>2 DEF Range
  <2>2. CASE i <= Len(s)
    <3>1. i \in 1 .. Len(s)
      BY <2>2
    <3>2. QED
      BY <1>1, <1>3, <2>1, <3>1 DEF Range
  <2>3. CASE ~(i <= Len(s))
    <3>1. PICK j \in 1 .. Len(t) : i = Len(s) + j
      <4>1. i - Len(s) \in 1 .. Len(t) /\ i = Len(s) + (i - Len(s))
        BY <1>1, <2>3
      <4>2. QED
        BY <4>1
    <3>2. x = t[j]
      BY <1>4, <2>1, <3>1
    <3>3. QED
      BY <1>1, <3>2 DEF Range
  <2>4. QED
    BY <2>2, <2>3
<1>6. ASSUME NEW x \in Range(s) PROVE x \in Range(u)
  <2>1. PICK i \in 1 .. Len(s) : x = s[i]
    BY <1>1 DEF Range
  <2>2. i \in DOMAIN u
    BY <1>1, <1>2
  <2>3. QED
    BY <1>3, <2>1, <2>2 DEF Range
<1>7. ASSUME NEW x \in Range(t) PROVE x \in Range(u)
  <2>1. PICK i \in 1 .. Len(t) : x = t[i]
    BY <1>1 DEF Range
  <2>2. Len(s) + i \in DOMAIN u
    BY <1>1, <1>2
  <2>3. QED
    BY <1>4, <2>1, <2>2 DEF Range
<1>8. QED
  BY <1>2, <1>5, <1>6, <1>7 DEF u

Then(a, b) == a \o b

(* f[i] is the first i sequences of s in a row.                            *)
InARow(f, s, n) ==
    /\ n > 0 => f[1] = s[1]
    /\ \A i \in 1 .. n - 1 : f[i + 1] = Then(f[i], s[i + 1])

(* There is such an f.                                                     *)
LEMMA RowExists ==
    ASSUME NEW T, NEW s \in Seq(Seq(T)), NEW n \in Nat, n <= Len(s)
    PROVE  \E f \in [1 .. n -> Seq(T)] : InARow(f, s, n)
<1> DEFINE Q(k) == \E f \in [1 .. k -> Seq(T)] : InARow(f, s, k)
           Bad == {k \in Nat : k <= n /\ ~Q(k)}
<1>1. \A i \in 1 .. n : s[i] \in Seq(T)
  OBVIOUS
<1>2. Q(0)
  <2> DEFINE f == [i \in 1 .. 0 |-> <<>>]
  <2>1. f \in [1 .. 0 -> Seq(T)] /\ InARow(f, s, 0)
    BY DEF InARow
  <2>2. QED
    BY <2>1
<1>3. ASSUME NEW k \in Nat, k < n, Q(k) PROVE Q(k + 1)
  <2>1. PICK f \in [1 .. k -> Seq(T)] : InARow(f, s, k)
    BY <1>3
  <2> DEFINE new == IF k = 0 THEN s[1] ELSE Then(f[k], s[k + 1])
             g == [i \in 1 .. k + 1 |-> IF i = k + 1 THEN new ELSE f[i]]
  <2>2. new \in Seq(T)
    <3>1. CASE k = 0
      BY <1>1, <1>3, <3>1
    <3>2. CASE k # 0
      <4>1. f[k] \in Seq(T) /\ s[k + 1] \in Seq(T)
        BY <1>1, <1>3, <3>2
      <4>2. QED
        BY <3>2, <4>1, ConcatProperties DEF Then
    <3>3. QED
      BY <3>1, <3>2
  <2>3. g \in [1 .. k + 1 -> Seq(T)]
    BY <2>1, <2>2
  <2>4. \A i \in 1 .. k : g[i] = f[i]
    <3> HIDE DEF new
    <3> SUFFICES ASSUME NEW i \in 1 .. k PROVE g[i] = f[i]
      OBVIOUS
    <3>1. i \in 1 .. k + 1 /\ i # k + 1
      OBVIOUS
    <3>2. QED
      BY <3>1
  <2>5. g[k + 1] = new
    OBVIOUS
  <2> HIDE DEF g
  <2>6. g[1] = s[1]
    <3>1. CASE k = 0
      BY <2>5, <3>1
    <3>2. CASE k # 0
      BY <2>1, <2>4, <3>2 DEF InARow
    <3>3. QED
      BY <3>1, <3>2
  <2>7. ASSUME NEW i \in 1 .. k PROVE g[i + 1] = Then(g[i], s[i + 1])
    <3>1. CASE i = k
      <4>1. k # 0 /\ g[k] = f[k]
        BY <2>4, <3>1
      <4>2. new = Then(f[k], s[k + 1])
        BY <4>1
      <4> HIDE DEF new
      <4>3. g[k + 1] = Then(g[k], s[k + 1])
        BY <2>5, <4>1, <4>2
      <4>4. QED
        BY <3>1, <4>3
    <3>2. CASE i # k
      <4>1. i \in 1 .. k - 1 /\ i + 1 \in 1 .. k
        BY <3>2
      <4>2. QED
        BY <2>1, <2>4, <4>1 DEF InARow
    <3>3. QED
      BY <3>1, <3>2
  <2>8. InARow(g, s, k + 1)
    <3> HIDE DEF new
    <3>1. \A i \in 1 .. k + 1 - 1 : i \in 1 .. k
      OBVIOUS
    <3>2. QED
      BY <2>6, <2>7, <3>1 DEF InARow
  <2>9. QED
    BY <2>3, <2>8
<1> HIDE DEF Q
<1>4. Bad = {}
  <2> SUFFICES ASSUME Bad # {} PROVE FALSE
    OBVIOUS
  <2>1. PICK k \in Bad : \A j \in Bad : k <= j
    BY Least
  <2>2. k # 0
    BY <1>2, <2>1
  <2>3. k - 1 \in Nat /\ k - 1 < n /\ k - 1 \notin Bad
    BY <2>1, <2>2
  <2>4. Q(k - 1 + 1) /\ k - 1 + 1 = k
    BY <1>3, <2>3
  <2>5. QED
    BY <2>1, <2>4
<1>5. Q(n)
  BY <1>4
<1>6. QED
  BY <1>5 DEF Q

(* The recursion that FlattenSeq stands for, and its solution.             *)
FlatEq(f, s) ==
    f = [i \in 1 .. Len(s) |-> IF i = 1 THEN s[i] ELSE Then(f[i - 1], s[i])]

(* The recursion of FlattenSeq has a solution, and it puts the parts in a  *)
(* row.                                                                    *)
LEMMA FlatIsARow ==
    ASSUME NEW T, NEW s \in Seq(Seq(T))
    PROVE  /\ \E f : FlatEq(f, s)
           /\ \A f : FlatEq(f, s) => InARow(f, s, Len(s))
<1>1. PICK n \in Nat : n = Len(s)
  OBVIOUS
<1>2. PICK f \in [1 .. n -> Seq(T)] : InARow(f, s, n)
  BY <1>1, RowExists
<1>3. ASSUME NEW i \in 1 .. n PROVE f[i] = IF i = 1 THEN s[i] ELSE Then(f[i - 1], s[i])
  <2>1. CASE i = 1
    BY <1>2, <2>1 DEF InARow
  <2>2. CASE i # 1
    <3>1. PICK j \in 1 .. n - 1 : i = j + 1
      <4>1. i - 1 \in 1 .. n - 1 /\ i = i - 1 + 1
        BY <2>2
      <4>2. QED
        BY <4>1
    <3>2. f[j + 1] = Then(f[j], s[j + 1])
      BY <1>2 DEF InARow
    <3>3. f[i] = Then(f[i - 1], s[i])
      BY <3>1, <3>2
    <3>4. QED
      BY <2>2, <3>3, Zenon
  <2>3. QED
    BY <2>1, <2>2
<1>4. f = [i \in 1 .. n |-> f[i]]
  BY <1>2
<1>5. FlatEq(f, s)
  BY <1>1, <1>3, <1>4, Zenon DEF FlatEq
<1>6. ASSUME NEW g, FlatEq(g, s) PROVE InARow(g, s, n)
  <2>1. \A i \in 1 .. n : g[i] = IF i = 1 THEN s[i] ELSE Then(g[i - 1], s[i])
    BY <1>1, <1>6 DEF FlatEq
  <2>2. n > 0 => g[1] = s[1]
    BY <2>1
  <2>3. ASSUME NEW i \in 1 .. n - 1 PROVE g[i + 1] = Then(g[i], s[i + 1])
    <3>1. PICK k \in 1 .. n : k = i + 1 /\ k # 1 /\ k - 1 = i
      OBVIOUS
    <3>2. g[k] = Then(g[k - 1], s[k])
      BY <2>1, <3>1
    <3>3. QED
      BY <3>1, <3>2
  <2>4. QED
    BY <2>2, <2>3 DEF InARow
<1>7. QED
  BY <1>1, <1>5, <1>6

(* FlattenSeq puts the sequences in a row: what the whole holds is what    *)
(* they hold.                                                              *)
LEMMA FlattenIs ==
    ASSUME NEW T, NEW s \in Seq(Seq(T))
    PROVE  /\ FlattenSeq(s) \in Seq(T)
           /\ Range(FlattenSeq(s)) = UNION {Range(s[i]) : i \in DOMAIN s}
<1> DEFINE n == Len(s)
           f == CHOOSE f : FlatEq(f, s)
<1>1. n \in Nat /\ DOMAIN s = 1 .. n /\ \A i \in 1 .. n : s[i] \in Seq(T)
  OBVIOUS
<1>2. CASE n = 0
  <2>1. s = <<>> /\ FlattenSeq(s) = s
    BY <1>2 DEF FlattenSeq
  <2>2. DOMAIN s = {} /\ FlattenSeq(s) = <<>>
    BY <2>1
  <2>3. Range(FlattenSeq(s)) = {}
    BY <2>2 DEF Range
  <2>4. QED
    BY <2>2, <2>3
<1>3. CASE n # 0
  <2>1. FlattenSeq(s) = f[n]
    BY <1>3, Zenon DEF FlattenSeq, FlatEq, Then
  <2>2. FlatEq(f, s)
    BY FlatIsARow, Zenon
  <2> HIDE DEF f
  <2>3. InARow(f, s, n)
    BY <2>2, FlatIsARow
  <2> HIDE DEF n
  <2> DEFINE Upto(i) == UNION {Range(s[j]) : j \in 1 .. i}
             Good(i) == f[i] \in Seq(T) /\ Range(f[i]) = Upto(i)
             Bad == {i \in Nat : i \in 1 .. n /\ ~Good(i)}
  <2>4. Good(1)
    <3>1. f[1] = s[1]
      BY <1>1, <1>3, <2>3 DEF InARow
    <3>2. Upto(1) = Range(s[1])
      OBVIOUS
    <3>3. QED
      BY <1>1, <1>3, <3>1, <3>2
  <2>5. ASSUME NEW i \in 1 .. n - 1, Good(i) PROVE Good(i + 1)
    <3>1. f[i + 1] = Then(f[i], s[i + 1])
      BY <2>3 DEF InARow
    <3>2. s[i + 1] \in Seq(T)
      BY <1>1, <2>5
    <3>3. Upto(i + 1) = Upto(i) \cup Range(s[i + 1])
      <4>1. 1 .. i + 1 = (1 .. i) \cup {i + 1}
        OBVIOUS
      <4>2. QED
        BY <4>1
    <3> HIDE DEF Upto
    <3>4. f[i + 1] \in Seq(T) /\ Range(f[i + 1]) = Range(f[i]) \cup Range(s[i + 1])
      BY <2>5, <3>1, <3>2, RangeOfConcat DEF Then
    <3>5. QED
      BY <2>5, <3>3, <3>4
  <2> HIDE DEF Good
  <2>6. Bad = {}
    <3> SUFFICES ASSUME Bad # {} PROVE FALSE
      OBVIOUS
    <3>1. PICK i \in Bad : \A j \in Bad : i <= j
      BY Least
    <3>2. i # 1
      BY <2>4, <3>1
    <3>3. i - 1 \in 1 .. n - 1 /\ i - 1 \in Nat /\ i - 1 \in 1 .. n /\ i - 1 \notin Bad
      BY <1>1, <3>1, <3>2
    <3>4. Good(i - 1) /\ i - 1 + 1 = i
      BY <3>3
    <3>5. QED
      BY <2>5, <3>1, <3>3, <3>4
  <2>7. Good(n)
    BY <1>1, <1>3, <2>6
  <2>8. QED
    BY <1>1, <2>1, <2>7 DEF Good
<1>4. QED
  BY <1>2, <1>3

(* A finite set of integers that is not empty has a greatest element.      *)
LEMMA GreatestIs ==
    ASSUME NEW S \in SUBSET Int, IsFiniteSet(S), S # {}
    PROVE  Max(S) \in S /\ \A y \in S : y <= Max(S)
<1> DEFINE Q(n) == \A R \in SUBSET Int : IsFiniteSet(R) /\ R # {} /\ Cardinality(R) = n =>
                       \E x \in R : \A y \in R : y <= x
           Bad == {n \in Nat : ~Q(n)}
<1>1. Q(0)
  BY FS_EmptySet
<1>2. ASSUME NEW n \in Nat, Q(n) PROVE Q(n + 1)
  <2> SUFFICES ASSUME NEW R \in SUBSET Int, IsFiniteSet(R), R # {}, Cardinality(R) = n + 1
               PROVE  \E x \in R : \A y \in R : y <= x
    OBVIOUS
  <2>1. PICK z \in R : TRUE
    OBVIOUS
  <2> DEFINE U == R \ {z}
  <2>2. IsFiniteSet(U) /\ Cardinality(U) = n /\ U \in SUBSET Int
    BY <2>1, OneLess, FS_Subset
  <2>3. CASE U = {}
    BY <2>1, <2>3
  <2>4. CASE U # {}
    <3> HIDE DEF U
    <3>1. PICK x \in U : \A y \in U : y <= x
      BY <1>2, <2>2, <2>4
    <3>2. CASE z <= x
      BY <3>1, <3>2 DEF U
    <3>3. CASE ~(z <= x)
      <4>1. \A y \in R : y <= z
        BY <3>1, <3>3 DEF U
      <4>2. QED
        BY <2>1, <4>1
    <3>4. QED
      BY <3>2, <3>3
  <2>5. QED
    BY <2>3, <2>4
<1> HIDE DEF Q
<1>3. Bad = {}
  <2> SUFFICES ASSUME Bad # {} PROVE FALSE
    OBVIOUS
  <2>1. PICK n \in Bad : \A k \in Bad : n <= k
    BY Least
  <2>2. n # 0
    BY <1>1, <2>1
  <2>3. n - 1 \in Nat /\ n - 1 \notin Bad
    BY <2>1, <2>2
  <2>4. Q(n - 1 + 1)
    BY <1>2, <2>3
  <2>5. QED
    BY <2>1, <2>4
<1>4. \E x \in S : \A y \in S : y <= x
  <2>1. Cardinality(S) \in Nat
    BY FS_CardinalityType
  <2>2. Q(Cardinality(S))
    BY <1>3, <2>1
  <2>3. QED
    BY <2>2 DEF Q
<1>5. \E x \in S : \A y \in S : x >= y
  BY <1>4
<1>6. Max(S) \in S /\ \A y \in S : Max(S) >= y
  BY <1>5, Zenon DEF Max
<1>7. QED
  BY <1>6

(* A function of a finite set has finitely many values.                    *)
LEMMA RangeIsFinite ==
    ASSUME NEW f, IsFiniteSet(DOMAIN f), f = [x \in DOMAIN f |-> f[x]]
    PROVE  IsFiniteSet(Range(f))
<1>1. f \in Surjection(DOMAIN f, Range(f))
  <2>1. f \in [DOMAIN f -> Range(f)]
    BY DEF Range
  <2>2. \A y \in Range(f) : \E x \in DOMAIN f : f[x] = y
    BY DEF Range
  <2>3. QED
    BY <2>1, <2>2 DEF Surjection
<1>2. QED
  BY <1>1, FS_Surjection

(* So does a sequence.                                                     *)
LEMMA SequenceIsFinite ==
    ASSUME NEW T, NEW s \in Seq(T)
    PROVE  IsFiniteSet(Range(s)) /\ Range(s) \subseteq T
<1>1. DOMAIN s = 1 .. Len(s) /\ Len(s) \in Nat /\ s = [i \in DOMAIN s |-> s[i]]
  OBVIOUS
<1>2. IsFiniteSet(1 .. Len(s))
  <2>1. PICK n \in Int : n = Len(s) /\ 1 \in Int
    BY <1>1
  <2>2. IsFiniteSet(1 .. n)
    BY <2>1, FS_Interval
  <2>3. QED
    BY <2>1, <2>2
<1>3. QED
  BY <1>1, <1>2, RangeIsFinite DEF Range

(* The numbers of a finite set, in ascending order, are those of the set.  *)
LEMMA RangeOfSorted ==
    ASSUME NEW S \in SUBSET Nat, IsFiniteSet(S)
    PROVE  Sorted(S) \in Seq(S) /\ Range(Sorted(S)) = S
<1> DEFINE s == Sorted(S)
<1>1. s \in Seq(S) /\ \A x \in S : \E i \in 1 .. Len(s) : s[i] = x
  BY SortedIs
<1> HIDE DEF s
<1>2. DOMAIN s = 1 .. Len(s) /\ \A i \in DOMAIN s : s[i] \in S
  BY <1>1
<1>3. Range(s) = S
  BY <1>1, <1>2 DEF Range
<1>4. QED
  BY <1>1, <1>3 DEF s

(* What is kept of a sequence is of the sequence.                          *)
LEMMA KeptInside ==
    ASSUME NEW T, NEW s \in Seq(T), NEW P \in SUBSET (DOMAIN s)
    PROVE  Kept(s, P) \in Seq(T)
<1>1. P \in SUBSET (1 .. Len(s))
  OBVIOUS
<1>2. QED
  BY <1>1, KeptIs

(* Powers of two are not 0, and they do not decrease.                      *)
LEMMA PowerPositive ==
    \A n \in Nat : twoTo[n] \in Nat /\ twoTo[n] > 0
<1> DEFINE Q(n) == twoTo[n] > 0
           Bad == {n \in Nat : ~Q(n)}
<1>1. twoTo \in [Nat -> Nat]
  BY TwoTo
<1>2. Q(0)
  BY TwoTo
<1>3. ASSUME NEW n \in Nat, Q(n) PROVE Q(n + 1)
  <2>1. twoTo[n + 1] = 2 * twoTo[n] /\ twoTo[n] \in Nat
    BY TwoTo
  <2>2. QED
    BY <1>3, <2>1
<1> HIDE DEF Q
<1>4. Bad = {}
  <2> SUFFICES ASSUME Bad # {} PROVE FALSE
    OBVIOUS
  <2>1. PICK n \in Bad : \A k \in Bad : n <= k
    BY Least
  <2>2. n # 0
    BY <1>2, <2>1
  <2>3. n - 1 \in Nat /\ n - 1 \notin Bad
    BY <2>1, <2>2
  <2>4. Q(n - 1 + 1)
    BY <1>3, <2>3
  <2>5. QED
    BY <2>1, <2>4
<1>5. QED
  BY <1>1, <1>4 DEF Q

(* A larger exponent, a larger power.                                      *)
LEMMA PowersGrow ==
    \A n \in Nat : \A k \in 0 .. n : twoTo[k] <= twoTo[n]
<1> DEFINE Q(n) == \A k \in 0 .. n : twoTo[k] <= twoTo[n]
           Bad == {n \in Nat : ~Q(n)}
<1>1. twoTo \in [Nat -> Nat]
  BY TwoTo
<1>2. Q(0)
  BY <1>1
<1>3. ASSUME NEW n \in Nat, Q(n) PROVE Q(n + 1)
  <2>1. twoTo[n + 1] = 2 * twoTo[n] /\ twoTo[n] \in Nat /\ twoTo[n + 1] \in Nat
    BY TwoTo
  <2> SUFFICES ASSUME NEW k \in 0 .. n + 1 PROVE twoTo[k] <= twoTo[n + 1]
    OBVIOUS
  <2>2. CASE k = n + 1
    BY <2>1, <2>2
  <2>3. CASE k # n + 1
    <3>1. k \in 0 .. n /\ k \in Nat
      BY <2>3
    <3>2. twoTo[k] <= twoTo[n] /\ twoTo[k] \in Nat
      BY <1>1, <1>3, <3>1
    <3>3. QED
      BY <2>1, <3>2
  <2>4. QED
    BY <2>2, <2>3
<1> HIDE DEF Q
<1>4. Bad = {}
  <2> SUFFICES ASSUME Bad # {} PROVE FALSE
    OBVIOUS
  <2>1. PICK n \in Bad : \A k \in Bad : n <= k
    BY Least
  <2>2. n # 0
    BY <1>2, <2>1
  <2>3. n - 1 \in Nat /\ n - 1 \notin Bad
    BY <2>1, <2>2
  <2>4. Q(n - 1 + 1)
    BY <1>3, <2>3
  <2>5. QED
    BY <2>1, <2>4
<1>5. QED
  BY <1>4 DEF Q

(* Buckets that hold every element of a set once have as many as the set.  *)
LEMMA SumOfClasses ==
    ASSUME NEW K, IsFiniteSet(K), NEW S, IsFiniteSet(S), NEW f \in [S -> K],
           NEW buckets, DOMAIN buckets = K,
           \A k \in K : buckets[k].size = Cardinality({m \in S : f[m] = k})
    PROVE  sum_buckets(buckets) = Cardinality(S)
<1> DEFINE In(T) == {m \in S : f[m] \in T}
           g == [k \in K |-> Cardinality({m \in S : f[m] = k})]
<1>1. \A T : IsFiniteSet(In(T)) /\ Cardinality(In(T)) \in Nat
  BY FS_Subset, FS_CardinalityType
<1>2. g \in [K -> Nat]
  <2> SUFFICES ASSUME NEW k \in K PROVE Cardinality({m \in S : f[m] = k}) \in Nat
    OBVIOUS
  <2>1. {m \in S : f[m] = k} = In({k})
    OBVIOUS
  <2> HIDE DEF In
  <2>2. QED
    BY <1>1, <2>1
<1>3. \A k \in K : g[k] = Cardinality(In({k})) /\ g[k] = buckets[k].size
  <2> SUFFICES ASSUME NEW k \in K
               PROVE  g[k] = Cardinality(In({k})) /\ g[k] = buckets[k].size
    OBVIOUS
  <2>1. {m \in S : f[m] = k} = In({k})
    OBVIOUS
  <2>2. g[k] = Cardinality({m \in S : f[m] = k})
    OBVIOUS
  <2> HIDE DEF In, g
  <2>3. QED
    BY <2>1, <2>2
<1>4. ASSUME NEW T \in SUBSET K, NEW x \in T
      PROVE  Cardinality(In(T)) = Cardinality(In({x})) + Cardinality(In(T \ {x}))
  <2>1. In(T) = In({x}) \cup In(T \ {x}) /\ In({x}) \cap In(T \ {x}) = {}
    OBVIOUS
  <2>2. PICK A, B : A = In({x}) /\ B = In(T \ {x})
    OBVIOUS
  <2>3. IsFiniteSet(A) /\ IsFiniteSet(B) /\ Cardinality(A) \in Nat /\ Cardinality(B) \in Nat
    BY <1>1, <2>2
  <2> HIDE DEF In
  <2>4. Cardinality(A \cup B) = Cardinality(A) + Cardinality(B) - Cardinality(A \cap B)
    BY <2>3, FS_Union
  <2>5. Cardinality(A \cap B) = 0
    BY <2>1, <2>2, FS_EmptySet
  <2>6. Cardinality(A \cup B) = Cardinality(A) + Cardinality(B)
    BY <2>3, <2>4, <2>5
  <2>7. In(T) = A \cup B
    BY <2>1, <2>2
  <2>8. QED
    BY <2>2, <2>6, <2>7, Zenon
<1>5. In({}) = {} /\ In(K) = S
  OBVIOUS
<1> HIDE DEF In, g
<1>6. PICK h : IsSum(h, g, K)
  BY <1>2, SumExists
<1>7. sum_buckets(buckets) = h[K]
  BY <1>3, <1>6, SumOfBuckets
<1> DEFINE Q(n) == \A T \in SUBSET K : Cardinality(T) = n => h[T] = Cardinality(In(T))
           Bad == {n \in Nat : ~Q(n)}
<1>8. \A T \in SUBSET K : IsFiniteSet(T) /\ Cardinality(T) \in Nat
  BY FS_Subset, FS_CardinalityType
<1>9. Q(0)
  <2> SUFFICES ASSUME NEW T \in SUBSET K, Cardinality(T) = 0 PROVE h[T] = Cardinality(In(T))
    OBVIOUS
  <2>1. T = {}
    BY <1>8, FS_EmptySet
  <2>2. h[{}] = 0
    BY <1>6 DEF IsSum
  <2>3. QED
    BY <1>5, <2>1, <2>2, FS_EmptySet
<1>10. ASSUME NEW n \in Nat, Q(n) PROVE Q(n + 1)
  <2> SUFFICES ASSUME NEW T \in SUBSET K, Cardinality(T) = n + 1
               PROVE  h[T] = Cardinality(In(T))
    OBVIOUS
  <2>1. PICK x \in T : TRUE
    BY <1>8, FS_EmptySet
  <2>2. Cardinality(T \ {x}) = n /\ T \ {x} \in SUBSET K
    BY <1>8, <2>1, OneLess
  <2>3. h[T] = g[x] + h[T \ {x}]
    BY <1>6, <2>1 DEF IsSum
  <2>4. h[T \ {x}] = Cardinality(In(T \ {x}))
    BY <1>10, <2>2
  <2>5. g[x] = Cardinality(In({x}))
    BY <1>3, <2>1
  <2>6. QED
    BY <1>4, <2>1, <2>3, <2>4, <2>5
<1> HIDE DEF Q
<1>11. Bad = {}
  <2> SUFFICES ASSUME Bad # {} PROVE FALSE
    OBVIOUS
  <2>1. PICK n \in Bad : \A k \in Bad : n <= k
    BY Least
  <2>2. n # 0
    BY <1>9, <2>1
  <2>3. n - 1 \in Nat /\ n - 1 \notin Bad
    BY <2>1, <2>2
  <2>4. Q(n - 1 + 1) /\ n - 1 + 1 = n
    BY <1>10, <2>3
  <2>5. QED
    BY <2>1, <2>4
<1>12. h[K] = Cardinality(In(K))
  <2>1. Q(Cardinality(K)) /\ K \in SUBSET K
    BY <1>8, <1>11
  <2>2. QED
    BY <2>1 DEF Q
<1>13. QED
  BY <1>5, <1>7, <1>12

-----------------------------------------------------------------------------
PowersEq(f, T) ==
    f = [s \in SUBSET T |->
            IF s = {} THEN 0 ELSE twoTo[(CHOOSE x \in s : TRUE) - 1]
                                  + f[s \ {CHOOSE x \in s : TRUE}]]

(* The recursion of a sum of powers of two.                                *)
LEMMA PowersIs ==
    ASSUME NEW T, NEW g, \A k \in T : g[k] = twoTo[k - 1], NEW f
    PROVE  PowersEq(f, T) <=> SumEq(f, g, T)
<1> DEFINE c(s) == CHOOSE x \in s : TRUE
           A == [s \in SUBSET T |-> IF s = {} THEN 0 ELSE twoTo[c(s) - 1] + f[s \ {c(s)}]]
           B == [s \in SUBSET T |-> IF s = {} THEN 0 ELSE g[c(s)] + f[s \ {c(s)}]]
<1>1. ASSUME NEW s \in SUBSET T PROVE A[s] = B[s]
  <2>1. CASE s = {}
    BY <2>1
  <2>2. CASE s # {}
    <3>1. c(s) \in T
      BY <2>2
    <3>2. twoTo[c(s) - 1] = g[c(s)]
      BY <3>1
    <3> HIDE DEF c
    <3>3. QED
      BY <2>2, <3>2
  <2>3. QED
    BY <2>1, <2>2
<1>2. A = [s \in SUBSET T |-> A[s]]
  OBVIOUS
<1>3. B = [s \in SUBSET T |-> B[s]]
  OBVIOUS
<1>4. A = B
  <2> HIDE DEF A, B
  <2>1. QED
    BY <1>1, <1>2, <1>3, Zenon
<1>5. (PowersEq(f, T) <=> f = A) /\ (SumEq(f, g, T) <=> f = B)
  BY Zenon DEF PowersEq, SumEq
<1> HIDE DEF A, B
<1>6. QED
  BY <1>4, <1>5, Zenon

SumOfTwos(T) == MapThenSumSet(LAMBDA i : twoTo[i - 1], T)

(* The sum of powers of two is the sum of the sum function.                *)
LEMMA SumOfPowers ==
    ASSUME NEW D, IsFiniteSet(D), NEW g, \A k \in D : g[k] = twoTo[k - 1],
           NEW h, IsSum(h, g, D), NEW T \in SUBSET D
    PROVE  SumOfTwos(T) = h[T]
<1> DEFINE e == CHOOSE f : PowersEq(f, T)
<1>1. SumOfTwos(T) = e[T]
  BY Zenon DEF SumOfTwos, MapThenSumSet, MapThenFoldSet, PowersEq
<1>2. \E f : SumEq(f, g, T)
  BY SumIs
<1>3. \E f : PowersEq(f, T)
  BY <1>2, PowersIs
<1>4. PowersEq(e, T)
  BY <1>3, Zenon
<1> HIDE DEF e
<1>5. SumEq(e, g, T)
  BY <1>4, PowersIs
<1>6. e[T] = h[T]
  BY <1>5, SumIs
<1>7. QED
  BY <1>1, <1>6

(* The value of a vector is the sum of the powers of its bits.             *)
LEMMA InterpretIsSum ==
    ASSUME NEW V, NEW m \in [V -> BOOLEAN], NEW lits \in Seq(V)
    PROVE  interpret(m, lits) = SumOfTwos({j \in DOMAIN lits : m[lits[j]]})
<1>1. PICK n \in Nat : n = Len(lits)
  OBVIOUS
<1> DEFINE D == 1 .. n
           g == [i \in D |-> twoTo[i - 1]]
           T(k) == {j \in D : k <= j /\ m[lits[j]]}
<1>2. PICK val : IsBinary(val, m, lits)
  BY InterpretIsBinary
<1>3. /\ val \in [1 .. n + 1 -> Nat] /\ interpret(m, lits) = val[1] /\ val[n + 1] = 0
      /\ \A k \in 1 .. n : val[k] = 2 * val[k + 1] + BitOf(m, lits, k)
  BY <1>1, <1>2 DEF IsBinary
<1>4. IsFiniteSet(D)
  BY FS_Interval
<1>5. g \in [D -> Nat]
  <2>1. \A i \in D : i - 1 \in Nat
    OBVIOUS
  <2>2. QED
    BY <2>1, PowerPositive
<1>6. PICK h : IsSum(h, g, D)
  <2> HIDE DEF D, g
  <2>1. QED
    BY <1>4, <1>5, SumExists
<1> DEFINE Q(j) == h[T(n + 1 - j)] = twoTo[n - j] * val[n + 1 - j]
           Bad == {j \in 0 .. n : ~Q(j)}
<1>7. Q(0)
  <2>1. T(n + 1 - 0) = {}
    OBVIOUS
  <2>2. h[{}] = 0
    BY <1>6 DEF IsSum
  <2>3. val[n + 1 - 0] = 0 /\ twoTo[n - 0] \in Nat
    BY <1>3, PowerPositive
  <2>4. PICK x \in Nat : x = twoTo[n - 0]
    BY <2>3
  <2> HIDE DEF T
  <2>5. h[T(n + 1 - 0)] = 0
    BY <2>1, <2>2
  <2>6. x * 0 = 0
    OBVIOUS
  <2>7. QED
    BY <2>3, <2>4, <2>5, <2>6
<1>8. ASSUME NEW j \in 0 .. n - 1, Q(j) PROVE Q(j + 1)
  <2>1. PICK k \in 1 .. n : k = n - j
    OBVIOUS
  <2>2. n + 1 - j = k + 1 /\ n - j = k /\ n + 1 - (j + 1) = k /\ n - (j + 1) = k - 1
    BY <2>1
  <2>3. PICK a \in Nat : a = twoTo[k - 1] /\ twoTo[k] = 2 * a
    <3>1. PICK i \in Nat : i = k - 1 /\ k = i + 1
      OBVIOUS
    <3>2. twoTo[i + 1] = 2 * twoTo[i] /\ twoTo[i] \in Nat
      BY TwoTo, PowerPositive
    <3>3. QED
      BY <3>1, <3>2
  <2>4. PICK v \in Nat : v = val[k + 1]
    <3>1. k + 1 \in 1 .. n + 1
      OBVIOUS
    <3>2. QED
      BY <1>3, <3>1
  <2>5. h[T(k + 1)] = 2 * a * v
    <3>1. h[T(n + 1 - j)] = twoTo[n - j] * val[n + 1 - j]
      BY <1>8
    <3> HIDE DEF T
    <3>2. QED
      BY <2>2, <2>3, <2>4, <3>1
  <2>6. CASE m[lits[k]]
    <3>1. val[k] = 2 * v + 1
      BY <1>3, <2>4, <2>6 DEF BitOf
    <3>2. k \in T(k) /\ T(k) \ {k} = T(k + 1) /\ T(k) \in SUBSET D
      BY <2>6
    <3>3. g[k] = a
      BY <2>3
    <3>4. h[T(k)] = a + h[T(k + 1)]
      <4> HIDE DEF T, g, D
      <4>1. h[T(k)] = g[k] + h[T(k) \ {k}]
        BY <1>6, <3>2 DEF IsSum
      <4>2. QED
        BY <3>2, <3>3, <4>1
    <3>5. a + 2 * a * v = a * (2 * v + 1)
      OBVIOUS
    <3> HIDE DEF T
    <3>6. QED
      BY <2>2, <2>3, <2>5, <3>1, <3>4, <3>5
  <2>7. CASE ~m[lits[k]]
    <3>1. val[k] = 2 * v + 0
      BY <1>3, <2>4, <2>7 DEF BitOf
    <3>2. T(k) = T(k + 1)
      BY <2>7
    <3>3. 2 * a * v = a * (2 * v + 0)
      OBVIOUS
    <3> HIDE DEF T
    <3>4. QED
      BY <2>2, <2>3, <2>5, <3>1, <3>2, <3>3
  <2>8. QED
    BY <2>6, <2>7
<1> HIDE DEF Q
<1>9. Bad = {}
  <2> SUFFICES ASSUME Bad # {} PROVE FALSE
    OBVIOUS
  <2>1. PICK j \in Bad : \A k \in Bad : j <= k
    <3>1. Bad \in SUBSET Nat
      OBVIOUS
    <3>2. QED
      BY <3>1, Least
  <2>2. j # 0
    BY <1>7
  <2>3. j - 1 \in 0 .. n - 1 /\ j - 1 \notin Bad
    BY <2>1, <2>2
  <2>4. Q(j - 1 + 1)
    BY <1>8, <2>3
  <2>5. QED
    BY <2>1, <2>4
<1>10. h[T(1)] = val[1]
  <2>1. Q(n)
    BY <1>9
  <2>2. n + 1 - n = 1 /\ n - n = 0 /\ twoTo[0] = 1 /\ val[1] \in Nat
    BY <1>3, TwoTo
  <2>3. h[T(n + 1 - n)] = twoTo[n - n] * val[n + 1 - n]
    BY <2>1 DEF Q
  <2> HIDE DEF T
  <2>4. QED
    BY <2>2, <2>3
<1>11. T(1) = {j \in DOMAIN lits : m[lits[j]]} /\ T(1) \in SUBSET D
  BY <1>1
<1>12. \A k \in D : g[k] = twoTo[k - 1]
  OBVIOUS
<1> HIDE DEF T, D, g
<1>13. SumOfTwos(T(1)) = h[T(1)]
  BY <1>4, <1>6, <1>11, <1>12, SumOfPowers
<1>14. QED
  BY <1>3, <1>10, <1>11, <1>13

-----------------------------------------------------------------------------
(* The entropy of a histogram: the product of v^v over the buckets.        *)

(* A power of a positive number is positive; powers of a product.          *)
LEMMA PowerFacts ==
    ASSUME NEW u \in Nat, NEW v \in Nat
    PROVE  /\ u > 0 => \A n \in Nat : Power(u, n) > 0
           /\ u * v \in Nat
           /\ \A n \in Nat : Power(u * v, n) = Power(u, n) * Power(v, n)
<1>1. ASSUME u > 0, NEW n \in Nat PROVE Power(u, n) > 0
  <2> DEFINE G == {k \in Nat : Power(u, k) > 0}
  <2>1. 0 \in G
    BY PowerIs
  <2>2. ASSUME NEW k \in Nat, k \in G PROVE k + 1 \in G
    <3>1. PICK p \in Nat : p = Power(u, k) /\ p > 0
      BY <2>2, PowerIs
    <3>2. Power(u, k + 1) = u * p
      BY <3>1, PowerIs
    <3>3. u * p > 0
      BY <1>1, <3>1
    <3>4. QED
      BY <3>2, <3>3
  <2> HIDE DEF G
  <2>3. n \in G
    BY <2>1, <2>2, UpFromZero
  <2>4. QED
    BY <2>3 DEF G
<1>2. u * v \in Nat
  OBVIOUS
<1>3. ASSUME NEW n \in Nat PROVE Power(u * v, n) = Power(u, n) * Power(v, n)
  <2> DEFINE G == {k \in Nat : Power(u * v, k) = Power(u, k) * Power(v, k)}
  <2>0. PICK w \in Nat : w = u * v
    BY <1>2
  <2>1. 0 \in G
    BY <1>2, PowerIs
  <2>2. ASSUME NEW k \in Nat, k \in G PROVE k + 1 \in G
    <3>1. PICK p \in Nat, q \in Nat : p = Power(u, k) /\ q = Power(v, k)
      BY PowerIs
    <3>2. Power(u, k + 1) = u * p /\ Power(v, k + 1) = v * q /\ Power(w, k + 1) = w * Power(w, k)
      BY <3>1, PowerIs
    <3>3. Power(w, k) = p * q
      BY <2>0, <2>2, <3>1
    <3>4. (u * v) * (p * q) = (u * p) * (v * q)
      OBVIOUS
    <3>5. QED
      BY <2>0, <3>2, <3>3, <3>4
  <2> HIDE DEF G
  <2>3. n \in G
    BY <2>1, <2>2, UpFromZero
  <2>4. QED
    BY <2>3 DEF G
<1>4. QED
  BY <1>1, <1>2, <1>3

(* Bernoulli's inequality, without fractions.                              *)
LEMMA Bernoulli ==
    ASSUME NEW a \in Nat, NEW n \in Nat
    PROVE  Power(a, n) * (a + 1) >= Power(a + 1, n) * (a + 1 - n)
<1> DEFINE G == {k \in Nat : Power(a, k) * (a + 1) >= Power(a + 1, k) * (a + 1 - k)}
<1>1. 0 \in G
  BY PowerIs
<1>2. ASSUME NEW k \in Nat, k \in G PROVE k + 1 \in G
  <2>1. PICK c \in Nat : c = a + 1
    OBVIOUS
  <2>2. PICK p \in Nat, q \in Nat : p = Power(a, k) /\ q = Power(c, k)
    BY <2>1, PowerIs
  <2>3. Power(a, k + 1) = a * p /\ Power(c, k + 1) = c * q
    BY <2>1, <2>2, PowerIs
  <2>4. p * c >= q * (c - k)
    BY <1>2, <2>1, <2>2
  <2>5. a * (p * c) >= a * (q * (c - k))
    <3>1. PICK x \in Int, y \in Int : x = p * c /\ y = q * (c - k)
      OBVIOUS
    <3>2. x >= y
      BY <2>4, <3>1
    <3>3. a * x >= a * y
      BY <3>2
    <3>4. QED
      BY <3>1, <3>3
  <2>6. a * (q * (c - k)) = (c * q) * (c - (k + 1)) + q * k
    BY <2>1
  <2>7. q * k >= 0
    OBVIOUS
  <2>8. (a * p) * c >= (c * q) * (c - (k + 1))
    <3>1. a * (p * c) = (a * p) * c
      OBVIOUS
    <3>2. PICK x \in Int, y \in Int, z \in Int, t \in Int :
             x = (a * p) * c /\ y = a * (q * (c - k)) /\ z = (c * q) * (c - (k + 1)) /\ t = q * k
      OBVIOUS
    <3>3. x >= y /\ y = z + t /\ t >= 0
      BY <2>5, <2>6, <2>7, <3>1, <3>2
    <3>4. QED
      BY <3>2, <3>3
  <2>9. QED
    BY <2>1, <2>3, <2>8
<1> HIDE DEF G
<1>3. n \in G
  BY <1>1, <1>2, UpFromZero
<1>4. QED
  BY <1>3 DEF G

(* A common positive factor.                                               *)
LEMMA Cancel ==
    ASSUME NEW c \in Nat, c > 0, NEW x \in Int, NEW y \in Int, c * x <= c * y
    PROVE  x <= y
<1> SUFFICES ASSUME x >= y + 1 PROVE FALSE
  OBVIOUS
<1>1. c * x >= c * (y + 1)
  OBVIOUS
<1>2. c * (y + 1) = c * y + c
  OBVIOUS
<1>3. PICK p \in Int, q \in Int : p = c * x /\ q = c * y
  OBVIOUS
<1>4. QED
  BY <1>1, <1>2, <1>3

(* Products keep an order between numbers that are not negative.           *)
LEMMA Multiply ==
    ASSUME NEW p \in Nat, NEW q \in Nat, NEW x \in Nat, NEW y \in Nat, p <= q, x <= y
    PROVE  p * x <= q * y
<1>1. p * x <= q * x
  OBVIOUS
<1>2. q * x <= q * y
  OBVIOUS
<1>3. p * x \in Nat /\ q * x \in Nat /\ q * y \in Nat
  OBVIOUS
<1>4. PICK k \in Nat, l \in Nat, m \in Nat : k = p * x /\ l = q * x /\ m = q * y
  BY <1>3
<1>5. QED
  BY <1>1, <1>2, <1>4

(* What a bucket of v inputs contributes to the entropy.                   *)
Weight == [v \in Nat |-> IF v \in {0, 1} THEN 1 ELSE Power(v, v)]

(* It is a positive number, v^v.                                           *)
LEMMA WeightIs ==
    /\ Weight \in [Nat -> Nat]
    /\ Weight[0] = 1 /\ Weight[1] = 1
    /\ \A v \in Nat : Weight[v] > 0 /\ Weight[v] = Power(v, v)
<1>1. Weight[0] = 1 /\ Weight[1] = 1 /\ Power(0, 0) = 1
  BY PowerIs DEF Weight
<1>2. Power(1, 1) = 1
  <2>1. Power(1, 0 + 1) = 1 * Power(1, 0) /\ Power(1, 0) = 1
    BY PowerIs
  <2>2. QED
    BY <2>1
<1>3. ASSUME NEW v \in Nat PROVE Weight[v] \in Nat /\ Weight[v] > 0 /\ Weight[v] = Power(v, v)
  <2>1. CASE v \in {0, 1}
    BY <1>1, <1>2, <2>1
  <2>2. CASE v \notin {0, 1}
    <3>1. v > 0
      BY <2>2
    <3>2. Weight[v] = Power(v, v)
      BY <2>2 DEF Weight
    <3>3. Power(v, v) \in Nat /\ Power(v, v) > 0
      BY <3>1, PowerIs, PowerFacts
    <3>4. QED
      BY <3>2, <3>3
  <2>3. QED
    BY <2>1, <2>2
<1>4. Weight = [v \in Nat |-> Weight[v]]
  BY DEF Weight
<1>5. QED
  BY <1>1, <1>3, <1>4

(* The weights grow ever faster: (n+1)^(n+1) / n^n grows with n.           *)
LEMMA WeightIsConvex ==
    ASSUME NEW n \in Nat
    PROVE  Weight[n + 1] * Weight[n + 1] <= Weight[n] * Weight[n + 2]
<1>1. PICK c \in Nat, d \in Nat : c = n + 1 /\ d = n + 2
  OBVIOUS
<1>2. PICK a \in Nat, B \in Nat : a = n * d /\ B = c * c /\ B = a + 1 /\ B > 0
  <2>1. n * d \in Nat /\ c * c \in Nat /\ c * c = n * d + 1
    BY <1>1
  <2>2. QED
    BY <2>1
<1>3. PICK x \in Nat, y \in Nat, z \in Nat :
         x = Power(c, n) /\ y = Power(n, n) /\ z = Power(d, n)
  BY PowerIs
<1>4. PICK p \in Nat, q \in Nat : p = y * z /\ q = x * x
  OBVIOUS
<1>5. Power(a, n) = p /\ Power(B, n) = q
  BY <1>2, <1>3, <1>4, PowerFacts
<1>6. p * B >= q * (B - n)
  <2>1. Power(a, n) * (a + 1) >= Power(a + 1, n) * (a + 1 - n)
    BY Bernoulli
  <2>2. Power(a, n) * B >= Power(B, n) * (B - n)
    BY <1>2, <2>1
  <2>3. QED
    BY <1>5, <2>2
<1>7. Weight[n] = y /\ Weight[n + 1] = c * x /\ Weight[n + 2] = d * (d * z)
  <2>1. Weight[n] = y
    BY <1>3, WeightIs
  <2>2. Weight[c] = Power(c, n + 1) /\ Power(c, n + 1) = c * x
    BY <1>1, <1>3, WeightIs, PowerIs
  <2>3. Weight[d] = Power(d, c + 1)
    BY <1>1, WeightIs
  <2>4. Power(d, c + 1) = d * Power(d, c) /\ Power(d, n + 1) = d * z
    BY <1>3, PowerIs
  <2>5. QED
    BY <1>1, <2>1, <2>2, <2>3, <2>4
<1>8. B * B <= (B - n) * (d * d)
  <2>1. B - n = n * n + n + 1 /\ d * d = n * n + 4 * n + 4 /\ B = n * n + 2 * n + 1
    BY <1>1, <1>2
  <2>2. PICK s \in Nat : s = n * n
    OBVIOUS
  <2>3. (s + n + 1) * (s + 4 * n + 4)
          = (s + 2 * n + 1) * (s + 2 * n + 1) + (n * s + 3 * s + 4 * n + 3)
    <3>1. n * n = s
      BY <2>2
    <3>2. QED
      BY <3>1
  <2>4. n * s + 3 * s + 4 * n + 3 >= 0
    OBVIOUS
  <2>5. PICK l \in Int, r \in Int, e \in Int :
           l = (s + 2 * n + 1) * (s + 2 * n + 1) /\ r = (s + n + 1) * (s + 4 * n + 4)
           /\ e = n * s + 3 * s + 4 * n + 3
    OBVIOUS
  <2>6. l <= r
    BY <2>3, <2>4, <2>5
  <2>7. QED
    BY <2>1, <2>2, <2>5, <2>6
<1>9. B * (B * q) <= B * (p * (d * d))
  <2>1. PICK g \in Nat, e \in Int : g = d * d /\ e = B - n
    OBVIOUS
  <2>2. e >= 0
    BY <1>1, <1>2, <2>1
  <2>3. (q * e) * g <= (p * B) * g
    <3>1. PICK k \in Nat, l \in Nat : k = q * e /\ l = p * B
      BY <2>1, <2>2
    <3>2. k <= l
      BY <1>6, <2>1, <3>1
    <3>3. k * g <= l * g
      BY <3>2
    <3>4. QED
      BY <3>1, <3>3
  <2>4. q * (B * B) <= q * (e * g)
    <3>1. PICK k \in Nat, l \in Nat : k = B * B /\ l = e * g
      BY <2>1, <2>2
    <3>2. k <= l
      BY <1>8, <2>1, <3>1
    <3>3. q * k <= q * l
      BY <3>2
    <3>4. QED
      BY <3>1, <3>3
  <2>5. q * (e * g) = (q * e) * g /\ (p * B) * g = B * (p * g) /\ q * (B * B) = B * (B * q)
    BY <2>1
  <2>6. QED
    BY <2>1, <2>3, <2>4, <2>5
<1>10. B * q <= p * (d * d)
  BY <1>2, <1>9, Cancel
<1>11. B * q = (c * x) * (c * x) /\ p * (d * d) = y * (d * (d * z))
  BY <1>2, <1>4
<1>12. QED
  BY <1>7, <1>10, <1>11

(* An input more weighs more in the larger one of two buckets.             *)
LEMMA RatiosGrow ==
    ASSUME NEW j \in Nat, NEW n \in Nat
    PROVE  Weight[j + n] * Weight[j + 1] <= Weight[j + n + 1] * Weight[j]
<1> DEFINE G == {k \in Nat : Weight[j + k] * Weight[j + 1] <= Weight[j + k + 1] * Weight[j]}
<1>0. \A k \in Nat : Weight[k] \in Nat /\ Weight[k] > 0
  BY WeightIs
<1>1. 0 \in G
  <2>1. PICK x \in Nat, y \in Nat : x = Weight[j] /\ y = Weight[j + 1]
    BY <1>0
  <2>2. x * y <= y * x
    OBVIOUS
  <2>3. j + 0 = j
    OBVIOUS
  <2>4. QED
    BY <2>1, <2>2, <2>3
<1>2. ASSUME NEW k \in Nat, k \in G PROVE k + 1 \in G
  <2>1. PICK p \in Nat, q \in Nat, r \in Nat, x \in Nat, y \in Nat :
           /\ p = Weight[j + k] /\ q = Weight[j + k + 1] /\ r = Weight[j + k + 2]
           /\ x = Weight[j] /\ y = Weight[j + 1]
           /\ p > 0
    <3>1. Weight[j] \in Nat /\ Weight[j + 1] \in Nat
      BY <1>0
    <3>2. Weight[j + k] \in Nat /\ Weight[j + k] > 0
      BY <1>0
    <3>3. Weight[j + k + 1] \in Nat /\ Weight[j + k + 2] \in Nat
      BY <1>0
    <3>4. QED
      BY <3>1, <3>2, <3>3
  <2>2. p * y <= q * x
    BY <1>2, <2>1
  <2>3. q * q <= p * r
    <3>1. j + k \in Nat
      OBVIOUS
    <3>2. QED
      BY <2>1, <3>1, WeightIsConvex
  <2>4. p * (q * y) <= p * (r * x)
    <3>1. PICK l \in Nat, m \in Nat, s \in Nat, t \in Nat :
             l = p * y /\ m = q * x /\ s = q * q /\ t = p * r
      OBVIOUS
    <3>2. q * l <= q * m
      BY <2>2, <3>1
    <3>3. x * s <= x * t
      BY <2>3, <3>1
    <3>4. q * l = p * (q * y) /\ q * m = x * s /\ x * t = p * (r * x)
      BY <3>1
    <3>5. PICK e \in Nat, f \in Nat, g \in Nat : e = p * (q * y) /\ f = x * s /\ g = p * (r * x)
      OBVIOUS
    <3>6. QED
      BY <3>2, <3>3, <3>4, <3>5
  <2>5. q * y <= r * x
    BY <2>1, <2>4, Cancel
  <2>6. j + (k + 1) = j + k + 1 /\ j + (k + 1) + 1 = j + k + 2
    OBVIOUS
  <2>7. QED
    BY <2>1, <2>5, <2>6
<1> HIDE DEF G
<1>3. n \in G
  BY <1>1, <1>2, UpFromZero
<1>4. QED
  BY <1>3 DEF G

(* So do x inputs.                                                         *)
LEMMA LargerTakesMore ==
    ASSUME NEW a \in Nat, NEW j \in Nat, j <= a, NEW x \in Nat
    PROVE  Weight[a] * Weight[j + x] <= Weight[a + x] * Weight[j]
<1> DEFINE G == {k \in Nat : Weight[a] * Weight[j + k] <= Weight[a + k] * Weight[j]}
<1>0. \A k \in Nat : Weight[k] \in Nat /\ Weight[k] > 0
  BY WeightIs
<1>1. 0 \in G
  <2>1. a + 0 = a /\ j + 0 = j
    OBVIOUS
  <2>2. PICK p \in Nat : p = Weight[a] * Weight[j]
    BY <1>0
  <2>3. QED
    BY <2>1, <2>2
<1>2. ASSUME NEW k \in Nat, k \in G PROVE k + 1 \in G
  <2>1. PICK w \in Nat, u \in Nat, v \in Nat, p \in Nat, q \in Nat, s \in Nat :
           /\ w = Weight[a] /\ u = Weight[j + k] /\ v = Weight[j + k + 1]
           /\ p = Weight[a + k] /\ q = Weight[a + k + 1] /\ s = Weight[j]
           /\ p > 0 /\ u > 0
    <3>1. Weight[j] \in Nat /\ Weight[a] \in Nat
      BY <1>0
    <3>2. Weight[j + k] \in Nat /\ Weight[j + k] > 0 /\ Weight[j + k + 1] \in Nat
      BY <1>0
    <3>3. Weight[a + k] \in Nat /\ Weight[a + k] > 0 /\ Weight[a + k + 1] \in Nat
      BY <1>0
    <3>4. QED
      BY <3>1, <3>2, <3>3
  <2>2. w * u <= p * s
    BY <1>2, <2>1
  <2>3. p * v <= q * u
    <3>1. PICK i \in Nat : i = j + k
      OBVIOUS
    <3>2. PICK n \in Nat : n = a - j
      OBVIOUS
    <3>3. i + n = a + k /\ i + n + 1 = a + k + 1 /\ i + 1 = j + k + 1
      BY <3>1, <3>2
    <3>4. Weight[i + n] * Weight[i + 1] <= Weight[i + n + 1] * Weight[i]
      BY RatiosGrow
    <3>5. QED
      BY <2>1, <3>1, <3>3, <3>4
  <2>4. (u * p) * (w * v) <= (u * p) * (q * s)
    <3>1. PICK l \in Nat, m \in Nat, f \in Nat, g \in Nat :
             l = w * u /\ m = p * s /\ f = p * v /\ g = q * u
      OBVIOUS
    <3>2. l * f <= m * g
      BY <2>2, <2>3, <3>1, Multiply
    <3>3. l * f = (u * p) * (w * v) /\ m * g = (u * p) * (q * s)
      BY <3>1
    <3>4. QED
      BY <3>2, <3>3
  <2>5. u * p \in Nat /\ u * p > 0
    BY <2>1
  <2>6. w * v <= q * s
    BY <2>4, <2>5, Cancel
  <2>7. j + (k + 1) = j + k + 1 /\ a + (k + 1) = a + k + 1
    OBVIOUS
  <2>8. QED
    BY <2>1, <2>6, <2>7
<1> HIDE DEF G
<1>3. x \in G
  BY <1>1, <1>2, UpFromZero
<1>4. QED
  BY <1>3 DEF G

(* More inputs weigh at least as much.                                     *)
LEMMA WeightsGrow ==
    ASSUME NEW v \in Nat, NEW x \in Nat
    PROVE  Weight[v] <= Weight[v + x]
<1>1. Weight[v] * Weight[x] <= Weight[v + x] * Weight[0]
  <2>1. PICK j \in Nat : j = 0 /\ j <= v /\ j + x = x
    OBVIOUS
  <2>2. Weight[v] * Weight[j + x] <= Weight[v + x] * Weight[j]
    BY <2>1, LargerTakesMore
  <2>3. QED
    BY <2>1, <2>2
<1>2. PICK p \in Nat, q \in Nat, r \in Nat :
         p = Weight[v] /\ q = Weight[x] /\ r = Weight[v + x] /\ q > 0
  BY WeightIs
<1>3. p * q <= r
  BY <1>1, <1>2, WeightIs
<1>4. p <= p * q
  BY <1>2
<1>5. PICK s \in Nat : s = p * q
  OBVIOUS
<1>6. QED
  BY <1>2, <1>3, <1>4, <1>5

-----------------------------------------------------------------------------
(* A product over the subsets of D may take out any element first.         *)
IsProduct(h, g, D) ==
    /\ h \in [SUBSET D -> Nat]
    /\ h[{}] = 1
    /\ \A s \in SUBSET D : \A x \in s : h[s] = g[x] * h[s \ {x}]

(* Numbers have a product, in whatever order they are taken.               *)
LEMMA ProductExists ==
    ASSUME NEW D, IsFiniteSet(D), NEW g \in [D -> Nat]
    PROVE  \E h : IsProduct(h, g, D)
<1> DEFINE step == [k \in D |-> [n \in Nat |-> g[k] * n]]
<1>1. step \in [D -> [Nat -> Nat]]
  <2>1. \A k \in D, n \in Nat : g[k] * n \in Nat
    OBVIOUS
  <2>2. QED
    BY <2>1
<1>2. \A k \in D, n \in Nat : step[k][n] = g[k] * n /\ g[k] * n \in Nat
  OBVIOUS
<1> HIDE DEF step
<1>3. ASSUME NEW x \in D, NEW y \in D, NEW t \in Nat
      PROVE  step[x][step[y][t]] = step[y][step[x][t]]
  <2>1. PICK p \in Nat, q \in Nat : p = g[x] /\ q = g[y]
    OBVIOUS
  <2>2. step[x][step[y][t]] = p * (q * t) /\ step[y][step[x][t]] = q * (p * t)
    BY <1>2, <2>1
  <2>3. p * (q * t) = q * (p * t)
    OBVIOUS
  <2>4. QED
    BY <2>2, <2>3
<1>4. PICK h : IsAnyFold(h, D, Nat, 1, step)
  BY <1>1, <1>3, AnyFoldExists
<1>5. ASSUME NEW s \in SUBSET D, NEW x \in s PROVE h[s] = g[x] * h[s \ {x}]
  <2>1. h[s] = step[x][h[s \ {x}]] /\ h[s \ {x}] \in Nat
    BY <1>4 DEF IsAnyFold
  <2>2. QED
    BY <1>2, <2>1
<1>6. IsProduct(h, g, D)
  BY <1>4, <1>5 DEF IsAnyFold, IsProduct
<1>7. QED
  BY <1>6

(* A formula about the subsets of a finite set, proved by adding elements. *)
LEMMA SubsetsFromEmpty ==
    ASSUME NEW D, IsFiniteSet(D), NEW G, {} \in G,
           \A s \in SUBSET D : \A x \in s : s \ {x} \in G => s \in G
    PROVE  \A s \in SUBSET D : s \in G
<1> DEFINE N == {n \in Nat : \A s \in SUBSET D : Cardinality(s) = n => s \in G}
<1>1. \A s \in SUBSET D : IsFiniteSet(s) /\ Cardinality(s) \in Nat
  BY FS_Subset, FS_CardinalityType
<1>2. 0 \in N
  BY <1>1, FS_EmptySet
<1>3. ASSUME NEW n \in Nat, n \in N PROVE n + 1 \in N
  <2> SUFFICES ASSUME NEW s \in SUBSET D, Cardinality(s) = n + 1 PROVE s \in G
    OBVIOUS
  <2>1. PICK x \in s : TRUE
    BY <1>1, FS_EmptySet
  <2>2. Cardinality(s \ {x}) = n /\ s \ {x} \in SUBSET D
    BY <1>1, <2>1, OneLess
  <2>3. s \ {x} \in G
    BY <1>3, <2>2
  <2>4. QED
    BY <2>1, <2>3
<1> HIDE DEF N
<1>4. \A n \in Nat : n \in N
  BY <1>2, <1>3, UpFromZero
<1>5. QED
  BY <1>1, <1>4 DEF N

WeightsEq(f, sizes) ==
    f = [s \in SUBSET (DOMAIN sizes) |->
            IF s = {} THEN 1
            ELSE (IF sizes[CHOOSE x \in s : TRUE] \in {0, 1} THEN 1
                  ELSE Power(sizes[CHOOSE x \in s : TRUE], sizes[CHOOSE x \in s : TRUE]))
                 * f[s \ {CHOOSE x \in s : TRUE}]]

(* shannon_entropy is the product of the weights.                          *)
LEMMA EntropyIs ==
    ASSUME NEW D, IsFiniteSet(D), NEW sizes \in [D -> Nat],
           NEW h, IsProduct(h, [k \in D |-> Weight[sizes[k]]], D)
    PROVE  shannon_entropy(sizes) = h[D]
<1> DEFINE c(s) == CHOOSE x \in s : TRUE
           e == CHOOSE f : WeightsEq(f, sizes)
           w(k) == IF sizes[k] \in {0, 1} THEN 1 ELSE Power(sizes[k], sizes[k])
           g == [k \in D |-> Weight[sizes[k]]]
<1>0. DOMAIN sizes = D
  OBVIOUS
<1>1. shannon_entropy(sizes) = e[D]
  <2>1. shannon_entropy(sizes) = e[DOMAIN sizes]
    BY Zenon DEF shannon_entropy, MapThenFoldSet, WeightsEq
  <2> HIDE DEF e
  <2>2. QED
    BY <1>0, <2>1
<1>2. \A s \in SUBSET D : s # {} => c(s) \in s
  OBVIOUS
<1>3. \A k \in D : w(k) = Weight[sizes[k]] /\ g[k] = Weight[sizes[k]]
  BY DEF Weight
<1>4. ASSUME NEW s \in SUBSET D
      PROVE  h[s] = IF s = {} THEN 1 ELSE w(c(s)) * h[s \ {c(s)}]
  <2>1. CASE s = {}
    BY <2>1 DEF IsProduct
  <2>2. CASE s # {}
    <3>1. c(s) \in s /\ c(s) \in D
      BY <1>2, <2>2
    <3> HIDE DEF c, w, g
    <3>2. h[s] = g[c(s)] * h[s \ {c(s)}]
      BY <3>1 DEF IsProduct, g
    <3>3. QED
      BY <1>3, <2>2, <3>1, <3>2
  <2>3. QED
    BY <2>1, <2>2
<1>5. WeightsEq(h, sizes)
  <2>1. h = [s \in SUBSET D |-> IF s = {} THEN 1 ELSE w(c(s)) * h[s \ {c(s)}]]
    <3>1. h = [s \in SUBSET D |-> h[s]]
      BY DEF IsProduct
    <3> HIDE DEF w, c
    <3>2. QED
      BY <1>4, <3>1, Zenon
  <2>2. h = [s \in SUBSET (DOMAIN sizes) |-> IF s = {} THEN 1 ELSE w(c(s)) * h[s \ {c(s)}]]
    <3> HIDE DEF w, c
    <3>1. QED
      BY <1>0, <2>1
  <2>3. QED
    BY <2>2, Zenon DEF WeightsEq, w, c
<1>6. WeightsEq(e, sizes)
  BY <1>5, Zenon
<1> HIDE DEF e
<1>7. \A s \in SUBSET D : e[s] = IF s = {} THEN 1 ELSE w(c(s)) * e[s \ {c(s)}]
  BY <1>0, <1>6, Zenon DEF WeightsEq
<1> DEFINE N == {n \in Nat : \A s \in SUBSET D : Cardinality(s) = n => e[s] = h[s]}
<1> HIDE DEF c, w, g
<1>8. \A s \in SUBSET D : IsFiniteSet(s) /\ Cardinality(s) \in Nat
  BY FS_Subset, FS_CardinalityType
<1>9. 0 \in N
  BY <1>4, <1>7, <1>8, FS_EmptySet
<1>10. ASSUME NEW n \in Nat, n \in N PROVE n + 1 \in N
  <2> SUFFICES ASSUME NEW s \in SUBSET D, Cardinality(s) = n + 1 PROVE e[s] = h[s]
    OBVIOUS
  <2>1. s # {}
    BY FS_EmptySet
  <2>2. c(s) \in s
    BY <1>2, <2>1
  <2>3. Cardinality(s \ {c(s)}) = n /\ s \ {c(s)} \in SUBSET D
    BY <1>8, <2>2, OneLess
  <2>4. e[s \ {c(s)}] = h[s \ {c(s)}]
    BY <1>10, <2>3
  <2>5. QED
    BY <1>4, <1>7, <2>1, <2>4
<1> HIDE DEF N
<1>11. \A n \in Nat : n \in N
  BY <1>9, <1>10, UpFromZero
<1>12. e[D] = h[D]
  BY <1>8, <1>11 DEF N
<1>13. QED
  BY <1>1, <1>12

(* The product of the weights of some sizes exists.                        *)
LEMMA WeightsHaveAProduct ==
    ASSUME NEW D, IsFiniteSet(D), NEW sizes \in [D -> Nat]
    PROVE  \E h : IsProduct(h, [k \in D |-> Weight[sizes[k]]], D) /\ shannon_entropy(sizes) = h[D]
<1> DEFINE g == [k \in D |-> Weight[sizes[k]]]
<1>1. g \in [D -> Nat]
  BY WeightIs
<1>2. PICK h : IsProduct(h, g, D)
  BY <1>1, ProductExists
<1>3. shannon_entropy(sizes) = h[D]
  BY <1>2, EntropyIs
<1>4. QED
  BY <1>2, <1>3

(* Larger buckets, larger entropy.                                         *)
LEMMA EntropyGrows ==
    ASSUME NEW D, IsFiniteSet(D), NEW u \in [D -> Nat], NEW v \in [D -> Nat],
           \A k \in D : u[k] <= v[k]
    PROVE  shannon_entropy(u) <= shannon_entropy(v)
<1> DEFINE gu == [k \in D |-> Weight[u[k]]]
           gv == [k \in D |-> Weight[v[k]]]
<1>1. PICK hu : IsProduct(hu, gu, D) /\ shannon_entropy(u) = hu[D]
  BY WeightsHaveAProduct
<1>2. PICK hv : IsProduct(hv, gv, D) /\ shannon_entropy(v) = hv[D]
  BY WeightsHaveAProduct
<1>3. ASSUME NEW k \in D PROVE gu[k] \in Nat /\ gv[k] \in Nat /\ gu[k] <= gv[k]
  <2>1. PICK x \in Nat : x = v[k] - u[k] /\ u[k] + x = v[k]
    OBVIOUS
  <2>2. Weight[u[k]] <= Weight[u[k] + x]
    BY WeightsGrow
  <2>3. QED
    BY <2>1, <2>2, WeightIs
<1> HIDE DEF gu, gv
<1> DEFINE G == {s \in SUBSET D : hu[s] <= hv[s]}
<1>4. {} \in G
  BY <1>1, <1>2 DEF IsProduct
<1>5. ASSUME NEW s \in SUBSET D, NEW x \in s, s \ {x} \in G PROVE s \in G
  <2>1. hu[s] = gu[x] * hu[s \ {x}] /\ hv[s] = gv[x] * hv[s \ {x}]
    BY <1>1, <1>2 DEF IsProduct
  <2>2. PICK p \in Nat, q \in Nat : p = hu[s \ {x}] /\ q = hv[s \ {x}] /\ p <= q
    <3>1. s \ {x} \in SUBSET D
      OBVIOUS
    <3>2. hu[s \ {x}] \in Nat /\ hv[s \ {x}] \in Nat
      BY <1>1, <1>2, <3>1 DEF IsProduct
    <3>3. QED
      BY <1>5, <3>2
  <2>3. gu[x] * p <= gv[x] * q
    BY <1>3, <2>2, Multiply
  <2>4. QED
    BY <2>1, <2>2, <2>3
<1> HIDE DEF G
<1>6. D \in G
  <2>1. \A s \in SUBSET D : s \in G
    BY <1>4, <1>5, SubsetsFromEmpty, Zenon
  <2>2. QED
    BY <2>1
<1>7. QED
  BY <1>1, <1>2, <1>6 DEF G

(* The inputs that are missing weigh most in the largest bucket: if the    *)
(* buckets u may grow to v with r inputs more, the entropy of v is at most *)
(* that of u with all r of them in the largest bucket of u.                *)
LEMMA LargestTakesAll ==
    ASSUME NEW D, IsFiniteSet(D), NEW u \in [D -> Nat], NEW v \in [D -> Nat],
           \A k \in D : u[k] <= v[k],
           NEW top \in D, \A k \in D : u[k] <= u[top],
           NEW su, IsSum(su, u, D), NEW sv, IsSum(sv, v, D),
           NEW r \in Nat, sv[D] <= su[D] + r
    PROVE  shannon_entropy(v)
               <= shannon_entropy([k \in D |-> u[k] + (IF k = top THEN r ELSE 0)])
<1> DEFINE z == [k \in D |-> u[k] + (IF k = top THEN r ELSE 0)]
           gu == [k \in D |-> Weight[u[k]]]
           gv == [k \in D |-> Weight[v[k]]]
           gz == [k \in D |-> Weight[z[k]]]
           rest == D \ {top}
<1>1. z \in [D -> Nat] /\ z[top] = u[top] + r /\ \A k \in rest : z[k] = u[k]
  OBVIOUS
<1>2. PICK hv : IsProduct(hv, gv, D) /\ shannon_entropy(v) = hv[D]
  BY WeightsHaveAProduct
<1>3. PICK hz : IsProduct(hz, gz, D) /\ shannon_entropy(z) = hz[D]
  <2> HIDE DEF z
  <2>1. QED
    BY <1>1, WeightsHaveAProduct
<1>4. \A k \in D : gv[k] = Weight[v[k]] /\ gz[k] = Weight[z[k]] /\ gv[k] \in Nat /\ gz[k] \in Nat
  <2>1. \A k \in D : z[k] \in Nat /\ v[k] \in Nat
    BY <1>1
  <2> HIDE DEF z
  <2>2. QED
    BY <2>1, WeightIs
<1> HIDE DEF gv, gz, z
<1>5. \A s \in SUBSET D : hv[s] \in Nat /\ hz[s] \in Nat /\ su[s] \in Nat /\ sv[s] \in Nat
  BY <1>2, <1>3 DEF IsProduct, IsSum
<1> DEFINE grown(s) == v[top] + (sv[s] - su[s])
           G == {s \in SUBSET rest :
                    /\ su[s] <= sv[s]
                    /\ Weight[v[top]] * hv[s] <= Weight[grown(s)] * hz[s]}
<1>6. {} \in G
  <2>1. hv[{}] = 1 /\ hz[{}] = 1 /\ su[{}] = 0 /\ sv[{}] = 0
    BY <1>2, <1>3 DEF IsProduct, IsSum
  <2>2. grown({}) = v[top] /\ Weight[v[top]] \in Nat
    BY <2>1, WeightIs
  <2> HIDE DEF grown
  <2>3. QED
    BY <2>1, <2>2
<1>7. ASSUME NEW s \in SUBSET rest, NEW x \in s, s \ {x} \in G PROVE s \in G
  <2>0. x \in D /\ s \in SUBSET D /\ s \ {x} \in SUBSET D /\ x # top
    OBVIOUS
  <2>1. /\ hv[s] = gv[x] * hv[s \ {x}] /\ hz[s] = gz[x] * hz[s \ {x}]
        /\ su[s] = u[x] + su[s \ {x}] /\ sv[s] = v[x] + sv[s \ {x}]
    BY <1>2, <1>3, <2>0 DEF IsProduct, IsSum
  <2>2. PICK y \in Nat : v[x] = u[x] + y
    <3>1. v[x] - u[x] \in Nat /\ v[x] = u[x] + (v[x] - u[x])
      BY <2>0
    <3>2. QED
      BY <3>1
  <2>3. PICK a \in Nat : a = grown(s \ {x}) /\ grown(s) = a + y /\ u[x] <= a /\ su[s] <= sv[s]
    <3>1. su[s \ {x}] <= sv[s \ {x}] /\ u[x] <= u[top] /\ u[top] <= v[top]
      BY <1>7, <2>0
    <3>2. PICK i \in Nat, j \in Nat, k \in Nat, l \in Nat, m \in Nat :
             i = su[s \ {x}] /\ j = sv[s \ {x}] /\ k = u[x] /\ l = v[top] /\ m = u[top]
      BY <1>5, <2>0
    <3>3. su[s] = k + i /\ sv[s] = k + y + j
      BY <2>1, <2>2, <3>2
    <3>4. i <= j /\ k <= m /\ m <= l
      BY <3>1, <3>2
    <3>5. PICK n \in Nat : n = j - i
      BY <3>4
    <3>6. grown(s \ {x}) = l + n /\ grown(s) = l + n + y /\ k <= l + n /\ su[s] <= sv[s]
      BY <3>2, <3>3, <3>4, <3>5
    <3> HIDE DEF grown
    <3>7. QED
      BY <3>2, <3>6
  <2>4. PICK w \in Nat, p \in Nat, q \in Nat, e \in Nat, f \in Nat, i \in Nat, j \in Nat :
           /\ w = Weight[v[top]] /\ p = hv[s \ {x}] /\ q = hz[s \ {x}]
           /\ e = Weight[a] /\ f = Weight[a + y] /\ i = Weight[u[x]] /\ j = Weight[v[x]]
    <3>1. v[top] \in Nat /\ u[x] \in Nat /\ v[x] \in Nat /\ a + y \in Nat
      BY <2>0
    <3>2. Weight[v[top]] \in Nat /\ Weight[u[x]] \in Nat /\ Weight[v[x]] \in Nat
      BY <3>1, WeightIs
    <3>3. Weight[a] \in Nat /\ Weight[a + y] \in Nat
      BY <3>1, WeightIs
    <3>4. QED
      BY <1>5, <2>0, <3>2, <3>3
  <2>5. w * p <= e * q
    BY <1>7, <2>3, <2>4
  <2>6. e * j <= f * i
    <3>1. Weight[a] * Weight[u[x] + y] <= Weight[a + y] * Weight[u[x]]
      BY <2>0, <2>3, LargerTakesMore
    <3>2. QED
      BY <2>2, <2>4, <3>1
  <2>7. hv[s] = j * p /\ hz[s] = i * q
    <3>1. gv[x] = j /\ gz[x] = i
      BY <1>1, <1>4, <2>0, <2>4
    <3>2. QED
      BY <2>1, <2>4, <3>1
  <2>8. w * (j * p) <= f * (i * q)
    <3>1. PICK k \in Nat, l \in Nat, m \in Nat, n \in Nat :
             k = w * p /\ l = e * q /\ m = e * j /\ n = f * i
      OBVIOUS
    <3>2. j * k <= j * l
      BY <2>5, <3>1
    <3>3. q * m <= q * n
      BY <2>6, <3>1
    <3>4. j * k = w * (j * p) /\ j * l = q * m /\ q * n = f * (i * q)
      BY <3>1
    <3>5. PICK g1 \in Nat, g2 \in Nat, g3 \in Nat : g1 = j * k /\ g2 = q * m /\ g3 = q * n
      OBVIOUS
    <3>6. QED
      BY <3>2, <3>3, <3>4, <3>5
  <2> HIDE DEF grown
  <2>9. QED
    BY <2>3, <2>4, <2>7, <2>8
<1> HIDE DEF G
<1>8. rest \in G
  <2>1. IsFiniteSet(rest)
    BY FS_Subset
  <2> HIDE DEF rest
  <2>2. QED
    BY <1>6, <1>7, <2>1, SubsetsFromEmpty
<1>9. hv[D] = Weight[v[top]] * hv[rest] /\ hz[D] = Weight[u[top] + r] * hz[rest]
  <2>1. hv[D] = gv[top] * hv[D \ {top}] /\ hz[D] = gz[top] * hz[D \ {top}]
    BY <1>2, <1>3 DEF IsProduct
  <2>2. gv[top] = Weight[v[top]] /\ gz[top] = Weight[u[top] + r]
    BY <1>1, <1>4
  <2>3. QED
    BY <2>1, <2>2
<1>10. Weight[grown(rest)] <= Weight[u[top] + r]
  <2>1. su[D] = u[top] + su[rest] /\ sv[D] = v[top] + sv[rest] /\ su[rest] <= sv[rest]
    BY <1>8 DEF IsSum, G
  <2>2. PICK i \in Nat, j \in Nat, k \in Nat, l \in Nat :
           i = su[rest] /\ j = sv[rest] /\ k = u[top] /\ l = v[top]
    BY <1>5
  <2>3. grown(rest) = l + (j - i) /\ i <= j /\ l + j <= k + i + r
    BY <2>1, <2>2
  <2>4. PICK n \in Nat : n = grown(rest)
    BY <2>3
  <2>5. PICK m \in Nat : m = k + r - n /\ n + m = k + r
    BY <2>3, <2>4
  <2>6. Weight[n] <= Weight[n + m]
    BY WeightsGrow
  <2> HIDE DEF grown
  <2>7. QED
    BY <2>2, <2>4, <2>5, <2>6
<1>11. hv[D] <= hz[D]
  <2>1. Weight[v[top]] * hv[rest] <= Weight[grown(rest)] * hz[rest]
    BY <1>8 DEF G
  <2>2. PICK n \in Nat : n = grown(rest)
    <3>1. su[rest] <= sv[rest] /\ v[top] \in Nat
      BY <1>8 DEF G
    <3>2. QED
      BY <1>5, <3>1
  <2> HIDE DEF grown
  <2>3. PICK i \in Nat, j \in Nat, p \in Nat, q \in Nat :
           i = Weight[n] /\ j = Weight[u[top] + r] /\ p = hz[rest] /\ q = Weight[v[top]] * hv[rest]
    <3>1. Weight[n] \in Nat /\ Weight[u[top] + r] \in Nat /\ Weight[v[top]] \in Nat
      BY WeightIs
    <3>2. hv[rest] \in Nat /\ hz[rest] \in Nat
      BY <1>5
    <3>3. Weight[v[top]] * hv[rest] \in Nat
      BY <3>1, <3>2
    <3>4. QED
      BY <3>1, <3>2, <3>3
  <2>4. q <= i * p /\ i <= j
    BY <1>10, <2>1, <2>2, <2>3
  <2>5. i * p <= j * p
    BY <2>3, <2>4
  <2>6. PICK k \in Nat, l \in Nat : k = i * p /\ l = j * p
    OBVIOUS
  <2>7. QED
    BY <1>9, <2>3, <2>4, <2>5, <2>6
<1>12. QED
  BY <1>2, <1>3, <1>11 DEF z

(* Buckets with at most one input each leave nothing uncertain.            *)
LEMMA SingletonsWeighNothing ==
    ASSUME NEW D, IsFiniteSet(D), NEW sizes \in [D -> {0, 1}]
    PROVE  shannon_entropy(sizes) = 1
<1> DEFINE g == [k \in D |-> Weight[sizes[k]]]
<1>1. sizes \in [D -> Nat]
  OBVIOUS
<1>2. PICK h : IsProduct(h, g, D) /\ shannon_entropy(sizes) = h[D]
  BY <1>1, WeightsHaveAProduct
<1>3. \A k \in D : g[k] = 1
  BY WeightIs
<1> HIDE DEF g
<1> DEFINE G == {s \in SUBSET D : h[s] = 1}
<1>4. {} \in G
  BY <1>2 DEF IsProduct
<1>5. ASSUME NEW s \in SUBSET D, NEW x \in s, s \ {x} \in G PROVE s \in G
  <2>1. h[s] = g[x] * h[s \ {x}]
    BY <1>2 DEF IsProduct
  <2>2. QED
    BY <1>3, <1>5, <2>1
<1> HIDE DEF G
<1>6. \A s \in SUBSET D : s \in G
  BY <1>4, <1>5, SubsetsFromEmpty, Zenon
<1>7. D \in G
  BY <1>6
<1>8. QED
  BY <1>2, <1>7 DEF G

(* A sum is monotone, and none of its numbers is above it.                 *)
LEMMA SumsGrow ==
    ASSUME NEW D, IsFiniteSet(D), NEW u \in [D -> Nat], NEW v \in [D -> Nat],
           \A k \in D : u[k] <= v[k],
           NEW su, IsSum(su, u, D), NEW sv, IsSum(sv, v, D)
    PROVE  su[D] <= sv[D] /\ \A k \in D : u[k] <= su[D]
<1>1. \A s \in SUBSET D : su[s] \in Nat /\ sv[s] \in Nat
  BY DEF IsSum
<1> DEFINE G == {s \in SUBSET D : su[s] <= sv[s]}
<1>2. {} \in G
  BY DEF IsSum
<1>3. ASSUME NEW s \in SUBSET D, NEW x \in s, s \ {x} \in G PROVE s \in G
  <2>1. su[s] = u[x] + su[s \ {x}] /\ sv[s] = v[x] + sv[s \ {x}]
    BY DEF IsSum
  <2>2. s \ {x} \in SUBSET D /\ x \in D
    OBVIOUS
  <2>3. PICK i \in Nat, j \in Nat, k \in Nat, l \in Nat :
           i = su[s \ {x}] /\ j = sv[s \ {x}] /\ k = u[x] /\ l = v[x]
    BY <1>1, <2>2
  <2>4. i <= j /\ k <= l
    BY <1>3, <2>2, <2>3
  <2>5. QED
    BY <2>1, <2>3, <2>4
<1> HIDE DEF G
<1>4. D \in G
  <2>1. \A s \in SUBSET D : s \in G
    BY <1>2, <1>3, SubsetsFromEmpty, Zenon
  <2>2. QED
    BY <2>1
<1>5. ASSUME NEW k \in D PROVE u[k] <= su[D]
  <2>1. su[D] = u[k] + su[D \ {k}]
    BY DEF IsSum
  <2>2. D \ {k} \in SUBSET D
    OBVIOUS
  <2>3. PICK i \in Nat, j \in Nat : i = u[k] /\ j = su[D \ {k}]
    BY <1>1, <2>2
  <2>4. QED
    BY <2>1, <2>3
<1>6. QED
  BY <1>4, <1>5 DEF G

(* The loop that looks for the largest bucket finds one.                   *)
LEMMA LargestBucketIs ==
    ASSUME NEW buckets, DOMAIN buckets \in SUBSET Nat, IsFiniteSet(DOMAIN buckets),
           DOMAIN buckets # {}, \A k \in DOMAIN buckets : buckets[k].size \in Nat
    PROVE  /\ LargestBucket(buckets) \in DOMAIN buckets
           /\ \A k \in DOMAIN buckets : buckets[k].size <= buckets[LargestBucket(buckets)].size
<1> DEFINE D == DOMAIN buckets
           G == {s \in SUBSET D :
                    s = {} \/ \E k \in s : \A j \in s : buckets[j].size <= buckets[k].size}
<1>1. {} \in G
  OBVIOUS
<1>2. ASSUME NEW s \in SUBSET D, NEW x \in s, s \ {x} \in G PROVE s \in G
  <2>1. CASE s \ {x} = {}
    <3>1. \A j \in s : buckets[j].size <= buckets[x].size
      BY <2>1
    <3>2. QED
      BY <3>1
  <2>2. CASE s \ {x} # {}
    <3>1. PICK k \in s \ {x} : \A j \in s \ {x} : buckets[j].size <= buckets[k].size
      BY <1>2, <2>2
    <3>2. CASE buckets[x].size <= buckets[k].size
      <4>1. \A j \in s : buckets[j].size <= buckets[k].size
        BY <3>1, <3>2
      <4>2. QED
        BY <4>1
    <3>3. CASE buckets[k].size <= buckets[x].size
      <4>1. ASSUME NEW j \in s PROVE buckets[j].size <= buckets[x].size
        <5>1. PICK a \in Nat, b \in Nat, c \in Nat :
                 a = buckets[j].size /\ b = buckets[k].size /\ c = buckets[x].size
          OBVIOUS
        <5>2. j = x \/ a <= b
          BY <3>1, <5>1
        <5>3. QED
          BY <3>3, <5>1, <5>2
      <4>2. QED
        BY <4>1
    <3>4. QED
      BY <3>1, <3>2, <3>3
  <2>3. QED
    BY <2>1, <2>2
<1> HIDE DEF G
<1>3. D \in G
  <2> HIDE DEF D
  <2>1. IsFiniteSet(D)
    BY DEF D
  <2>2. \A s \in SUBSET D : s \in G
    BY <1>1, <1>2, <2>1, SubsetsFromEmpty, Zenon
  <2>3. QED
    BY <2>2
<1> DEFINE T == {k \in D : \A j \in D : buckets[j].size <= buckets[k].size}
<1>4. T \in SUBSET Nat /\ T # {}
  BY <1>3 DEF G
<1>5. PICK k \in T : \A y \in T : k <= y
  <2> HIDE DEF T
  <2>1. QED
    BY <1>4, Least
<1>6. ASSUME NEW j \in D, j < k PROVE buckets[j].size < buckets[k].size
  <2>1. j \notin T
    BY <1>4, <1>5, <1>6
  <2>2. PICK i \in D : ~(buckets[i].size <= buckets[j].size)
    BY <2>1
  <2>3. PICK a \in Nat, b \in Nat, c \in Nat :
           a = buckets[i].size /\ b = buckets[j].size /\ c = buckets[k].size
    OBVIOUS
  <2>4. a <= c /\ ~(a <= b)
    BY <2>2, <2>3
  <2>5. QED
    BY <2>3, <2>4
<1>7. \E i \in DOMAIN buckets : \A j \in DOMAIN buckets :
         /\ buckets[j].size <= buckets[i].size
         /\ j < i => buckets[j].size < buckets[i].size
  <2>1. k \in DOMAIN buckets /\ \A j \in DOMAIN buckets : buckets[j].size <= buckets[k].size
    OBVIOUS
  <2>2. QED
    BY <1>6, <2>1
<1> HIDE DEF T
<1>8. QED
  BY <1>7, Zenon DEF LargestBucket

(* There are at most 2^n vectors of n bits.                                *)
LEMMA FewVectors ==
    ASSUME NEW lits, NEW V, V = Range(lits), lits \in Seq(V)
    PROVE  IsFiniteSet([V -> BOOLEAN]) /\ Cardinality([V -> BOOLEAN]) <= twoTo[Len(lits)]
<1>1. PICK n \in Nat : n = Len(lits) /\ DOMAIN lits = 1 .. n
  OBVIOUS
<1>2. IsFiniteSet(V)
  BY SequenceIsFinite
<1>3. IsFiniteSet([V -> BOOLEAN])
  BY <1>2, FiniteVectors
<1>4. PICK p \in Nat : p = twoTo[n] /\ p > 0
  BY PowerPositive
<1> DEFINE f == [m \in [V -> BOOLEAN] |-> interpret(m, lits)]
<1>5. f \in [[V -> BOOLEAN] -> 0 .. p - 1]
  <2>1. \A m \in [V -> BOOLEAN] : interpret(m, lits) \in Nat /\ interpret(m, lits) < p
    BY <1>1, <1>4, InterpretRange
  <2>2. QED
    BY <2>1
<1>6. ASSUME NEW m \in [V -> BOOLEAN], NEW l \in [V -> BOOLEAN], f[m] = f[l] PROVE m = l
  <2>1. interpret(m, lits) = interpret(l, lits)
    BY <1>6
  <2>2. \A k \in 1 .. n : m[lits[k]] = l[lits[k]]
    BY <1>1, <2>1, InterpretInjective
  <2>3. \A v \in V : \E k \in 1 .. n : lits[k] = v
    BY <1>1 DEF Range
  <2>4. \A v \in V : m[v] = l[v]
    BY <2>2, <2>3
  <2>5. QED
    BY <2>4
<1> HIDE DEF f
<1>7. IsFiniteSet(0 .. p - 1) /\ Cardinality(0 .. p - 1) = p
  <2>1. PICK e \in Int, z \in Int : e = p - 1 /\ z = 0 /\ ~(z > e) /\ e - z + 1 = p
    BY <1>4
  <2>2. IsFiniteSet(z .. e) /\ Cardinality(z .. e) = e - z + 1
    BY <2>1, FS_Interval
  <2>3. QED
    BY <2>1, <2>2
<1>8. ~(p < Cardinality([V -> BOOLEAN]))
  BY <1>3, <1>5, <1>6, <1>7, FS_PigeonHole
<1>9. Cardinality([V -> BOOLEAN]) \in Nat
  BY <1>3, FS_CardinalityType
<1>10. QED
  BY <1>1, <1>3, <1>4, <1>8, <1>9

=============================================================================
