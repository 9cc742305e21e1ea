------------------------ MODULE PreimageCountProofs ------------------------
(***************************************************************************)
(* The abstract counter keeps its promise, for every set of programs.      *)
(***************************************************************************)
EXTENDS PreimageCount, CountingLemmas

(* The counted inputs of each output are in its bucket, and an answer that *)
(* was not allowed to be early waited for all inputs.                      *)
CountInv ==
    /\ IsProgram(relation)
    /\ IsFiniteSet(counted)
    /\ counted \subseteq AllInputs
    /\ hist = [value \in Values |-> hist[value]]
    /\ \A value \in Values : hist[value] = Cardinality(counted \cap InputsWith(value))
    /\ answered /\ ~mayStop => counted = AllInputs

(* Nothing is counted at the start.                                        *)
LEMMA CountInit == Init => CountInv
<1> SUFFICES ASSUME Init PROVE CountInv
  OBVIOUS
<1>1. \A value \in Values : hist[value] = Cardinality(counted \cap InputsWith(value))
  BY FS_EmptySet DEF Init
<1>2. IsFiniteSet(counted)
  BY FS_EmptySet DEF Init
<1>3. QED
  BY <1>1, <1>2 DEF Init, CountInv

(* Counting one input adds one to the bucket of its output only.           *)
LEMMA CountStep == ASSUME CountInv, Count PROVE CountInv'
<1>1. PICK pair \in relation :
         /\ pair[1] \notin counted
         /\ counted' = counted \cup {pair[1]}
         /\ hist' = [hist EXCEPT ![pair[2]] = @ + 1]
  BY DEF Count
<1> DEFINE x == pair[1]
<1>2. relation' = relation /\ AllInputs' = AllInputs /\ \A v : InputsWith(v)' = InputsWith(v)
  BY DEF Count, AllInputs, InputsWith
<1>3. x \in AllInputs
  BY <1>1 DEF AllInputs
<1>4. pair[2] \in Values /\ pair = <<pair[1], pair[2]>>
  BY DEF CountInv, IsProgram
<1>5. ASSUME NEW v \in Values PROVE x \in InputsWith(v) <=> v = pair[2]
  BY <1>3, <1>4 DEF InputsWith, CountInv, IsProgram
<1>6. IsFiniteSet(counted) /\ x \notin counted
  BY <1>1 DEF CountInv
<1> HIDE DEF x
<1>7. ASSUME NEW v \in Values
      PROVE  hist'[v] = Cardinality(counted' \cap InputsWith(v)')
  <2> DEFINE P == InputsWith(v)
  <2>1. hist[v] = Cardinality(counted \cap P) /\ hist'[v] = IF v = pair[2] THEN hist[v] + 1 ELSE hist[v]
    BY <1>1 DEF CountInv
  <2>2. IsFiniteSet(counted \cap P)
    BY <1>6, FS_Intersection
  <2>3. Cardinality(counted \cap P) \in Nat
    BY <2>2, FS_CardinalityType
  <2>4. x \in P <=> v = pair[2]
    BY <1>5
  <2> HIDE DEF P
  <2>5. /\ x \in P => Cardinality((counted \cup {x}) \cap P) = Cardinality(counted \cap P) + 1
        /\ x \notin P => Cardinality((counted \cup {x}) \cap P) = Cardinality(counted \cap P)
    <3>1. CASE x \in P
      BY <1>6, <3>1, OneMoreInside, Zenon
    <3>2. CASE x \notin P
      BY <3>2, OneMoreOutside, Zenon
    <3>3. QED
      BY <3>1, <3>2
  <2>6. hist'[v] = Cardinality((counted \cup {x}) \cap P)
    BY <2>1, <2>3, <2>4, <2>5
  <2>7. counted' = counted \cup {x} /\ InputsWith(v)' = P
    BY <1>1, <1>2 DEF x, P
  <2>8. QED
    BY <2>6, <2>7, Zenon
<1>8. IsFiniteSet(counted')
  BY <1>1, <1>6, FS_AddElement DEF x
<1>9. hist' = [value \in Values |-> hist'[value]]
  BY <1>1 DEF CountInv
<1>10. counted' \subseteq AllInputs'
  BY <1>1, <1>2, <1>3 DEF CountInv, x
<1>11. IsProgram(relation)' /\ ~answered'
  BY <1>2 DEF CountInv, IsProgram, Count
<1>12. QED
  BY <1>7, <1>8, <1>9, <1>10, <1>11 DEF CountInv

(* Allowing a stop and answering change no count.                          *)
LEMMA CountNext == CountInv /\ [Next]_vars => CountInv'
<1> SUFFICES ASSUME CountInv, [Next]_vars PROVE CountInv'
  OBVIOUS
<1>1. CASE Count
  BY <1>1, CountStep
<1>2. CASE AllowStop \/ Answer \/ UNCHANGED vars
  <2>1. UNCHANGED <<relation, counted, hist>>
    BY <1>2 DEF AllowStop, Answer, vars
  <2>2. answered' /\ ~mayStop' => counted = AllInputs
    BY <1>2 DEF AllowStop, Answer, vars, CountInv
  <2>3. QED
    BY <2>1, <2>2 DEF CountInv, IsProgram, AllInputs, InputsWith
<1>3. QED
  BY <1>1, <1>2 DEF Next

(* An answer nobody allowed to be early is the program's exact histogram.  *)
THEOREM AnswerCorrect == Spec => []AnswerIsExact
<1>1. CountInv => AnswerIsExact
  <2> SUFFICES ASSUME CountInv, answered, ~mayStop, NEW value \in Values
               PROVE  hist[value] = Cardinality(InputsWith(value))
    BY DEF AnswerIsExact
  <2>1. counted \cap InputsWith(value) = InputsWith(value)
    BY DEF CountInv, InputsWith
  <2>2. QED
    BY <2>1, Zenon DEF CountInv
<1>2. QED
  BY CountInit, CountNext, <1>1, PTL DEF Spec

=============================================================================
