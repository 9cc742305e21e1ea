--------------------------- MODULE FrontendProofs ---------------------------
(***************************************************************************)
(* The frontend's invariant and its properties, proved for all requests    *)
(* and for every width of the words.                                       *)
(***************************************************************************)
EXTENDS Frontend, CountingLemmas

-----------------------------------------------------------------------------
(* The inductive invariant *)

(* The file was opened, and its models are counted or were.                *)
Opened == pc \notin {"store", "notify", "open", "exit0", "exit1"}
Counting == pc \in {"count", "stat", "sharp", "sigfpe", "done"}

(* What was read, and what lines say.                                      *)
ReadLines == {request.file.lines[k] : k \in 1 .. at}
ClausesOf(L) ==
    {Range(handle_clause(l.nums, l.blank)) : l \in {k \in L : k.kind = "clause"}}
Extracted == {extractLine(l) : l \in {k \in VariableLines : ~Unreadable(k)}}

(* A request is read line by line: the clauses are those of the lines read,*)
(* and max_var is as large as their literals.                              *)
Parsed ==
    /\ request \in Requests
    /\ Opened \/ pc = "open" => request.file # Absent
    /\ at \in Nat
    /\ at # 0 => at <= Len(request.file.lines)
    /\ ~Opened => at = 0
    /\ pc = "activate" \/ Counting => at = Len(request.file.lines)
    /\ max_var \in Nat
    /\ clauses \in Seq(Seq(Int))
    /\ {Range(clauses[i]) : i \in DOMAIN clauses} = ClausesOf(ReadLines)
    /\ \A i \in DOMAIN clauses : \A n \in Range(clauses[i]) : abs(n) \in 1 .. max_var

(* The variables are those of readable lines, and what is selected of them *)
(* are their literals.                                                     *)
Picked ==
    /\ variables \in Seq(Extracted)
    /\ variables # <<>> => request.file # Absent
    /\ collected \in [Roles -> Seq(Extracted)]
    /\ literals = [r \in Roles |-> LiteralsOf(collected[r])]

(* The header of the pair list.                                            *)
Header ==
    IF request.list
    THEN FlattenSeq([i \in 1 .. 3 |-> LiteralsOf(collected[<<"input", "seed", "output">>[i]])])
    ELSE <<>>

(* Nothing is counted or reported before the solver has its variables, and *)
(* what is counted are models with the literals that are read.             *)
Counted ==
    /\ nVars \in {0, max_var + 1} /\ (Counting => nVars = max_var + 1 /\ columns = Header)
    /\ ~Opened \/ pc \in {"read", "activate"} =>
           reportVars = <<0, <<>>, {}, <<>>, <<>>, Unknown, <<>>>>
    /\ model = <<>> \/ model \in Models
    /\ found \in SUBSET Models /\ IsFiniteSet(found)
    /\ found # {} => model \in Models /\ Read \subseteq 0 .. nVars - 1
    /\ found # {} /\ opt.mode \in StatModes => literals["output"] # <<>>
    /\ pc = "stat" =>
           /\ literals["output"] # <<>>
           /\ \/ opt.mode \in StatModes /\ found # {}
              \/ opt.mode = "unguided" /\ found = {} /\ model = <<>>

(* A row for every input counted, but for the one that is being reported.  *)
Due == IF pc = "stat" THEN Cardinality(found) - 1 ELSE Cardinality(found)
Reported ==
    /\ rows \in Seq([DOMAIN columns -> BOOLEAN])
    /\ rows # <<>> => request.list /\ opt.mode \in StatModes
    /\ Len(rows) <= Cardinality(found)
    /\ pc \in {"count", "stat"} /\ opt.mode \in StatModes /\ request.list => Len(rows) = Due
    /\ inputs \in Nat \cup {Unknown}

(* The causes to fail that are ruled out on the way to the count.          *)
EmptyName == \E r \in Roles : \E i \in DOMAIN request.names[r] : request.names[r][i].name = ""
Begun ==
    /\ pc = "activate" => ~EmptyName
    /\ pc \in {"count", "stat"} =>
           /\ ~EmptyName /\ ~ShiftFails
           /\ opt.mode = "rand" => literals["seed"] # <<>>
           /\ opt.mode = "unguided" => literals["output"] # <<>>
    /\ pc = "count" /\ opt.mode = "unguided" => ~request.list /\ ~request.statistic

IInv == Parsed /\ Picked /\ Counted /\ Reported /\ Begun /\ WellFormedRunsAreDefined

-----------------------------------------------------------------------------
(* The parser's operators *)

(* The absolute value of a number is 0 only for 0.                         *)
LEMMA AbsIs ==
    \A n \in Int : abs(n) \in Nat /\ (abs(n) = 0 <=> n = 0)
  BY DEF abs

(* The clause of a line holds its numbers but 0, all of them when the line *)
(* has a 0 at its end or nowhere.                                          *)
LEMMA HandleClauseIs ==
    ASSUME NEW nums \in Seq(Int), NEW blank
    PROVE  /\ handle_clause(nums, blank) \in Seq(Int)
           /\ Range(handle_clause(nums, blank)) \subseteq Range(nums) \ {0}
           /\ (\A i \in DOMAIN nums : nums[i] = 0 => i = Len(nums)) =>
                 Range(handle_clause(nums, blank)) = Range(nums) \ {0}
<1> DEFINE n == Len(nums)
           zeros == {i \in DOMAIN nums : nums[i] = 0}
           c == handle_clause(nums, blank)
<1>1. n \in Nat /\ DOMAIN nums = 1 .. n /\ \A i \in 1 .. n : nums[i] \in Int
  OBVIOUS
<1>2. CASE zeros # {}
  <2> DEFINE z == Min(zeros)
  <2>1. z \in zeros /\ \A i \in zeros : z <= i
    <3>1. zeros \in SUBSET Nat
      BY <1>1
    <3>2. QED
      BY <1>2, <3>1, MinIsLeast
  <2>2. c = SubSeq(nums, 1, z - 1)
    BY <1>2 DEF handle_clause
  <2> HIDE DEF z, c
  <2>3. z \in 1 .. n /\ nums[z] = 0 /\ \A i \in 1 .. z - 1 : nums[i] # 0
    <3>1. z \in 1 .. n /\ nums[z] = 0
      BY <1>1, <2>1
    <3>2. ASSUME NEW i \in 1 .. z - 1, nums[i] = 0 PROVE FALSE
      <4>1. i \in zeros
        BY <1>1, <3>1, <3>2
      <4>2. QED
        BY <2>1, <3>1, <4>1
    <3>3. QED
      BY <3>1, <3>2
  <2> HIDE DEF zeros
  <2>4. /\ c \in Seq(Int) /\ Len(c) = z - 1 /\ DOMAIN c = 1 .. z - 1
        /\ \A i \in 1 .. z - 1 : c[i] = nums[i]
    <3>1. \A i \in 1 .. z - 1 : nums[i] \in Int
      BY <1>1, <2>3
    <3>2. /\ c \in Seq(Int) /\ Len(c) = IF 1 <= z - 1 THEN z - 1 - 1 + 1 ELSE 0
          /\ \A i \in 1 .. z - 1 - 1 + 1 : c[i] = nums[1 + i - 1]
      BY <2>2, <2>3, <3>1, SubSeqProperties
    <3>3. Len(c) = z - 1
      BY <2>3, <3>2
    <3>4. \A i \in 1 .. z - 1 : i \in 1 .. z - 1 - 1 + 1 /\ 1 + i - 1 = i
      BY <2>3
    <3>5. QED
      BY <3>2, <3>3, <3>4, LenProperties
  <2>5. Range(c) \subseteq Range(nums) \ {0}
    BY <1>1, <2>3, <2>4 DEF Range
  <2>6. ASSUME \A i \in DOMAIN nums : nums[i] = 0 => i = n, NEW x \in Range(nums) \ {0}
        PROVE  x \in Range(c)
    <3>1. z = n
      BY <1>1, <2>3, <2>6
    <3>2. PICK i \in 1 .. n : x = nums[i]
      BY <1>1 DEF Range
    <3>3. i \in 1 .. z - 1
      BY <1>1, <2>3, <3>1, <3>2
    <3>4. QED
      BY <2>4, <3>2, <3>3 DEF Range
  <2>7. QED
    BY <2>4, <2>5, <2>6 DEF c
<1>3. CASE zeros = {}
  <2>1. 0 \notin Range(nums)
    BY <1>3 DEF Range
  <2>2. CASE blank /\ nums # <<>>
    <3>1. c = Append(nums, Last(nums))
      BY <1>3, <2>2 DEF handle_clause
    <3>2. Last(nums) \in Range(nums) /\ Last(nums) \in Int
      BY <2>2 DEF Last, Range
    <3> HIDE DEF c, zeros
    <3>3. Range(c) = Range(nums) \cup {Last(nums)}
      BY <3>1, RangeOfAppend
    <3>4. c \in Seq(Int)
      BY <3>1, <3>2
    <3>5. QED
      BY <2>1, <3>2, <3>3, <3>4 DEF c
  <2>3. CASE ~(blank /\ nums # <<>>)
    <3>1. c = nums
      BY <1>3, <2>3 DEF handle_clause
    <3>2. QED
      BY <2>1, <3>1
  <2>4. QED
    BY <2>2, <2>3
<1>4. QED
  BY <1>2, <1>3

(* max_var becomes as large as the numbers of a line.                      *)
LEMMA LargestIs ==
    ASSUME max_var \in Nat, NEW nums \in Seq(Int)
    PROVE  /\ LargestOf(nums) \in Nat /\ max_var <= LargestOf(nums)
           /\ \A n \in Range(nums) : abs(n) <= LargestOf(nums)
<1> DEFINE R == Range(nums)
           f == [n \in R |-> abs(n)]
           S == {max_var} \cup {abs(n) : n \in R}
<1>1. IsFiniteSet(R) /\ R \subseteq Int
  BY SequenceIsFinite
<1>2. \A n \in R : abs(n) \in Nat
  BY <1>1, AbsIs
<1> HIDE DEF R
<1>3. {abs(n) : n \in R} = Range(f) /\ DOMAIN f = R
  BY DEF Range
<1>4. IsFiniteSet(Range(f))
  BY <1>1, <1>3, RangeIsFinite
<1>5. IsFiniteSet(S)
  BY <1>3, <1>4, FS_Singleton, FS_Union
<1>6. S \in SUBSET Int /\ S # {} /\ S \subseteq Nat
  BY <1>2
<1>7. LargestOf(nums) = Max(S)
  BY DEF LargestOf, R
<1>8. Max(S) \in S /\ \A y \in S : y <= Max(S)
  BY <1>5, <1>6, GreatestIs
<1>9. max_var \in S /\ \A n \in R : abs(n) \in S
  OBVIOUS
<1> HIDE DEF S
<1>10. QED
  BY <1>6, <1>7, <1>8, <1>9 DEF R

-----------------------------------------------------------------------------
(* Program variables *)

(* Of an int and of the number it is taken for.                            *)
LEMMA Widths ==
    /\ twoTo[UintBits - 1] \in Nat /\ twoTo[UintBits - 1] > 0
    /\ twoTo[UintBits] = 2 * twoTo[UintBits - 1]
    /\ AllOnes = twoTo[UintBits] - 1 /\ AllOnes \in Nat /\ AllOnes > 0
<1>1. PICK u \in Nat : UintBits = u + 1 /\ UintBits - 1 = u
  BY UintAssumption
<1>2. twoTo[u + 1] = 2 * twoTo[u] /\ twoTo[u] \in Nat
  BY TwoTo
<1>3. twoTo[u] > 0
  BY PowerPositive
<1>4. AllOnes = twoTo[UintBits] - 1
  BY <1>1, <1>2 DEF AllOnes, uint
<1>5. QED
  BY <1>1, <1>2, <1>3, <1>4

(* A line of the file is one that >> and stoi can produce.                 *)
LEMMA LinesAre ==
    ASSUME request \in Requests, request.file # Absent
    PROVE  /\ request.file.lines \in Seq(FileLines)
           /\ Len(request.file.lines) \in Nat
           /\ DOMAIN request.file.lines = 1 .. Len(request.file.lines)
           /\ FileLines = {request.file.lines[k] : k \in 1 .. Len(request.file.lines)}
           /\ IsFiniteSet(FileLines)
           /\ \A l \in FileLines : IsLine(l)
<1> DEFINE ls == request.file.lines
           L == {l \in Range(ls) : IsLine(l)}
<1>1. ls \in Seq(L)
  BY RequestsAssumption DEF IsRequest
<1> HIDE DEF ls, L
<1>2. /\ Len(ls) \in Nat /\ DOMAIN ls = 1 .. Len(ls)
      /\ \A k \in DOMAIN ls : ls[k] \in L
  BY <1>1
<1>3. FileLines = Range(ls)
  BY DEF FileLines, ls
<1>4. \A l \in FileLines : l \in L
  BY <1>2, <1>3 DEF Range
<1>5. FileLines = L
  BY <1>3, <1>4 DEF L
<1>6. IsFiniteSet(FileLines)
  BY <1>1, <1>3, SequenceIsFinite
<1>7. FileLines = {ls[k] : k \in 1 .. Len(ls)}
  BY <1>2, <1>3 DEF Range
<1>8. \A l \in FileLines : IsLine(l)
  BY <1>5 DEF L
<1>9. QED
  BY <1>1, <1>2, <1>5, <1>6, <1>7, <1>8 DEF ls

(* What a token stands for: a number of the unsigned word.                 *)
LEMMA ParseIs ==
    ASSUME NEW t, t \in [k : {"lit", "FALSE", "TRUE", "bad"}, n : Ints]
    PROVE  parseLiteral(t) \in 0 .. AllOnes
<1>1. /\ twoTo[UintBits - 1] \in Nat /\ twoTo[UintBits] = 2 * twoTo[UintBits - 1]
      /\ AllOnes = twoTo[UintBits] - 1 /\ AllOnes > 0
  BY Widths
<1>2. uint(t.n) \in 0 .. AllOnes
  <2>1. t.n \in Int /\ -twoTo[UintBits - 1] <= t.n /\ t.n <= twoTo[UintBits - 1] - 1
    BY <1>1 DEF Ints
  <2>2. CASE t.n < 0
    BY <1>1, <2>1, <2>2 DEF uint
  <2>3. CASE ~(t.n < 0)
    BY <1>1, <2>1, <2>3 DEF uint
  <2>4. QED
    BY <2>2, <2>3
<1>3. parseLiteral(t) = 0 \/ parseLiteral(t) = AllOnes \/ parseLiteral(t) = uint(t.n)
  BY DEF parseLiteral
<1>4. QED
  BY <1>1, <1>2, <1>3

(* What get_literals leaves of the positions.                              *)
LEMMA LiteralsAre ==
    ASSUME NEW positions \in Seq(0 .. AllOnes)
    PROVE  /\ get_literals(positions) \in Seq(1 .. AllOnes - 1)
           /\ Range(get_literals(positions)) = Range(positions) \ {0, AllOnes}
<1> DEFINE S == Range(positions) \ {0, AllOnes}
<1>1. IsFiniteSet(Range(positions)) /\ Range(positions) \subseteq 0 .. AllOnes
  BY SequenceIsFinite
<1>2. IsFiniteSet(S) /\ S \in SUBSET Nat /\ S \subseteq 1 .. AllOnes - 1
  <2>1. AllOnes \in Nat
    BY Widths
  <2>2. IsFiniteSet(S)
    BY <1>1, FS_Subset
  <2>3. QED
    BY <1>1, <2>1, <2>2
<1>3. get_literals(positions) = Sorted(S)
  BY DEF get_literals
<1> HIDE DEF S
<1>4. Sorted(S) \in Seq(S) /\ Range(Sorted(S)) = S
  BY <1>2, RangeOfSorted
<1>5. Sorted(S) \in Seq(1 .. AllOnes - 1)
  BY <1>2, <1>4, SeqMonotonic
<1>6. QED
  BY <1>3, <1>4, <1>5 DEF S

(* A variable of a line: numbers, and which of them are literals.          *)
IsVariable(v) ==
    /\ v.time \in Int
    /\ v.positions \in Seq(0 .. AllOnes)
    /\ v.literals \in Seq(1 .. AllOnes - 1)
    /\ Range(v.literals) = Range(v.positions) \ {0, AllOnes}

(* What a readable line of a variable holds is a variable of its bits.     *)
LEMMA ExtractedAre ==
    ASSUME request \in Requests, request.file # Absent, NEW l \in VariableLines
    PROVE  /\ l.bits \in Seq([k : {"lit", "FALSE", "TRUE", "bad"}, n : Ints])
           /\ ~Unreadable(l) => IsVariable(extractLine(l))
           /\ extractLine(l).positions = [i \in DOMAIN l.bits |-> parseLiteral(l.bits[i])]
           /\ extractLine(l).positions \in Seq(0 .. AllOnes)
<1> DEFINE B == [k : {"lit", "FALSE", "TRUE", "bad"}, n : Ints]
           positions == [i \in DOMAIN l.bits |-> parseLiteral(l.bits[i])]
<1>1. IsLine(l) /\ l.kind \in {"var", "bool"}
  BY LinesAre DEF VariableLines
<1>2. /\ l.bits \in Seq(B)
      /\ l.time \in (0 .. twoTo[UintBits - 1] - 1) \cup {Absent}
  BY <1>1 DEF IsLine
<1>3. extractLine(l) = [name |-> l.name, time |-> l.time, positions |-> positions,
                        literals |-> get_literals(positions)]
  BY DEF extractLine
<1>4. positions \in Seq(0 .. AllOnes)
  <2> HIDE DEF B
  <2>1. DOMAIN l.bits = 1 .. Len(l.bits) /\ Len(l.bits) \in Nat /\ \A i \in DOMAIN l.bits : l.bits[i] \in B
    BY <1>2
  <2>2. \A i \in DOMAIN l.bits : parseLiteral(l.bits[i]) \in 0 .. AllOnes
    BY <2>1, ParseIs DEF B
  <2>3. QED
    BY <2>1, <2>2
<1> HIDE DEF positions
<1>5. /\ get_literals(positions) \in Seq(1 .. AllOnes - 1)
      /\ Range(get_literals(positions)) = Range(positions) \ {0, AllOnes}
  BY <1>4, LiteralsAre
<1>6. ASSUME ~Unreadable(l) PROVE l.time \in Int
  <2>1. l.time # Absent
    BY <1>6 DEF Unreadable
  <2>2. 0 .. twoTo[UintBits - 1] - 1 \subseteq Int
    OBVIOUS
  <2>3. QED
    BY <1>2, <2>1, <2>2
<1>7. ~Unreadable(l) => IsVariable(extractLine(l))
  BY <1>3, <1>4, <1>5, <1>6 DEF IsVariable
<1>8. extractLine(l).positions = positions
  BY <1>3
<1>9. QED
  BY <1>2, <1>4, <1>7, <1>8 DEF positions

(* What a bit of it can be.                                                *)
LEMMA BitsAre ==
    ASSUME request \in Requests, request.file # Absent, NEW l \in VariableLines,
           NEW i \in DOMAIN l.bits
    PROVE  l.bits[i].k \in {"lit", "FALSE", "TRUE", "bad"} /\ l.bits[i].n \in Ints
<1> DEFINE B == [k : {"lit", "FALSE", "TRUE", "bad"}, n : Ints]
<1>1. l.bits \in Seq(B)
  BY ExtractedAre
<1> HIDE DEF B
<1>2. l.bits[i] \in B
  BY <1>1
<1>3. QED
  BY <1>2 DEF B

(* All that is extracted from the file are variables.                      *)
LEMMA ExtractedAreVariables ==
    ASSUME request \in Requests, request.file # Absent
    PROVE  \A v \in Extracted : IsVariable(v)
  BY ExtractedAre DEF Extracted

(* The literals of variables in a row.                                     *)
LEMMA LiteralsOfIs ==
    ASSUME NEW V, \A v \in V : IsVariable(v), NEW vs \in Seq(V)
    PROVE  /\ LiteralsOf(vs) \in Seq(1 .. AllOnes - 1)
           /\ Range(LiteralsOf(vs)) = UNION {Range(vs[i].literals) : i \in DOMAIN vs}
<1> DEFINE s == [i \in DOMAIN vs |-> vs[i].literals]
           T == 1 .. AllOnes - 1
<1>1. DOMAIN vs = 1 .. Len(vs) /\ Len(vs) \in Nat /\ \A i \in DOMAIN vs : vs[i] \in V
  OBVIOUS
<1>2. \A i \in DOMAIN vs : vs[i].literals \in Seq(T)
  BY <1>1 DEF IsVariable
<1> HIDE DEF T
<1>3. s \in Seq(Seq(T))
  BY <1>1, <1>2
<1>4. DOMAIN s = DOMAIN vs /\ \A i \in DOMAIN vs : s[i] = vs[i].literals
  OBVIOUS
<1>5. LiteralsOf(vs) = FlattenSeq(s)
  BY DEF LiteralsOf
<1> HIDE DEF s
<1>6. FlattenSeq(s) \in Seq(T) /\ Range(FlattenSeq(s)) = UNION {Range(s[i]) : i \in DOMAIN s}
  BY <1>3, FlattenIs
<1>7. UNION {Range(s[i]) : i \in DOMAIN s} = UNION {Range(vs[i].literals) : i \in DOMAIN vs}
  BY <1>4
<1>8. QED
  BY <1>5, <1>6, <1>7 DEF T

(* Nothing selected, no literals.                                          *)
LEMMA NoLiterals ==
    LiteralsOf(<<>>) = <<>>
<1>1. [i \in DOMAIN <<>> |-> <<>>[i].literals] = <<>>
  OBVIOUS
<1>2. FlattenSeq(<<>>) = <<>>
  BY DEF FlattenSeq
<1>3. QED
  BY <1>1, <1>2 DEF LiteralsOf

-----------------------------------------------------------------------------
(* The selection by name *)

(* Of the updates of a name there is a last one: the first of those with   *)
(* the largest time.                                                       *)
LEMMA LastUpdateIs ==
    ASSUME NEW V, \A v \in V : v.time \in Int, variables \in Seq(V), NEW name
    PROVE  collectLastUpdate(name) \in Seq(V)
<1> DEFINE S == {i \in DOMAIN variables : variables[i].name = name}
           Latest(i) == \A j \in S : \/ variables[j].time < variables[i].time
                                     \/ (variables[j].time = variables[i].time /\ i <= j)
           last == CHOOSE i \in S : Latest(i)
<1>1. /\ DOMAIN variables = 1 .. Len(variables) /\ Len(variables) \in Nat
      /\ \A i \in DOMAIN variables : variables[i] \in V
  OBVIOUS
<1>2. \A i \in S : i \in Nat /\ variables[i] \in V /\ variables[i].time \in Int
  BY <1>1
<1>3. IsFiniteSet(S)
  <2>1. PICK n \in Int : n = Len(variables) /\ 1 \in Int
    BY <1>1
  <2>2. IsFiniteSet(1 .. n)
    BY <2>1, FS_Interval
  <2>3. S \in SUBSET (1 .. n)
    BY <1>1, <2>1
  <2>4. QED
    BY <2>2, <2>3, FS_Subset
<1>4. collectLastUpdate(name) = IF S = {} THEN <<>> ELSE <<variables[last]>>
  BY DEF collectLastUpdate
<1> HIDE DEF S
<1>5. ASSUME S # {} PROVE \E i \in S : Latest(i)
  <2> DEFINE time == [i \in S |-> variables[i].time]
             m == Max(Range(time))
             T == {i \in S : variables[i].time = m}
  <2>1. IsFiniteSet(Range(time))
    BY <1>3, RangeIsFinite
  <2>2. Range(time) \in SUBSET Int /\ Range(time) # {} /\ \A i \in S : variables[i].time \in Range(time)
    BY <1>2, <1>5 DEF Range
  <2>3. m \in Range(time) /\ \A y \in Range(time) : y <= m
    BY <2>1, <2>2, GreatestIs
  <2>4. PICK k \in S : variables[k].time = m
    BY <2>3 DEF Range
  <2> HIDE DEF m, time
  <2>5. T # {} /\ T \in SUBSET Nat
    BY <1>2, <2>4
  <2>6. PICK i \in T : \A j \in T : i <= j
    BY <2>5, Least
  <2>7. m \in Int
    BY <1>2, <2>4
  <2>8. i \in S /\ variables[i].time = m
    BY <2>6
  <2>9. ASSUME NEW j \in S
        PROVE  \/ variables[j].time < variables[i].time
               \/ (variables[j].time = variables[i].time /\ i <= j)
    <3>1. variables[j].time <= m /\ variables[j].time \in Int
      BY <1>2, <2>2, <2>3
    <3>2. CASE variables[j].time = m
      BY <2>6, <2>8, <3>2
    <3>3. CASE variables[j].time # m
      BY <2>7, <2>8, <3>1, <3>3
    <3>4. QED
      BY <3>2, <3>3
  <2> HIDE DEF T
  <2>10. QED
    BY <2>8, <2>9
<1>6. S # {} => last \in S
  <2> HIDE DEF Latest
  <2>1. QED
    BY <1>5, Zenon
<1> HIDE DEF last
<1>7. S # {} => variables[last] \in V
  BY <1>2, <1>6
<1>8. QED
  BY <1>4, <1>7

(* All updates of a name are taken from the variables.                     *)
LEMMA AllUpdatesAre ==
    ASSUME NEW V, variables \in Seq(V), NEW name
    PROVE  collectAllUpdates(name) \in Seq(V)
<1> DEFINE S == {i \in DOMAIN variables : variables[i].name = name}
           P == {i \in S : variables[i].time # Min({BigTime} \cup {variables[j].time : j \in S})}
<1>1. P \in SUBSET (DOMAIN variables)
  OBVIOUS
<1>2. collectAllUpdates(name) = Kept(variables, P)
  BY DEF collectAllUpdates
<1> HIDE DEF P
<1>3. QED
  BY <1>1, <1>2, KeptInside

(* What is selected are variables of the file.                             *)
LEMMA CollectIs ==
    ASSUME NEW V, \A v \in V : v.time \in Int, variables \in Seq(V),
           NEW N, NEW names \in Seq(N)
    PROVE  collectVariables(names) \in Seq(V)
<1> DEFINE part(i) == IF names[i].all THEN collectAllUpdates(names[i].name)
                      ELSE collectLastUpdate(names[i].name)
           s == [i \in DOMAIN names |-> part(i)]
<1>1. \A i \in DOMAIN names : part(i) \in Seq(V)
  BY LastUpdateIs, AllUpdatesAre
<1>2. collectVariables(names) = FlattenSeq(s)
  BY DEF collectVariables
<1> HIDE DEF part
<1>3. DOMAIN names = 1 .. Len(names) /\ Len(names) \in Nat
  OBVIOUS
<1>4. s \in Seq(Seq(V))
  BY <1>1, <1>3
<1> HIDE DEF s
<1>5. QED
  BY <1>2, <1>4, FlattenIs

-----------------------------------------------------------------------------
(* Files whose variables are positive literals of the clauses *)

(* The largest literal that WellFormed compares with.                      *)
LargestLiteral ==
    Max({0} \cup UNION {{abs(n) : n \in Range(handle_clause(l.nums, l.blank))} :
                           l \in {k \in FileLines : k.kind = "clause"}})

(* It is a variable of the solver.                                         *)
LEMMA LargestIsRead ==
    ASSUME request \in Requests, request.file # Absent, max_var \in Nat,
           {Range(clauses[i]) : i \in DOMAIN clauses} = ClausesOf(FileLines),
           \A i \in DOMAIN clauses : \A n \in Range(clauses[i]) : abs(n) \in 1 .. max_var
    PROVE  LargestLiteral \in 0 .. max_var
<1> DEFINE C == {k \in FileLines : k.kind = "clause"}
           nums(l) == Range(handle_clause(l.nums, l.blank))
           size(l) == {abs(n) : n \in nums(l)}
           F == [l \in C |-> size(l)]
           U == UNION {size(l) : l \in C}
           S == {0} \cup U
<1>1. IsFiniteSet(C)
  BY LinesAre, FS_Subset
<1>2. \A l \in C : handle_clause(l.nums, l.blank) \in Seq(Int)
  <2> SUFFICES ASSUME NEW l \in C PROVE handle_clause(l.nums, l.blank) \in Seq(Int)
    OBVIOUS
  <2>1. l.nums \in Seq(Ints \ {-twoTo[UintBits - 1]})
    BY LinesAre DEF IsLine
  <2>2. Ints \ {-twoTo[UintBits - 1]} \subseteq Int
    BY Widths DEF Ints
  <2>3. l.nums \in Seq(Int)
    BY <2>1, <2>2, SeqMonotonic
  <2>4. QED
    BY <2>3, HandleClauseIs
<1>3. \A l \in C : IsFiniteSet(size(l))
  <2> SUFFICES ASSUME NEW l \in C PROVE IsFiniteSet(size(l))
    OBVIOUS
  <2> DEFINE f == [n \in nums(l) |-> abs(n)]
  <2>1. IsFiniteSet(nums(l))
    BY <1>2, SequenceIsFinite
  <2> HIDE DEF nums
  <2>2. Range(f) = size(l) /\ DOMAIN f = nums(l) /\ f = [n \in DOMAIN f |-> f[n]]
    BY DEF Range
  <2> HIDE DEF f
  <2>3. QED
    BY <2>1, <2>2, RangeIsFinite
<1>4. ASSUME NEW l \in C, NEW n \in nums(l) PROVE abs(n) \in 1 .. max_var
  <2>1. nums(l) \in ClausesOf(FileLines)
    BY DEF ClausesOf
  <2>2. PICK i \in DOMAIN clauses : nums(l) = Range(clauses[i])
    BY <2>1
  <2>3. n \in Range(clauses[i])
    BY <1>4, <2>2
  <2>4. QED
    BY <2>3
<1> HIDE DEF nums
<1>5. S \subseteq 0 .. max_var
  BY <1>4
<1>6. IsFiniteSet(S)
  <2>1. IsFiniteSet({size(l) : l \in C})
    <3> HIDE DEF size, C
    <3>1. Range(F) = {size(l) : l \in C} /\ DOMAIN F = C /\ F = [l \in DOMAIN F |-> F[l]]
      BY DEF Range
    <3> HIDE DEF F
    <3>2. QED
      BY <1>1, <3>1, RangeIsFinite
  <2>2. IsFiniteSet(U)
    <3> HIDE DEF size, C
    <3>1. \A T \in {size(l) : l \in C} : IsFiniteSet(T)
      BY <1>3
    <3>2. QED
      BY <2>1, <3>1, FS_UNION
  <2> HIDE DEF U
  <2>3. QED
    BY <2>2, FS_Singleton, FS_Union
<1>7. LargestLiteral = Max(S)
  BY DEF LargestLiteral, nums
<1> HIDE DEF S
<1>8. S \in SUBSET Int /\ S # {}
  <2>1. 0 \in S
    BY DEF S
  <2>2. QED
    BY <1>5, <2>1
<1>9. Max(S) \in S
  BY <1>6, <1>8, GreatestIs
<1>10. QED
  BY <1>5, <1>7, <1>9

(* So are the literals of the variables, and each is stored as its number. *)
LEMMA WellFormedLiterals ==
    ASSUME request \in Requests, request.file # Absent, max_var \in Nat,
           {Range(clauses[i]) : i \in DOMAIN clauses} = ClausesOf(FileLines),
           \A i \in DOMAIN clauses : \A n \in Range(clauses[i]) : abs(n) \in 1 .. max_var,
           WellFormed
    PROVE  /\ \A l \in VariableLines : ~Unreadable(l)
           /\ \A l \in VariableLines : \A i \in DOMAIN l.bits :
                 l.bits[i].k = "lit" =>
                     /\ l.bits[i].n \in 1 .. max_var
                     /\ parseLiteral(l.bits[i]) = l.bits[i].n
                     /\ l.bits[i].n # AllOnes /\ Var(l.bits[i].n) = l.bits[i].n - 1
           /\ \A v \in Extracted : \A p \in Range(v.literals) :
                 p \in 1 .. max_var /\ Var(p) = p - 1
<1>1. \A l \in VariableLines :
          /\ l.time # Absent
          /\ \A bit \in Range(l.bits) :
                 bit.k # "bad" /\ (bit.k = "lit" => bit.n \in 1 .. LargestLiteral)
  BY DEF WellFormed, LargestLiteral
<1>2. LargestLiteral \in 0 .. max_var
  BY LargestIsRead
<1>3. ASSUME NEW l \in VariableLines PROVE ~Unreadable(l)
  BY <1>1, <1>3 DEF Unreadable, Range
<1>4. ASSUME NEW l \in VariableLines, NEW i \in DOMAIN l.bits, l.bits[i].k = "lit"
      PROVE  /\ l.bits[i].n \in 1 .. max_var
             /\ parseLiteral(l.bits[i]) = l.bits[i].n
             /\ l.bits[i].n # AllOnes /\ Var(l.bits[i].n) = l.bits[i].n - 1
  <2> DEFINE n == l.bits[i].n
  <2>1. n \in 1 .. LargestLiteral
    BY <1>1, <1>4 DEF Range
  <2>2. n \in Ints
    BY <1>4, BitsAre
  <2>3. n \in 1 .. max_var
    BY <1>2, <2>1
  <2>4. parseLiteral(l.bits[i]) = uint(n)
    BY <1>4 DEF parseLiteral
  <2> HIDE DEF n
  <2>5. uint(n) = n
    BY <2>3 DEF uint
  <2>6. n # AllOnes /\ Var(n) = n - 1
    BY <2>2, <2>3, Widths DEF Ints, Var
  <2>7. QED
    BY <2>3, <2>4, <2>5, <2>6 DEF n
<1>5. ASSUME NEW v \in Extracted, NEW p \in Range(v.literals)
      PROVE  p \in 1 .. max_var /\ Var(p) = p - 1
  <2>1. PICK l \in VariableLines : ~Unreadable(l) /\ v = extractLine(l)
    BY DEF Extracted
  <2>2. p \in Range(v.positions) \ {0, AllOnes}
    BY <2>1, ExtractedAre DEF IsVariable
  <2>3. v.positions = [i \in DOMAIN l.bits |-> parseLiteral(l.bits[i])]
    BY <2>1, ExtractedAre
  <2>4. PICK i \in DOMAIN l.bits : p = parseLiteral(l.bits[i])
    BY <2>2, <2>3 DEF Range
  <2>5. l.bits[i].k = "lit"
    <3>1. l.bits[i].k \in {"lit", "FALSE", "TRUE", "bad"}
      BY BitsAre
    <3>2. l.bits[i].k # "bad"
      BY <1>1 DEF Range
    <3>3. l.bits[i].k # "FALSE" /\ l.bits[i].k # "TRUE"
      BY <2>2, <2>4 DEF parseLiteral
    <3>4. QED
      BY <3>1, <3>2, <3>3
  <2>6. QED
    BY <1>4, <2>4, <2>5
<1>6. QED
  BY <1>3, <1>4, <1>5

-----------------------------------------------------------------------------
(* Every step keeps the parser's part of the invariant *)

(* A clause's line holds numbers.                                          *)
LEMMA NumsAre ==
    ASSUME request \in Requests, request.file # Absent, NEW l \in FileLines,
           l.kind \in {"clause", "cr"}
    PROVE  l.nums \in Seq(Int)
<1>1. l.nums \in Seq(Ints \ {-twoTo[UintBits - 1]})
  BY LinesAre DEF IsLine
<1>2. Ints \ {-twoTo[UintBits - 1]} \subseteq Int
  BY Widths DEF Ints
<1>3. QED
  BY <1>1, <1>2, SeqMonotonic

(* Reading a line adds it to those read.                                   *)
LEMMA ReadOne ==
    ASSUME Parsed, pc = "read", NEW kinds, Reading(kinds)
    PROVE  /\ request.file # Absent /\ Line \in FileLines /\ Line.kind \in kinds
           /\ ReadLines' = ReadLines \cup {Line}
           /\ at' \in Nat /\ at' <= Len(request'.file.lines) /\ request' = request
<1>1. request \in Requests /\ request.file # Absent /\ at \in Nat
  BY DEF Parsed, Opened
<1>2. PICK n \in Nat : n = Len(request.file.lines)
  BY <1>1, LinesAre
<1>3. at < n /\ at' = at + 1 /\ request' = request /\ Line.kind \in kinds
  BY <1>2 DEF Reading
<1>4. at + 1 \in 1 .. n /\ 1 .. at + 1 = (1 .. at) \cup {at + 1}
  BY <1>1, <1>3
<1>5. Line \in FileLines
  BY <1>1, <1>2, <1>4, LinesAre DEF Line
<1>6. ReadLines' = ReadLines \cup {Line}
  <2>1. ReadLines' = {request.file.lines[k] : k \in 1 .. at + 1}
    BY <1>3 DEF ReadLines
  <2>2. ReadLines' = {request.file.lines[k] : k \in (1 .. at) \cup {at + 1}}
    BY <1>4, <2>1
  <2>3. QED
    BY <2>2 DEF ReadLines, Line
<1>7. QED
  BY <1>1, <1>2, <1>3, <1>5, <1>6

(* One more line adds its clause, or nothing.                              *)
LEMMA ClausesOfMore ==
    ASSUME NEW L, NEW l
    PROVE  /\ l.kind # "clause" => ClausesOf(L \cup {l}) = ClausesOf(L)
           /\ l.kind = "clause" =>
                 ClausesOf(L \cup {l}) = ClausesOf(L) \cup {Range(handle_clause(l.nums, l.blank))}
  BY DEF ClausesOf

(* The clauses as sets of literals, and that their literals are small.     *)
Told == {Range(clauses[i]) : i \in DOMAIN clauses}
Small == \A i \in DOMAIN clauses : \A n \in Range(clauses[i]) : abs(n) \in 1 .. max_var

(* A new clause is one more, and max_var grows with it.                    *)
LEMMA ClauseRead ==
    ASSUME Parsed, NEW c \in Seq(Int), 0 \notin Range(c),
           clauses' = Append(clauses, c), max_var' = LargestOf(c)
    PROVE  /\ clauses' \in Seq(Seq(Int)) /\ max_var' \in Nat
           /\ Told' = Told \cup {Range(c)} /\ Small'
<1>1. /\ clauses \in Seq(Seq(Int)) /\ max_var \in Nat
      /\ \A i \in DOMAIN clauses : \A n \in Range(clauses[i]) : abs(n) \in 1 .. max_var
  BY DEF Parsed
<1>2. /\ max_var' \in Nat /\ max_var <= max_var'
      /\ \A n \in Range(c) : abs(n) <= max_var'
  BY <1>1, LargestIs
<1>3. clauses' \in Seq(Seq(Int))
  BY <1>1
<1>4. /\ DOMAIN clauses' = DOMAIN clauses \cup {Len(clauses) + 1}
      /\ \A i \in DOMAIN clauses : clauses'[i] = clauses[i]
      /\ clauses'[Len(clauses) + 1] = c
  BY <1>1
<1>5. Told' = Told \cup {Range(c)}
  BY <1>4 DEF Told
<1>6. ASSUME NEW i \in DOMAIN clauses', NEW n \in Range(clauses'[i])
      PROVE  abs(n) \in 1 .. max_var'
  <2>1. CASE i \in DOMAIN clauses
    <3>1. abs(n) \in 1 .. max_var
      BY <1>1, <1>4, <1>6, <2>1
    <3>2. QED
      BY <1>1, <1>2, <3>1
  <2>2. CASE i = Len(clauses) + 1
    <3>1. n \in Range(c)
      BY <1>4, <1>6, <2>2
    <3>2. n \in Int /\ n # 0
      BY <3>1, SequenceIsFinite
    <3>3. abs(n) \in Nat /\ abs(n) # 0
      BY <3>2, AbsIs
    <3>4. QED
      BY <1>2, <3>1, <3>3
  <2>3. QED
    BY <1>4, <2>1, <2>2
<1>7. Small'
  BY <1>6 DEF Small
<1>8. QED
  BY <1>2, <1>3, <1>5, <1>7

(* The steps that read no line leave what was read alone.                  *)
LEMMA ParsedStays ==
    ASSUME Parsed, UNCHANGED <<request, at, clauses, max_var>>,
           (Opened \/ pc = "open")' => request.file # Absent,
           ~Opened' => at = 0,
           (pc = "activate" \/ Counting)' => at = Len(request.file.lines)
    PROVE  Parsed'
<1>1. /\ request \in Requests /\ at \in Nat /\ (at # 0 => at <= Len(request.file.lines))
      /\ max_var \in Nat /\ clauses \in Seq(Seq(Int)) /\ Told = ClausesOf(ReadLines) /\ Small
  BY DEF Parsed, Told, Small
<1>2. Told' = Told /\ Small' = Small /\ ReadLines' = ReadLines
  BY DEF Told, Small, ReadLines
<1>3. Told' = ClausesOf(ReadLines)' /\ Small'
  BY <1>1, <1>2 DEF ClausesOf
<1>4. QED
  BY <1>1, <1>3 DEF Parsed, Told, Small

(* The parser goes on to the next line.                                    *)
LEMMA ParsedGrows ==
    ASSUME Parsed, pc = "read", NEW kinds, Reading(kinds), pc' \in {"read", "uncaught", "undefined"},
           clauses' \in Seq(Seq(Int)), max_var' \in Nat, Small',
           Told' = ClausesOf(ReadLines \cup {Line})
    PROVE  Parsed'
<1>1. /\ request.file # Absent /\ ReadLines' = ReadLines \cup {Line}
      /\ at' \in Nat /\ at' <= Len(request'.file.lines) /\ request' = request
  BY ReadOne
<1>2. request' \in Requests
  BY <1>1 DEF Parsed
<1>3. Opened' /\ ~(pc' = "activate" \/ Counting')
  BY DEF Opened, Counting
<1>4. Told' = ClausesOf(ReadLines)'
  BY <1>1 DEF ClausesOf
<1>5. QED
  BY <1>1, <1>2, <1>3, <1>4 DEF Parsed, Told, Small

(* max_var grows, and the clauses stay small.                              *)
LEMMA SmallStays ==
    ASSUME Parsed, max_var' \in Nat, max_var <= max_var', clauses' = clauses
    PROVE  Small' /\ Told' = Told /\ clauses' \in Seq(Seq(Int))
<1>1. max_var \in Nat /\ Small /\ clauses \in Seq(Seq(Int))
  BY DEF Parsed, Small
<1>2. ASSUME NEW i \in DOMAIN clauses, NEW n \in Range(clauses[i]) PROVE abs(n) \in 1 .. max_var'
  <2>1. abs(n) \in 1 .. max_var
    BY <1>1, <1>2 DEF Small
  <2>2. QED
    BY <1>1, <2>1
<1>3. Small'
  BY <1>2 DEF Small
<1>4. Told' = Told
  BY DEF Told
<1>5. QED
  BY <1>1, <1>3, <1>4

(* Every step keeps what is parsed in step with the lines read.            *)
LEMMA ParsedNext ==
    ASSUME Parsed, [Next]_vars
    PROVE  Parsed'
<1> USE DEF parserVars, cliVars, reportVars
<1>0. /\ (Opened \/ pc = "open" => request.file # Absent) /\ (~Opened => at = 0)
      /\ (pc = "activate" \/ Counting => at = Len(request.file.lines))
      /\ Told = ClausesOf(ReadLines)
  BY DEF Parsed, Told
<1>1. CASE UNCHANGED vars
  <2>1. UNCHANGED <<pc, request, at, clauses, max_var>>
    BY <1>1 DEF vars
  <2>2. QED
    BY <1>0, <2>1, ParsedStays DEF Opened, Counting
<1>2. CASE CommandLineNext /\ UNCHANGED <<parserVars, reportVars>>
  <2>1. CASE Store
    <3>1. UNCHANGED <<request, at, clauses, max_var>> /\ pc = "store" /\ pc' \in {"exit1", "notify"}
      BY <1>2, <2>1 DEF Store
    <3>2. QED
      BY <1>0, <3>1, ParsedStays DEF Opened, Counting
  <2>2. CASE Help
    <3>1. UNCHANGED <<request, at, clauses, max_var>> /\ pc = "notify" /\ pc' = "exit0"
      BY <1>2, <2>2 DEF Help
    <3>2. QED
      BY <1>0, <3>1, ParsedStays DEF Opened, Counting
  <2>3. CASE Notify
    <3>1. /\ UNCHANGED <<request, at, clauses, max_var>> /\ pc = "notify"
          /\ pc' = "exit1" \/ (pc' = "open" /\ request.file # Absent)
      BY <1>2, <2>3 DEF Notify
    <3>2. QED
      BY <1>0, <3>1, ParsedStays DEF Opened, Counting
  <2>4. QED
    BY <1>2, <2>1, <2>2, <2>3 DEF CommandLineNext
<1>3. CASE ParserNext /\ UNCHANGED reportVars
  <2>1. CASE Open
    <3>1. /\ UNCHANGED <<request, at, clauses, max_var>>
          /\ pc = "open" /\ pc' \in {"read", "exit1"}
      BY <2>1 DEF Open
    <3>2. QED
      BY <1>0, <3>1, ParsedStays DEF Opened, Counting
  <2>2. CASE ReadSkipped
    <3>1. /\ pc = "read" /\ pc' = "read" /\ Reading({"empty", "header"})
          /\ clauses' = clauses /\ max_var' = max_var
      BY <2>2 DEF ReadSkipped, Reading
    <3>2. Line.kind # "clause"
      BY <3>1, ReadOne
    <3>3. Told = ClausesOf(ReadLines \cup {Line})
      BY <1>0, <3>2, ClausesOfMore
    <3>4. max_var' \in Nat /\ max_var <= max_var'
      BY <3>1 DEF Parsed
    <3>5. QED
      BY <3>1, <3>3, <3>4, SmallStays, ParsedGrows
  <2>3. CASE ReadClause
    <3> DEFINE c == handle_clause(Line.nums, Line.blank)
    <3>1. /\ pc = "read" /\ pc' = "read" /\ Reading({"clause"})
          /\ clauses' = Append(clauses, c) /\ max_var' = LargestOf(c)
      BY <2>3 DEF ReadClause, Reading
    <3>2. request.file # Absent /\ Line \in FileLines /\ Line.kind = "clause" /\ request \in Requests
      BY <3>1, ReadOne DEF Parsed
    <3>3. Line.nums \in Seq(Int)
      BY <3>2, NumsAre
    <3>4. c \in Seq(Int) /\ 0 \notin Range(c)
      BY <3>3, HandleClauseIs
    <3>5. ClausesOf(ReadLines \cup {Line}) = ClausesOf(ReadLines) \cup {Range(c)}
      BY <3>2, ClausesOfMore
    <3> HIDE DEF c
    <3>6. /\ clauses' \in Seq(Seq(Int)) /\ max_var' \in Nat
          /\ Told' = Told \cup {Range(c)} /\ Small'
      BY <3>1, <3>4, ClauseRead
    <3>7. Told' = ClausesOf(ReadLines \cup {Line})
      BY <1>0, <3>5, <3>6
    <3>8. QED
      BY <3>1, <3>6, <3>7, ParsedGrows
  <2>4. CASE ReadRemembered
    <3> DEFINE nums == handle_clause(Line.nums, Line.blank)
    <3>1. /\ pc = "read" /\ pc' = "read" /\ Reading({"cr"})
          /\ clauses' = clauses /\ max_var' = LargestOf(nums)
      BY <2>4 DEF ReadRemembered, Reading
    <3>2. request.file # Absent /\ Line \in FileLines /\ Line.kind = "cr" /\ request \in Requests
      BY <3>1, ReadOne DEF Parsed
    <3>3. Line.nums \in Seq(Int)
      BY <3>2, NumsAre
    <3>4. nums \in Seq(Int)
      BY <3>3, HandleClauseIs
    <3> HIDE DEF nums
    <3>5. max_var \in Nat
      BY DEF Parsed
    <3>6. max_var' \in Nat /\ max_var <= max_var'
      BY <3>1, <3>4, <3>5, LargestIs
    <3>7. Told = ClausesOf(ReadLines \cup {Line})
      BY <1>0, <3>2, ClausesOfMore
    <3>8. QED
      BY <3>1, <3>6, <3>7, SmallStays, ParsedGrows
  <2>5. CASE ReadComment
    <3>1. /\ pc = "read" /\ Reading({"var", "bool", "comment"})
          /\ clauses' = clauses /\ max_var' = max_var
      BY <2>5 DEF ReadComment, Reading
    <3>2. pc' \in {"read", "uncaught", "undefined"}
      BY <2>5 DEF ReadComment
    <3>3. Line.kind # "clause"
      BY <3>1, ReadOne
    <3>4. Told = ClausesOf(ReadLines \cup {Line})
      BY <1>0, <3>3, ClausesOfMore
    <3>5. max_var' \in Nat /\ max_var <= max_var'
      BY <3>1 DEF Parsed
    <3>6. QED
      BY <3>1, <3>2, <3>4, <3>5, SmallStays, ParsedGrows
  <2>6. CASE sort_variables
    <3>1. /\ UNCHANGED <<request, at, clauses, max_var>> /\ pc = "read"
          /\ at = Len(request.file.lines) /\ pc' \in {"uncaught", "activate"}
      BY <2>6 DEF sort_variables
    <3>2. QED
      BY <1>0, <3>1, ParsedStays DEF Opened, Counting
  <2>7. QED
    BY <1>3, <2>1, <2>2, <2>3, <2>4, <2>5, <2>6 DEF ParserNext
<1>4. CASE Activate
  <2>1. /\ UNCHANGED <<request, at, clauses, max_var>> /\ pc = "activate"
        /\ pc' \in {"undefined", "sharp", "uncaught", "stat", "count"}
    BY <1>4 DEF Activate, Begin
  <2>2. QED
    BY <1>0, <2>1, ParsedStays DEF Opened, Counting
<1>5. CASE Count
  <2>1. UNCHANGED <<request, at, clauses, max_var>> /\ pc = "count"
    BY <1>5 DEF Count
  <2>2. pc' \in {"undefined", "uncaught", "stat", "count"}
    BY <1>5 DEF Count
  <2>3. QED
    BY <1>0, <2>1, <2>2, ParsedStays DEF Opened, Counting
<1>6. CASE Finish
  <2>1. UNCHANGED <<request, at, clauses, max_var>> /\ pc = "count" /\ pc' \in {"sigfpe", "done"}
    BY <1>6 DEF Finish
  <2>2. QED
    BY <1>0, <2>1, ParsedStays DEF Opened, Counting
<1>7. CASE StatPoint
  <2>1. /\ UNCHANGED <<request, at, clauses, max_var>> /\ pc = "stat"
        /\ pc' \in {"undefined", "count"}
    BY <1>7 DEF StatPoint
  <2>2. QED
    BY <1>0, <2>1, ParsedStays DEF Opened, Counting
<1>8. QED
  BY <1>1, <1>2, <1>3, <1>4, <1>5, <1>6, <1>7 DEF Next, Terminated

-----------------------------------------------------------------------------
(* Variables are picked from the file only *)

(* A step that reads no variable picks none.                               *)
LEMMA PickedStays ==
    ASSUME Picked, UNCHANGED <<request, variables, collected, literals>>
    PROVE  Picked'
<1>1. Extracted' = Extracted
  BY DEF Extracted, VariableLines, FileLines
<1>2. QED
  BY <1>1 DEF Picked

(* Every step picks from the variables that the file has.                  *)
LEMMA PickedNext ==
    ASSUME Parsed, Picked, [Next]_vars
    PROVE  Picked'
<1> USE DEF parserVars, cliVars, reportVars
<1>1. CASE UNCHANGED <<request, variables, collected, literals>>
  BY <1>1, PickedStays
<1>2. CASE ReadComment
  <2> DEFINE bad == Line.kind # "comment" /\ Unreadable(Line)
  <2>1. /\ UNCHANGED <<request, collected, literals>> /\ pc = "read"
        /\ Reading({"var", "bool", "comment"})
    BY <1>2 DEF ReadComment, Reading
  <2>2. \/ variables' = variables
        \/ Line.kind # "comment" /\ ~Unreadable(Line) /\ variables' = Append(variables, extractLine(Line))
    BY <1>2 DEF ReadComment
  <2>3. /\ Line \in FileLines /\ Line.kind \in {"var", "bool", "comment"}
        /\ request'.file # Absent
    BY <2>1, ReadOne
  <2>4. variables' \in Seq(Extracted)
    <3>1. variables \in Seq(Extracted)
      BY DEF Picked
    <3>2. CASE Line.kind # "comment" /\ ~Unreadable(Line) /\ variables' = Append(variables, extractLine(Line))
      <4>1. extractLine(Line) \in Extracted
        BY <2>3, <3>2 DEF Extracted, VariableLines
      <4>2. QED
        BY <3>1, <3>2, <4>1
    <3>3. QED
      BY <2>2, <3>1, <3>2
  <2>5. Extracted' = Extracted
    BY <2>1 DEF Extracted, VariableLines, FileLines
  <2>6. QED
    BY <2>1, <2>3, <2>4, <2>5 DEF Picked
<1>3. CASE sort_variables
  <2>1. UNCHANGED <<request, variables>> /\ pc = "read"
    BY <1>3 DEF sort_variables
  <2>2. CASE UNCHANGED <<collected, literals>>
    BY <2>1, <2>2, PickedStays
  <2>3. CASE /\ collected' = [r \in Roles |-> collectVariables(request.names[r])]
             /\ literals' = [r \in Roles |-> LiteralsOf(collected'[r])]
    <3>1. request \in Requests /\ request.file # Absent
      BY <2>1 DEF Parsed, Opened
    <3>2. \A v \in Extracted : v.time \in Int
      BY <3>1, ExtractedAreVariables DEF IsVariable
    <3>3. variables \in Seq(Extracted)
      BY DEF Picked
    <3>4. ASSUME NEW r \in Roles PROVE collectVariables(request.names[r]) \in Seq(Extracted)
      <4> DEFINE N == [all : BOOLEAN, name : STRING]
      <4>1. request.names[r] \in Seq(N)
        BY <3>1, RequestsAssumption DEF IsRequest
      <4> HIDE DEF N
      <4>2. QED
        BY <3>2, <3>3, <4>1, CollectIs
    <3>5. collected' \in [Roles -> Seq(Extracted)]
      BY <2>3, <3>4
    <3>6. Extracted' = Extracted
      BY <2>1 DEF Extracted, VariableLines, FileLines
    <3>7. QED
      BY <2>1, <2>3, <3>3, <3>5, <3>6 DEF Picked
  <2>4. QED
    BY <1>3, <2>2, <2>3 DEF sort_variables
<1>4. CASE CommandLineNext /\ UNCHANGED <<parserVars, reportVars>>
  <2>1. UNCHANGED <<request, variables, collected, literals>>
    BY <1>4 DEF CommandLineNext, Store, Help, Notify
  <2>2. QED
    BY <1>1, <2>1
<1>5. CASE Open \/ ReadSkipped \/ ReadClause \/ ReadRemembered
  <2>1. UNCHANGED <<request, variables, collected, literals>>
    BY <1>5 DEF Open, ReadSkipped, ReadClause, ReadRemembered, Reading
  <2>2. QED
    BY <1>1, <2>1
<1>6. CASE Activate \/ Count \/ Finish \/ StatPoint \/ UNCHANGED vars
  <2>1. UNCHANGED <<request, variables, collected, literals>>
    BY <1>6 DEF Activate, Count, Finish, StatPoint, vars
  <2>2. QED
    BY <1>1, <2>1
<1>7. QED
  BY <1>2, <1>3, <1>4, <1>5, <1>6 DEF Next, ParserNext, Terminated

-----------------------------------------------------------------------------
(* What is counted *)

(* The literals of a role are those of its variables.                      *)
LEMMA LiteralsTyped ==
    ASSUME Parsed, Picked, request.file # Absent
    PROVE  /\ \A v \in Extracted : IsVariable(v)
           /\ \A r \in Roles :
                 /\ literals[r] \in Seq(1 .. AllOnes - 1)
                 /\ Range(literals[r]) = UNION {Range(collected[r][i].literals) : i \in DOMAIN collected[r]}
<1>1. \A v \in Extracted : IsVariable(v)
  BY ExtractedAreVariables DEF Parsed
<1>2. ASSUME NEW r \in Roles
      PROVE  /\ literals[r] \in Seq(1 .. AllOnes - 1)
             /\ Range(literals[r]) = UNION {Range(collected[r][i].literals) : i \in DOMAIN collected[r]}
  <2>1. collected[r] \in Seq(Extracted) /\ literals[r] = LiteralsOf(collected[r])
    BY DEF Picked
  <2>2. QED
    BY <1>1, <2>1, LiteralsOfIs
<1>3. QED
  BY <1>1, <1>2

(* The header of the list has all selected literals.                       *)
LEMMA HeaderIs ==
    ASSUME Parsed, Picked, request.file # Absent, request.list
    PROVE  /\ Header \in Seq(1 .. AllOnes - 1)
           /\ Range(Header) = UNION {Range(literals[r]) : r \in Roles}
<1> DEFINE order == <<"input", "seed", "output">>
           s == [i \in 1 .. 3 |-> LiteralsOf(collected[order[i]])]
           T == 1 .. AllOnes - 1
<1>1. \A r \in Roles : literals[r] \in Seq(T) /\ literals[r] = LiteralsOf(collected[r])
  <2>1. \A r \in Roles : literals[r] \in Seq(T)
    BY LiteralsTyped
  <2>2. QED
    BY <2>1 DEF Picked
<1> HIDE DEF T
<1>2. /\ \A i \in 1 .. 3 : order[i] \in Roles
      /\ \A r \in Roles : \E i \in 1 .. 3 : order[i] = r
  BY DEF Roles
<1> HIDE DEF order
<1>3. \A i \in 1 .. 3 : s[i] = literals[order[i]]
  BY <1>1, <1>2
<1>4. s \in Seq(Seq(T)) /\ DOMAIN s = 1 .. 3
  BY <1>1, <1>2
<1>5. Header = FlattenSeq(s)
  BY DEF Header, order
<1> HIDE DEF s
<1>6. FlattenSeq(s) \in Seq(T) /\ Range(FlattenSeq(s)) = UNION {Range(s[i]) : i \in DOMAIN s}
  BY <1>4, FlattenIs
<1>7. UNION {Range(s[i]) : i \in DOMAIN s} = UNION {Range(literals[r]) : r \in Roles}
  <2>1. ASSUME NEW x, NEW i \in 1 .. 3, x \in Range(s[i])
        PROVE  \E r \in Roles : x \in Range(literals[r])
    BY <1>2, <1>3, <2>1
  <2>2. ASSUME NEW x, NEW r \in Roles, x \in Range(literals[r])
        PROVE  \E i \in 1 .. 3 : x \in Range(s[i])
    <3>1. PICK i \in 1 .. 3 : order[i] = r
      BY <1>2
    <3>2. QED
      BY <1>3, <2>2, <3>1
  <2>3. QED
    BY <1>4, <2>1, <2>2
<1>8. QED
  BY <1>5, <1>6, <1>7 DEF T

(* There are finitely many models, and each has the solver's variables.    *)
LEMMA ModelsAre ==
    ASSUME nVars \in Nat
    PROVE  /\ IsFiniteSet(Models)
           /\ \A m \in Models : m \in [0 .. nVars - 1 -> BOOLEAN] /\ DOMAIN m = 0 .. nVars - 1
<1>1. IsFiniteSet(0 .. nVars - 1)
  <2>1. 0 \in Int /\ nVars - 1 \in Int
    OBVIOUS
  <2>2. QED
    BY <2>1, FS_Interval
<1>2. IsFiniteSet([0 .. nVars - 1 -> BOOLEAN])
  BY <1>1, FiniteVectors
<1>3. Models \in SUBSET [0 .. nVars - 1 -> BOOLEAN]
  BY DEF Models
<1>4. IsFiniteSet(Models)
  BY <1>2, <1>3, FS_Subset
<1>5. QED
  BY <1>3, <1>4

(* Before anything is counted.                                             *)
LEMMA CountedBefore ==
    ASSUME Parsed', Picked', reportVars' = <<0, <<>>, {}, <<>>, <<>>, Unknown, <<>>>>,
           ~Counting', pc' # "stat"
    PROVE  Counted'
<1>1. nVars' = 0 /\ model' = <<>> /\ found' = {}
  BY DEF reportVars
<1>2. IsFiniteSet({})
  BY FS_EmptySet
<1>3. QED
  BY <1>1, <1>2 DEF Counted

(* While nothing is counted.                                               *)
LEMMA CountedStays ==
    ASSUME Counted,
           UNCHANGED <<request, opt, clauses, max_var, collected, literals,
                       nVars, model, found, columns>>,
           Opened' => pc' \notin {"read", "activate", "stat"} \/ pc' = pc,
           Counting' => Counting,
           (~Opened \/ pc \in {"read", "activate"})' => ~Opened \/ pc \in {"read", "activate"},
           UNCHANGED <<rows, inputs, lines>> \/ ~(~Opened \/ pc \in {"read", "activate"})'
    PROVE  Counted'
<1>1. Models' = Models /\ Read' = Read /\ Header' = Header
  BY DEF Models, Read, Projection, Vars, Header
<1>2. nVars' \in {0, max_var' + 1} /\ (Counting' => nVars' = max_var' + 1 /\ columns' = Header')
  BY <1>1 DEF Counted
<1>3. (~Opened \/ pc \in {"read", "activate"})' =>
           reportVars' = <<0, <<>>, {}, <<>>, <<>>, Unknown, <<>>>>
  BY DEF Counted, reportVars
<1>4. pc' = "stat" => pc = "stat"
  BY DEF Opened
<1>5. QED
  BY <1>1, <1>2, <1>3, <1>4 DEF Counted

(* The solver gets its variables, and the list its header.                 *)
LEMMA CountedActivate ==
    ASSUME Parsed, Picked, Counted, Activate
    PROVE  Counted'
<1> USE DEF parserVars, reportVars
<1>1. /\ pc = "activate" /\ nVars' = max_var + 1 /\ columns' = Header
      /\ UNCHANGED <<request, opt, clauses, max_var, collected, literals, model, found, rows, inputs, lines>>
  BY DEF Activate, ensure_variables, Header
<1>2. pc' = IF ShiftFails THEN "undefined" ELSE Begin
  BY DEF Activate
<1>3. nVars = 0 /\ model = <<>> /\ found = {}
  BY <1>1 DEF Counted, Opened
<1>4. pc' \in {"undefined", "sharp", "uncaught", "stat", "count"}
  BY <1>2 DEF Begin
<1>5. pc' = "stat" => literals["output"] # <<>> /\ opt.mode = "unguided"
  BY <1>2 DEF Begin
<1>6. Header' = Header
  BY <1>1 DEF Header
<1>7. IsFiniteSet({})
  BY FS_EmptySet
<1>8. ~(~Opened \/ pc \in {"read", "activate"})'
  BY <1>4 DEF Opened
<1>9. /\ nVars' \in {0, max_var' + 1} /\ (Counting' => nVars' = max_var' + 1 /\ columns' = Header')
      /\ model' = <<>> /\ found' = {}
  BY <1>1, <1>3, <1>6
<1>10. (pc = "stat" => /\ literals["output"] # <<>>
                       /\ opt.mode = "unguided" /\ found = {} /\ model = <<>>)'
  BY <1>1, <1>5, <1>9
<1> HIDE DEF reportVars
<1>11. QED
  BY <1>7, <1>8, <1>9, <1>10 DEF Counted

(* What is counted is a model that has the literals that are read.         *)
LEMMA CountedCount ==
    ASSUME Parsed, Picked, Counted, Count
    PROVE  Counted'
<1> USE DEF parserVars
<1>1. /\ pc = "count"
      /\ UNCHANGED <<request, opt, clauses, max_var, collected, literals, nVars, columns>>
  BY DEF Count
<1>2. nVars = max_var + 1 /\ max_var \in Nat /\ columns = Header
  BY <1>1 DEF Counted, Counting, Parsed
<1>3. PICK m \in Models :
        /\ model' = m
        /\ IF opt.mode \in StatModes /\ literals["output"] = <<>>
           THEN pc' = "uncaught" /\ UNCHANGED found
           ELSE IF ~(Read \subseteq DOMAIN m) THEN pc' = "undefined" /\ UNCHANGED found
           ELSE found' = found \cup {m} /\ pc' = IF opt.mode \in StatModes THEN "stat" ELSE pc
  BY DEF Count, Remaining
<1>4. Models' = Models /\ Read' = Read /\ Header' = Header
  BY <1>1 DEF Models, Read, Projection, Vars, Header
<1>5. DOMAIN m = 0 .. nVars - 1
  BY <1>2, ModelsAre
<1>6. /\ found \in SUBSET Models /\ IsFiniteSet(found)
      /\ (found # {} => Read \subseteq 0 .. nVars - 1)
      /\ (found # {} /\ opt.mode \in StatModes => literals["output"] # <<>>)
  BY DEF Counted
<1>7. pc' \in {"undefined", "uncaught", "stat", "count"}
  BY <1>1, <1>3
<1>8. ~(~Opened \/ pc \in {"read", "activate"})'
  BY <1>7 DEF Opened
<1>9. nVars' \in {0, max_var' + 1} /\ (Counting' => nVars' = max_var' + 1 /\ columns' = Header')
  BY <1>1, <1>2, <1>4
<1>10. model' \in Models' /\ found' \in SUBSET Models' /\ IsFiniteSet(found')
  <2>1. model' \in Models
    BY <1>3
  <2>2. CASE found' = found
    BY <1>4, <1>6, <2>1, <2>2
  <2>3. CASE found' = found \cup {m}
    <3>1. IsFiniteSet(found \cup {m})
      BY <1>6, FS_AddElement
    <3>2. QED
      BY <1>4, <1>6, <2>1, <2>3, <3>1
  <2>4. QED
    BY <1>3, <2>2, <2>3
<1>11. found' # {} => Read \subseteq 0 .. nVars - 1
  BY <1>3, <1>5, <1>6
<1>12. found' # {} /\ opt.mode \in StatModes => literals["output"] # <<>>
  BY <1>3, <1>6
<1>13. pc' = "stat" => opt.mode \in StatModes /\ found' # {}
  BY <1>1, <1>3
<1>14. QED
  BY <1>1, <1>4, <1>8, <1>9, <1>10, <1>11, <1>12, <1>13 DEF Counted

(* Every step keeps the count in step with the models.                     *)
LEMMA CountedNext ==
    ASSUME Parsed, Picked, Counted, [Next]_vars
    PROVE  Counted'
<1> USE DEF parserVars, cliVars, reportVars
<1>1. Parsed' /\ Picked'
  BY ParsedNext, PickedNext
<1>2. CASE UNCHANGED vars
  <2>1. UNCHANGED <<pc, request, opt, clauses, max_var, collected, literals, nVars, model, found,
                    columns, rows, inputs, lines>>
    BY <1>2 DEF vars
  <2>2. QED
    BY <2>1, CountedStays DEF Opened, Counting
<1>3. CASE (CommandLineNext /\ UNCHANGED <<parserVars, reportVars>>) \/ (ParserNext /\ UNCHANGED reportVars)
  <2>1. pc \in {"store", "notify", "open", "read"}
    BY <1>3 DEF CommandLineNext, Store, Help, Notify, ParserNext, Open, ReadSkipped, ReadClause,
                ReadRemembered, ReadComment, sort_variables, Reading
  <2>2. reportVars = <<0, <<>>, {}, <<>>, <<>>, Unknown, <<>>>> /\ UNCHANGED reportVars
    BY <1>3, <2>1 DEF Counted, Opened
  <2>3. pc' \in {"exit0", "exit1", "notify", "open", "read", "activate", "uncaught", "undefined"}
    <3>1. CASE CommandLineNext
      BY <3>1 DEF CommandLineNext, Store, Help, Notify
    <3>2. CASE Open \/ ReadComment \/ sort_variables
      BY <3>2 DEF Open, ReadComment, sort_variables
    <3>3. CASE ReadSkipped \/ ReadClause \/ ReadRemembered
      BY <2>1, <3>3 DEF ReadSkipped, ReadClause, ReadRemembered, Reading
    <3>4. QED
      BY <1>3, <3>1, <3>2, <3>3 DEF ParserNext
  <2>4. ~Counting' /\ pc' # "stat"
    BY <2>3 DEF Counting
  <2>5. reportVars' = <<0, <<>>, {}, <<>>, <<>>, Unknown, <<>>>>
    BY <2>2
  <2> HIDE DEF reportVars
  <2>6. QED
    BY <1>1, <2>4, <2>5, CountedBefore
<1>4. CASE Activate
  BY <1>4, CountedActivate
<1>5. CASE Count
  BY <1>5, CountedCount
<1>6. CASE Finish
  <2>1. /\ UNCHANGED <<request, opt, clauses, max_var, collected, literals, nVars, model, found,
                       columns, rows, inputs, lines>>
        /\ pc = "count" /\ pc' \in {"sigfpe", "done"}
    BY <1>6 DEF Finish
  <2>2. QED
    BY <2>1, CountedStays DEF Opened, Counting
<1>7. CASE StatPoint
  <2>1. /\ UNCHANGED <<request, opt, clauses, max_var, collected, literals, nVars, model, found,
                       columns>>
        /\ pc = "stat" /\ pc' \in {"undefined", "count"}
    BY <1>7 DEF StatPoint
  <2>2. QED
    BY <2>1, CountedStays DEF Opened, Counting
<1>8. QED
  BY <1>2, <1>3, <1>4, <1>5, <1>6, <1>7 DEF Next, Terminated

-----------------------------------------------------------------------------
(* What is reported *)

(* A value in a word: the value itself, if it fits.                        *)
LEMMA WordIs ==
    ASSUME NEW x \in Nat
    PROVE  /\ x % twoTo[WordBits] \in Nat /\ x % twoTo[WordBits] <= x
           /\ x < twoTo[WordBits] => x % twoTo[WordBits] = x
<1>1. PICK M \in Nat \ {0} : M = twoTo[WordBits]
  BY WordAssumption, PowerPositive
<1>2. x < M => x % M = x
  OBVIOUS
<1>3. x % M \in 0 .. M - 1
  OBVIOUS
<1>4. x % M <= x
  <2>1. CASE x < M
    BY <1>2, <2>1
  <2>2. CASE ~(x < M)
    BY <1>3, <2>2
  <2>3. QED
    BY <2>1, <2>2
<1>5. QED
  BY <1>1, <1>2, <1>3, <1>4

(* The solver's variables of the literals of a role.                       *)
LEMMA VarsAre ==
    ASSUME Parsed, Picked, request.file # Absent, NEW r \in Roles,
           Range(Vars(r)) \subseteq 0 .. nVars - 1
    PROVE  Vars(r) \in Seq(0 .. nVars - 1) /\ Len(Vars(r)) = Len(literals[r])
<1>1. literals[r] \in Seq(1 .. AllOnes - 1)
  BY LiteralsTyped
<1>2. DOMAIN literals[r] = 1 .. Len(literals[r]) /\ Len(literals[r]) \in Nat
  BY <1>1
<1>3. DOMAIN Vars(r) = 1 .. Len(literals[r])
  BY <1>2 DEF Vars
<1>4. \A i \in DOMAIN Vars(r) : Vars(r)[i] \in 0 .. nVars - 1
  BY DEF Range
<1>5. Vars(r) = [i \in 1 .. Len(literals[r]) |-> Vars(r)[i]]
  BY <1>2 DEF Vars
<1>6. Vars(r) \in [1 .. Len(literals[r]) -> 0 .. nVars - 1]
  BY <1>3, <1>4, <1>5
<1>7. QED
  <2> DEFINE V == 0 .. nVars - 1
  <2>1. PICK n \in Nat : n = Len(literals[r])
    BY <1>2
  <2>2. PICK s \in [1 .. n -> V] : s = Vars(r)
    BY <1>6, <2>1
  <2> HIDE DEF V
  <2>3. s \in Seq(V) /\ Len(s) = n
    OBVIOUS
  <2>4. QED
    BY <2>1, <2>2, <2>3 DEF V

(* Every model falls into a bucket of the table.                           *)
LEMMA BucketExists ==
    ASSUME Parsed, Picked, request.file # Absent, nVars \in Nat,
           Range(Vars("output")) \subseteq 0 .. nVars - 1, literals["output"] # <<>>, NEW m \in Models
    PROVE  /\ interpret_vars(m, Vars("output")) \in 0 .. space_size(Len(literals["output"])) - 1
           /\ interpret(m, Vars("output")) \in Nat
           /\ interpret(m, Vars("output")) < twoTo[Len(literals["output"])]
<1> DEFINE vs == Vars("output")
           V == 0 .. nVars - 1
<1>1. PICK n \in Nat : n = Len(literals["output"])
  <2>1. literals["output"] \in Seq(1 .. AllOnes - 1)
    BY LiteralsTyped DEF Roles
  <2>2. QED
    BY <2>1
<1>2. n # 0
  <2>1. literals["output"] \in Seq(1 .. AllOnes - 1)
    BY LiteralsTyped DEF Roles
  <2>2. QED
    BY <1>1, <2>1
<1>3. vs \in Seq(V) /\ Len(vs) = n
  BY <1>1, VarsAre DEF Roles
<1>4. m \in [V -> BOOLEAN]
  BY ModelsAre
<1> HIDE DEF vs, V
<1>5. interpret(m, vs) \in Nat /\ interpret(m, vs) < twoTo[n]
  BY <1>3, <1>4, InterpretRange
<1>6. interpret_vars(m, vs) \in Nat /\ interpret_vars(m, vs) <= interpret(m, vs)
  BY <1>5, WordIs DEF interpret_vars
<1>7. space_size(n) = twoTo[n] /\ twoTo[n] \in Nat
  BY <1>2, PowerPositive DEF space_size
<1>8. interpret_vars(m, vs) \in 0 .. space_size(n) - 1
  BY <1>5, <1>6, <1>7
<1>9. QED
  BY <1>1, <1>5, <1>8 DEF vs

(* The table holds as many inputs as were counted.                         *)
LEMMA TableHoldsAll ==
    ASSUME Parsed, Picked, Counted, request.file # Absent, nVars \in Nat,
           found # {}, literals["output"] # <<>>
    PROVE  sum_buckets(Buckets) = Cardinality(found) /\ Cardinality(found) \in Nat
<1> DEFINE K == 0 .. space_size(Len(literals["output"])) - 1
           f == [m \in found |-> interpret_vars(m, Vars("output"))]
<1>1. /\ found \in SUBSET Models /\ IsFiniteSet(found)
      /\ Range(Vars("output")) \subseteq 0 .. nVars - 1
  BY DEF Counted, Read
<1>2. f \in [found -> K]
  BY <1>1, BucketExists
<1>3. IsFiniteSet(K)
  <2>1. PICK n \in Nat : n = Len(literals["output"])
    <3>1. literals["output"] \in Seq(1 .. AllOnes - 1)
      BY LiteralsTyped DEF Roles
    <3>2. QED
      BY <3>1
  <2>2. space_size(n) \in Nat
    BY PowerPositive DEF space_size
  <2>3. 0 \in Int /\ space_size(n) - 1 \in Int
    BY <2>2
  <2>4. QED
    BY <2>1, <2>3, FS_Interval
<1>4. DOMAIN Buckets = K
  BY DEF Buckets
<1>5. \A k \in K : Buckets[k].size = Cardinality({m \in found : f[m] = k})
  <2> SUFFICES ASSUME NEW k \in K PROVE Buckets[k].size = Cardinality({m \in found : f[m] = k})
    OBVIOUS
  <2>1. Buckets[k].size = Cardinality({m \in found : interpret_vars(m, Vars("output")) = k})
    BY DEF Buckets
  <2>2. {m \in found : interpret_vars(m, Vars("output")) = k} = {m \in found : f[m] = k}
    OBVIOUS
  <2>3. QED
    BY <2>1, <2>2
<1> HIDE DEF K, f
<1>6. sum_buckets(Buckets) = Cardinality(found)
  BY <1>1, <1>2, <1>3, <1>4, <1>5, SumOfClasses
<1>7. QED
  BY <1>1, <1>6, FS_CardinalityType

(* What was written, whatever is counted or due.                           *)
Written ==
    /\ rows \in Seq([DOMAIN columns -> BOOLEAN])
    /\ rows # <<>> => request.list /\ opt.mode \in StatModes
    /\ inputs \in Nat \cup {Unknown}

(* The rows are one less than what was counted while a point is due.       *)
Complete ==
    /\ Len(rows) <= Cardinality(found)
    /\ pc \in {"count", "stat"} /\ opt.mode \in StatModes /\ request.list => Len(rows) = Due

(* What is reported: what is written, and that nothing is missing.         *)
LEMMA ReportedIs ==
    /\ Reported <=> Written /\ Complete
    /\ Reported' <=> Written' /\ Complete'
  BY DEF Reported, Written, Complete

(* A step that writes nothing keeps what is written.                       *)
LEMMA WrittenStays ==
    ASSUME Written, UNCHANGED <<request, opt, rows, inputs>>, rows = <<>> \/ columns' = columns
    PROVE  Written'
<1>1. rows' \in Seq([DOMAIN columns' -> BOOLEAN])
  BY DEF Written
<1>2. QED
  BY <1>1 DEF Written

(* Before anything is counted.                                             *)
LEMMA ReportedBefore ==
    ASSUME reportVars' = <<0, <<>>, {}, <<>>, <<>>, Unknown, <<>>>>, pc' \notin {"count", "stat"}
    PROVE  Reported'
<1>1. rows' = <<>> /\ inputs' = Unknown /\ found' = {}
  BY DEF reportVars
<1>2. Len(<<>>) <= Cardinality({})
  BY FS_EmptySet
<1>3. Written'
  BY <1>1 DEF Written
<1>4. Complete'
  BY <1>1, <1>2 DEF Complete
<1>5. QED
  BY <1>3, <1>4, ReportedIs

(* Nothing is written before the first input is counted.                   *)
LEMMA ReportedActivate ==
    ASSUME Counted, Reported, Activate
    PROVE  Reported'
<1> USE DEF parserVars
<1>1. /\ pc = "activate"
      /\ UNCHANGED <<request, opt, found, rows, inputs>>
  BY DEF Activate
<1>2. pc' = IF ShiftFails THEN "undefined" ELSE Begin
  BY DEF Activate
<1>3. rows = <<>> /\ inputs = Unknown /\ found = {}
  BY <1>1 DEF Counted, Opened, reportVars
<1>4. pc' = "stat" => opt.mode \notin StatModes
  BY <1>2 DEF Begin, StatModes
<1>5. Cardinality({}) = 0 /\ Len(<<>>) = 0
  BY FS_EmptySet
<1>6. Written'
  <2>1. Written
    BY ReportedIs
  <2>2. QED
    BY <1>1, <1>3, <2>1, WrittenStays
<1>7. Complete'
  <2>1. rows' = <<>> /\ found' = {} /\ opt' = opt
    BY <1>1, <1>3
  <2>2. Due' = IF pc' = "stat" THEN Cardinality({}) - 1 ELSE Cardinality({})
    BY <2>1 DEF Due
  <2>3. QED
    BY <1>4, <1>5, <2>1, <2>2 DEF Complete
<1>8. QED
  BY <1>6, <1>7, ReportedIs

(* A counted input is due.                                                 *)
LEMMA ReportedCount ==
    ASSUME Counted, Reported, Count
    PROVE  Reported'
<1> USE DEF parserVars
<1>1. pc = "count" /\ UNCHANGED <<request, opt, columns, rows, inputs>>
  BY DEF Count
<1>2. PICK m \in Models :
        /\ \A f \in found : \E v \in Projection : f[v] # m[v]
        /\ \/ pc' \in {"undefined", "uncaught"} /\ found' = found
           \/ found' = found \cup {m} /\ pc' = IF opt.mode \in StatModes THEN "stat" ELSE pc
  BY DEF Count, Remaining
<1>3. m \notin found
  BY <1>2
<1>4. IsFiniteSet(found) /\ Cardinality(found) \in Nat
  BY FS_CardinalityType DEF Counted
<1>5. Cardinality(found \cup {m}) = Cardinality(found) + 1
  BY <1>3, <1>4, FS_AddElement
<1>6. Written /\ Complete
  BY ReportedIs
<1>7. Written'
  BY <1>1, <1>6, WrittenStays
<1>8. /\ Len(rows) <= Cardinality(found)
      /\ opt.mode \in StatModes /\ request.list => Len(rows) = Cardinality(found)
  BY <1>1, <1>6 DEF Complete, Due
<1>9. opt.mode \notin StatModes => rows = <<>>
  BY <1>6 DEF Written
<1>10. Len(rows) \in Nat
  BY <1>6 DEF Written
<1>11. Complete'
  <2>1. CASE pc' \in {"undefined", "uncaught"} /\ found' = found
    BY <1>1, <1>8, <2>1 DEF Complete
  <2>2. CASE found' = found \cup {m} /\ pc' = IF opt.mode \in StatModes THEN "stat" ELSE pc
    <3>1. Len(rows) <= Cardinality(found')
      BY <1>4, <1>5, <1>8, <1>10, <2>2
    <3>2. CASE opt.mode \in StatModes
      <4>1. pc' = "stat" /\ Due' = Cardinality(found)
        BY <1>4, <1>5, <2>2, <3>2 DEF Due
      <4>2. QED
        BY <1>1, <1>8, <3>1, <3>2, <4>1 DEF Complete
    <3>3. CASE opt.mode \notin StatModes
      BY <1>1, <1>9, <3>1, <3>3 DEF Complete
    <3>4. QED
      BY <3>2, <3>3
  <2>3. QED
    BY <1>2, <2>1, <2>2
<1>12. QED
  BY <1>7, <1>11, ReportedIs

(* unguided calls stat_point before its first model, with an empty model   *)
(* array and a table of empty buckets: it survives that only if there is   *)
(* nothing to write.                                                       *)
LEMMA UnguidedPoint ==
    ASSUME Parsed, Picked, Counted, StatPoint, opt.mode \notin StatModes, pc' = "count"
    PROVE  ~request.statistic /\ ~request.list
<1>1. pc = "stat" /\ request.file # Absent /\ literals["output"] # <<>> /\ columns = Header
  BY DEF StatPoint, Parsed, Opened, Counted, Counting
<1>2. ~((request.statistic /\ found = {}) \/ (request.list /\ ~Inside(Range(columns))))
  BY DEF StatPoint
<1>3. found = {} /\ model = <<>>
  BY <1>1 DEF Counted
<1>4. ASSUME request.list PROVE FALSE
  <2>1. Range(columns) = UNION {Range(literals[r]) : r \in Roles}
    BY <1>1, <1>4, HeaderIs
  <2>2. literals["output"] \in Seq(1 .. AllOnes - 1)
    BY <1>1, LiteralsTyped DEF Roles
  <2>3. literals["output"][1] \in Range(literals["output"])
    BY <1>1, <2>2 DEF Range
  <2>4. Range(columns) # {}
    BY <2>1, <2>3 DEF Roles
  <2>5. Inside(Range(columns)) /\ DOMAIN model = {}
    BY <1>2, <1>3, <1>4
  <2>6. QED
    BY <2>4, <2>5 DEF Inside
<1>5. QED
  BY <1>2, <1>3, <1>4

(* The pair list grows by the model that was counted.                      *)
LEMMA ReportedStat ==
    ASSUME Parsed, Picked, Counted, Reported, StatPoint
    PROVE  Reported'
<1> USE DEF parserVars
<1>1. pc = "stat" /\ UNCHANGED <<request, opt, found, model, columns>>
  BY DEF StatPoint
<1>2. Written /\ Complete /\ request.file # Absent /\ literals["output"] # <<>>
  BY <1>1, ReportedIs DEF Parsed, Opened, Counted
<1>3. nVars = max_var + 1 /\ nVars \in Nat
  BY <1>1 DEF Counted, Counting, Parsed
<1>4. IsFiniteSet(found) /\ Cardinality(found) \in Nat
  BY FS_CardinalityType DEF Counted
<1>5. CASE pc' = "undefined" /\ UNCHANGED <<rows, inputs, lines>>
  <2>1. Written'
    BY <1>1, <1>2, <1>5, WrittenStays
  <2>2. Complete'
    BY <1>1, <1>2, <1>5 DEF Complete
  <2>3. QED
    BY <2>1, <2>2, ReportedIs
<1>6. CASE /\ ~((request.statistic /\ found = {}) \/ (request.list /\ ~Inside(Range(columns))))
           /\ pc' = "count"
           /\ IF request.statistic THEN Statistic_update ELSE UNCHANGED <<inputs, lines>>
           /\ rows' = IF request.list THEN BucketListWriter_write ELSE rows
  <2>1. CASE opt.mode \notin StatModes
    <3>1. ~request.statistic /\ ~request.list
      BY <1>6, <2>1, UnguidedPoint
    <3>2. UNCHANGED <<rows, inputs>>
      BY <1>6, <3>1
    <3>3. Written'
      BY <1>1, <1>2, <3>2, WrittenStays
    <3>4. Complete'
      BY <1>1, <1>2, <2>1, <3>2 DEF Complete
    <3>5. QED
      BY <3>3, <3>4, ReportedIs
  <2>2. CASE opt.mode \in StatModes
    <3>1. found # {} /\ model \in Models
      BY <1>1, <2>2 DEF Counted, StatModes
    <3>2. request.list => Len(rows) = Cardinality(found) - 1
      BY <1>1, <1>2, <2>2 DEF Complete, Due
    <3> DEFINE row == [j \in DOMAIN columns |-> model[columns[j]]]
               T == [DOMAIN columns -> BOOLEAN]
    <3>3. /\ rows' \in Seq(T) /\ (rows' # <<>> => request.list)
          /\ Len(rows') <= Cardinality(found)
          /\ (request.list => Len(rows') = Cardinality(found))
      <4>1. rows \in Seq(T) /\ (rows # <<>> => request.list) /\ Len(rows) <= Cardinality(found)
        BY <1>2 DEF Written, Complete
      <4>2. CASE request.list
        <5>1. rows' = Append(rows, row)
          BY <1>6, <4>2 DEF BucketListWriter_write
        <5>2. row \in T
          <6>1. Range(columns) \subseteq DOMAIN model
            BY <1>6, <4>2 DEF Inside
          <6>2. \A v \in DOMAIN model : model[v] \in BOOLEAN
            BY <1>3, <3>1, ModelsAre
          <6>3. \A j \in DOMAIN columns : model[columns[j]] \in BOOLEAN
            BY <6>1, <6>2 DEF Range
          <6>4. QED
            BY <6>3
        <5> HIDE DEF row, T
        <5>3. rows' \in Seq(T) /\ Len(rows') = Len(rows) + 1 /\ Len(rows) \in Nat
          BY <4>1, <5>1, <5>2
        <5>4. QED
          BY <1>4, <3>2, <4>2, <5>3
      <4>3. CASE ~request.list
        <5>1. rows' = rows /\ rows = <<>>
          BY <1>6, <4>1, <4>3
        <5>2. QED
          BY <4>1, <4>3, <5>1
      <4>4. QED
        BY <4>2, <4>3
    <3> HIDE DEF row
    <3>4. inputs' \in Nat \cup {Unknown}
      <4>1. CASE request.statistic
        <5>1. sum_buckets(Buckets) \in Nat
          BY <1>2, <1>3, <3>1, TableHoldsAll
        <5>2. inputs' = sum_buckets(Buckets)
          BY <1>6, <4>1 DEF Statistic_update
        <5>3. QED
          BY <5>1, <5>2
      <4>2. CASE ~request.statistic
        BY <1>2, <1>6, <4>2 DEF Written
      <4>3. QED
        BY <4>1, <4>2
    <3>5. Written'
      BY <1>1, <2>2, <3>3, <3>4 DEF Written
    <3>6. Due' = Cardinality(found) /\ pc' = "count"
      BY <1>1, <1>6 DEF Due
    <3>7. Complete'
      BY <1>1, <3>3, <3>6 DEF Complete
    <3>8. QED
      BY <3>5, <3>7, ReportedIs
  <2>3. QED
    BY <2>1, <2>2
<1>7. QED
  BY <1>5, <1>6 DEF StatPoint

(* Every step keeps the list in step with the count.                       *)
LEMMA ReportedNext ==
    ASSUME Parsed, Picked, Counted, Reported, [Next]_vars
    PROVE  Reported'
<1>1. CASE UNCHANGED vars \/ Finish
  <2>1. /\ UNCHANGED <<request, opt, found, columns, rows, inputs>>
        /\ pc' = pc \/ pc' \in {"sigfpe", "done"}
    BY <1>1 DEF Finish, vars, parserVars, cliVars, reportVars
  <2>2. Written /\ Complete
    BY ReportedIs
  <2>3. Written'
    BY <2>1, <2>2, WrittenStays
  <2>4. Complete'
    <3>1. pc' = pc => Due' = Due
      BY <2>1 DEF Due
    <3>2. QED
      BY <2>1, <2>2, <3>1 DEF Complete
  <2>5. QED
    BY <2>3, <2>4, ReportedIs
<1>2. CASE (CommandLineNext /\ UNCHANGED <<parserVars, reportVars>>) \/ (ParserNext /\ UNCHANGED reportVars)
  <2>1. pc \in {"store", "notify", "open", "read"}
    BY <1>2 DEF CommandLineNext, Store, Help, Notify, ParserNext, Open, ReadSkipped, ReadClause,
                ReadRemembered, ReadComment, sort_variables, Reading
  <2>2. reportVars = <<0, <<>>, {}, <<>>, <<>>, Unknown, <<>>>> /\ UNCHANGED reportVars
    BY <1>2, <2>1 DEF Counted, Opened
  <2>3. pc' \in {"exit0", "exit1", "notify", "open", "read", "activate", "uncaught", "undefined"}
    <3>1. CASE CommandLineNext
      BY <3>1 DEF CommandLineNext, Store, Help, Notify
    <3>2. CASE Open \/ ReadComment \/ sort_variables
      BY <3>2 DEF Open, ReadComment, sort_variables
    <3>3. CASE ReadSkipped \/ ReadClause \/ ReadRemembered
      BY <2>1, <3>3 DEF ReadSkipped, ReadClause, ReadRemembered, Reading
    <3>4. QED
      BY <1>2, <3>1, <3>2, <3>3 DEF ParserNext
  <2>4. reportVars' = <<0, <<>>, {}, <<>>, <<>>, Unknown, <<>>>>
    BY <2>2
  <2>5. QED
    BY <2>3, <2>4, ReportedBefore
<1>3. QED
  BY <1>1, <1>2, ReportedActivate, ReportedCount, ReportedStat DEF Next, Terminated

-----------------------------------------------------------------------------
(* Runs on well-formed files *)

(* Once all lines are read, the clauses are those of the file.             *)
LEMMA AllRead ==
    ASSUME Parsed, request.file # Absent, at = Len(request.file.lines)
    PROVE  /\ ReadLines = FileLines /\ max_var \in Nat
           /\ {Range(clauses[i]) : i \in DOMAIN clauses} = ClausesOf(FileLines)
           /\ \A i \in DOMAIN clauses : \A n \in Range(clauses[i]) : abs(n) \in 1 .. max_var
<1>1. ReadLines = FileLines
  BY LinesAre DEF Parsed, ReadLines
<1>2. QED
  BY <1>1 DEF Parsed

(* What is selected of a well-formed file are variables of the solver.     *)
LEMMA WellFormedSelected ==
    ASSUME Parsed, Picked, request.file # Absent, at = Len(request.file.lines), WellFormed
    PROVE  \A r \in Roles : \A p \in Range(literals[r]) : p \in 1 .. max_var /\ Var(p) = p - 1
<1> SUFFICES ASSUME NEW r \in Roles, NEW p \in Range(literals[r])
             PROVE  p \in 1 .. max_var /\ Var(p) = p - 1
  OBVIOUS
<1>1. PICK i \in DOMAIN collected[r] : p \in Range(collected[r][i].literals)
  BY LiteralsTyped
<1>2. collected[r][i] \in Extracted
  <2>1. collected[r] \in Seq(Extracted)
    BY DEF Picked
  <2>2. QED
    BY <2>1
<1>3. request \in Requests
  BY DEF Parsed
<1>4. QED
  BY <1>1, <1>2, <1>3, AllRead, WellFormedLiterals

(* The solver's variables of a well-formed file are in its models.         *)
LEMMA WellFormedInside ==
    ASSUME Parsed, Picked, request.file # Absent, at = Len(request.file.lines), WellFormed,
           nVars = max_var + 1
    PROVE  \A r \in Roles : Range(Vars(r)) \subseteq 0 .. nVars - 1
<1> SUFFICES ASSUME NEW r \in Roles, NEW x \in Range(Vars(r)) PROVE x \in 0 .. nVars - 1
  OBVIOUS
<1>1. PICK i \in DOMAIN literals[r] : x = Var(literals[r][i])
  BY DEF Vars, Range
<1>2. literals[r][i] \in Range(literals[r])
  BY DEF Range
<1>3. literals[r][i] \in 1 .. max_var /\ x = literals[r][i] - 1
  BY <1>1, <1>2, WellFormedSelected
<1>4. max_var \in Nat
  BY DEF Parsed
<1>5. QED
  BY <1>3, <1>4

(* A step that leaves what the causes are made of leaves them.             *)
LEMMA CauseStays ==
    ASSUME UNCHANGED <<request, opt, literals>>
    PROVE  /\ (WellFormed' <=> WellFormed) /\ (EmptyName' <=> EmptyName)
           /\ (ShiftFails' <=> ShiftFails)
           /\ UNCHANGED <<clauses, nVars>> => Models' = Models /\ (Cause' <=> Cause)
<1>1. WellFormed' <=> WellFormed
  BY DEF WellFormed, VariableLines, FileLines
<1>2. EmptyName' <=> EmptyName
  BY DEF EmptyName
<1>3. ShiftFails' <=> ShiftFails
  BY DEF ShiftFails, Shifted
<1>4. ASSUME UNCHANGED <<clauses, nVars>> PROVE Models' = Models /\ (Cause' <=> Cause)
  <2>1. Models' = Models
    BY <1>4 DEF Models
  <2>2. QED
    BY <1>2, <1>3, <2>1 DEF Cause, EmptyName
<1>5. QED
  BY <1>1, <1>2, <1>3, <1>4

(* Every step on the way to the count rules out causes.                    *)
LEMMA BegunNext ==
    ASSUME Parsed, Picked, Counted, Begun, [Next]_vars
    PROVE  Begun'
<1> USE DEF parserVars, cliVars, reportVars
<1>1. CASE UNCHANGED vars
  <2>1. UNCHANGED <<pc, request, opt, literals>>
    BY <1>1 DEF vars
  <2>2. QED
    BY <2>1, CauseStays DEF Begun
<1>2. CASE sort_variables
  <2>1. pc' = "uncaught" \/ (pc' = "activate" /\ ~EmptyName)
    BY <1>2 DEF sort_variables, EmptyName
  <2>2. request' = request
    BY <1>2 DEF sort_variables
  <2>3. QED
    BY <2>1, <2>2 DEF Begun, EmptyName
<1>3. CASE Activate
  <2>1. UNCHANGED <<request, opt, literals>> /\ pc = "activate"
        /\ pc' = IF ShiftFails THEN "undefined" ELSE Begin
    BY <1>3 DEF Activate
  <2>2. pc' \in {"undefined", "sharp", "uncaught", "stat", "count"}
    BY <2>1 DEF Begin
  <2>3. ~EmptyName
    BY <2>1 DEF Begun
  <2>4. pc' \in {"count", "stat"} =>
            /\ ~ShiftFails
            /\ opt.mode = "rand" => literals["seed"] # <<>>
            /\ opt.mode = "unguided" => literals["output"] # <<>>
    BY <2>1 DEF Begin
  <2>5. pc' = "count" => opt.mode # "unguided"
    BY <2>1 DEF Begin
  <2>6. QED
    BY <2>1, <2>2, <2>3, <2>4, <2>5, CauseStays DEF Begun
<1>4. CASE Count
  <2>1. UNCHANGED <<request, opt, literals>> /\ pc = "count"
        /\ pc' \in {"uncaught", "undefined", "stat", "count"}
    BY <1>4 DEF Count
  <2>2. QED
    BY <2>1, CauseStays DEF Begun
<1>5. CASE StatPoint
  <2>1. UNCHANGED <<request, opt, literals>> /\ pc = "stat" /\ pc' \in {"undefined", "count"}
    BY <1>5 DEF StatPoint
  <2>2. pc' = "count" /\ opt.mode = "unguided" => ~request.list /\ ~request.statistic
    BY <1>5, UnguidedPoint DEF StatModes
  <2>3. QED
    BY <2>1, <2>2, CauseStays DEF Begun
<1>6. CASE CommandLineNext \/ Open \/ ReadSkipped \/ ReadClause \/ ReadRemembered \/ ReadComment
  <2>1. pc' \notin {"activate", "count", "stat"}
    BY <1>6 DEF CommandLineNext, Store, Help, Notify, Open, ReadSkipped, ReadClause,
                ReadRemembered, ReadComment, Reading
  <2>2. QED
    BY <2>1 DEF Begun
<1>7. CASE Finish
  <2>1. pc' \in {"sigfpe", "done"}
    BY <1>7 DEF Finish
  <2>2. QED
    BY <2>1 DEF Begun
<1>8. QED
  BY <1>1, <1>2, <1>3, <1>4, <1>5, <1>6, <1>7 DEF Next, ParserNext, Terminated

(* What is read of a well-formed file's models is in them.                 *)
LEMMA ReadInside ==
    ASSUME Parsed, Picked, Counted, Begun, pc = "count", WellFormed
    PROVE  Read \subseteq 0 .. nVars - 1
<1>1. nVars = max_var + 1 /\ request.file # Absent /\ at = Len(request.file.lines)
  BY DEF Counted, Counting, Parsed, Opened
<1>2. \A r \in Roles : Range(Vars(r)) \subseteq 0 .. nVars - 1
  BY <1>1, WellFormedInside
<1>3. ASSUME opt.mode = "rand" PROVE Head(Vars("seed")) \in Range(Vars("seed"))
  <2>1. literals["seed"] # <<>> /\ literals["seed"] \in Seq(1 .. AllOnes - 1)
    BY <1>1, <1>3, LiteralsTyped DEF Begun, Roles
  <2>2. 1 \in DOMAIN Vars("seed") /\ Head(Vars("seed")) = Vars("seed")[1]
    BY <2>1 DEF Vars
  <2>3. QED
    BY <2>2 DEF Range
<1>4. QED
  BY <1>2, <1>3 DEF Read, Projection, Roles

(* A run on a well-formed file only fails with a cause.                    *)
LEMMA FailsWithCause ==
    ASSUME Parsed, Picked, Counted, Begun, WellFormedRunsAreDefined, Next,
           pc' \in {"undefined", "uncaught", "sigfpe"}, WellFormed', ~request'.optimised
    PROVE  Cause'
<1> USE DEF parserVars, cliVars, reportVars
<1>1. CASE ReadComment
  <2>1. /\ UNCHANGED <<request, opt, literals>> /\ pc = "read"
        /\ Reading({"var", "bool", "comment"})
    BY <1>1 DEF ReadComment, Reading
  <2>2. Line \in FileLines /\ Line.kind \in {"var", "bool", "comment"}
    BY <2>1, ReadOne
  <2>3. Line.kind # "comment" /\ Unreadable(Line)
    BY <1>1, <2>1 DEF ReadComment
  <2>4. Line \in VariableLines
    BY <2>2, <2>3 DEF VariableLines
  <2>5. Line.time = Absent \/ \E bit \in Range(Line.bits) : bit.k = "bad"
    BY <2>3 DEF Unreadable, Range
  <2>6. ~WellFormed
    BY <2>4, <2>5 DEF WellFormed
  <2>7. QED
    BY <2>1, <2>6, CauseStays
<1>2. CASE sort_variables
  <2>1. request' = request /\ EmptyName
    BY <1>2 DEF sort_variables, EmptyName
  <2>2. QED
    BY <2>1 DEF Cause, EmptyName
<1>3. CASE Activate
  <2>1. UNCHANGED <<request, opt, literals>>
    BY <1>3 DEF Activate
  <2>2. \/ ShiftFails
        \/ opt.mode = "unguided" /\ literals["output"] = <<>>
        \/ opt.mode = "rand" /\ literals["seed"] = <<>>
    BY <1>3 DEF Activate, Begin
  <2>3. QED
    BY <2>1, <2>2, CauseStays DEF Cause
<1>4. CASE Count
  <2>1. UNCHANGED <<request, opt, literals, clauses, nVars>> /\ pc = "count"
    BY <1>4 DEF Count
  <2>2. PICK m \in Models : \/ ~(Read \subseteq DOMAIN m)
                            \/ opt.mode \in StatModes /\ literals["output"] = <<>>
    BY <1>4, <2>1 DEF Count, Remaining
  <2>3. Read \subseteq DOMAIN m
    <3>1. nVars = max_var + 1 /\ max_var \in Nat
      BY <2>1 DEF Counted, Counting, Parsed
    <3>2. DOMAIN m = 0 .. nVars - 1
      BY <3>1, ModelsAre
    <3>3. WellFormed
      BY <2>1, CauseStays
    <3>4. QED
      BY <2>1, <3>2, <3>3, ReadInside
  <2>4. Cause
    BY <2>2, <2>3 DEF Cause
  <2>5. QED
    BY <2>1, <2>4, CauseStays
<1>5. CASE StatPoint
  <2>1. UNCHANGED <<request, opt, literals, clauses, nVars>> /\ pc = "stat"
    BY <1>5 DEF StatPoint
  <2>2. \/ request.statistic /\ found = {}
        \/ request.list /\ ~Inside(Range(columns))
    BY <1>5 DEF StatPoint
  <2>3. \/ opt.mode \in StatModes /\ found # {} /\ model \in Models
        \/ opt.mode = "unguided"
    BY <2>1 DEF Counted
  <2>4. CASE opt.mode = "unguided"
    <3>1. Cause
      BY <2>2, <2>4 DEF Cause
    <3>2. QED
      BY <2>1, <3>1, CauseStays
  <2>5. ASSUME found # {}, model \in Models PROVE FALSE
    <3>1. /\ nVars = max_var + 1 /\ request.file # Absent /\ at = Len(request.file.lines)
          /\ max_var \in Nat /\ columns = Header
      BY <2>1 DEF Counted, Counting, Parsed, Opened
    <3>2. DOMAIN model = 0 .. nVars - 1
      BY <2>5, <3>1, ModelsAre
    <3>3. WellFormed
      BY <2>1, CauseStays
    <3>4. \A r \in Roles : \A p \in Range(literals[r]) : p \in 1 .. max_var
      BY <3>1, <3>3, WellFormedSelected
    <3>5. request.list
      BY <2>2, <2>5
    <3>6. Range(columns) = UNION {Range(literals[r]) : r \in Roles}
      BY <3>1, <3>5, HeaderIs
    <3>7. Range(columns) \subseteq 1 .. max_var
      BY <3>4, <3>6
    <3>8. Range(columns) \subseteq DOMAIN model
      BY <3>1, <3>2, <3>7
    <3>9. QED
      BY <2>2, <2>5, <3>8 DEF Inside
  <2>6. QED
    BY <2>3, <2>4, <2>5
<1>6. CASE Finish
  <2>1. UNCHANGED <<request, opt, literals, clauses, nVars>>
    BY <1>6 DEF Finish
  <2>2. found = {} /\ opt.mode # "rand" /\ Remaining = {}
    BY <1>6 DEF Finish
  <2>3. Models = {}
    BY <2>2 DEF Remaining
  <2>4. Cause
    BY <2>2, <2>3 DEF Cause
  <2>5. QED
    BY <2>1, <2>4, CauseStays
<1>7. CASE Terminated
  <2>1. UNCHANGED <<pc, request, opt, literals, clauses, nVars>>
    BY <1>7 DEF Terminated, vars
  <2>2. Cause
    BY <2>1, CauseStays DEF WellFormedRunsAreDefined
  <2>3. QED
    BY <2>1, <2>2, CauseStays
<1>8. CASE CommandLineNext \/ Open \/ ReadSkipped \/ ReadClause \/ ReadRemembered
  BY <1>8 DEF CommandLineNext, Store, Help, Notify, Open, ReadSkipped, ReadClause, ReadRemembered,
              Reading
<1>9. QED
  BY <1>1, <1>2, <1>3, <1>4, <1>5, <1>6, <1>7, <1>8 DEF Next, ParserNext

(* A run that finished has no cause to fail.                               *)
LEMMA FinishedWithoutCause ==
    ASSUME Counted, Begun, Finish, pc' = "done"
    PROVE  ~Cause'
<1>1. UNCHANGED <<request, opt, literals, clauses, nVars>> /\ pc = "count"
  BY DEF Finish, parserVars, reportVars
<1>2. found # {} \/ opt.mode = "rand"
  BY DEF Finish
<1>3. ~EmptyName /\ ~ShiftFails
      /\ (opt.mode = "rand" => literals["seed"] # <<>>)
      /\ (opt.mode = "unguided" => literals["output"] # <<>> /\ ~request.list /\ ~request.statistic)
  BY <1>1 DEF Begun
<1>4. found # {} => Models # {} /\ (opt.mode \in StatModes => literals["output"] # <<>>)
  BY DEF Counted
<1>5. ~Cause
  BY <1>2, <1>3, <1>4 DEF Cause, EmptyName, StatModes
<1>6. QED
  BY <1>1, <1>5, CauseStays

(* Every step that ends a run has a cause or comes from the report.        *)
LEMMA DefinedNext ==
    ASSUME Parsed, Picked, Counted, Begun, WellFormedRunsAreDefined, [Next]_vars
    PROVE  WellFormedRunsAreDefined'
<1> USE DEF parserVars, cliVars, reportVars
<1>1. CASE UNCHANGED vars
  <2>1. UNCHANGED <<pc, request, opt, literals, clauses, nVars>>
    BY <1>1 DEF vars
  <2>2. QED
    BY <2>1, CauseStays DEF WellFormedRunsAreDefined
<1>2. CASE Next
  <2>1. ASSUME pc' = "done" PROVE ~Cause'
    <3>1. CASE Finish
      BY <2>1, <3>1, FinishedWithoutCause
    <3>2. CASE Terminated
      <4>1. UNCHANGED <<pc, request, opt, literals, clauses, nVars>>
        BY <3>2 DEF Terminated, vars
      <4>2. QED
        BY <2>1, <4>1, CauseStays DEF WellFormedRunsAreDefined
    <3>3. CASE CommandLineNext \/ ParserNext
      <4>1. pc' # "done"
        BY <3>3 DEF CommandLineNext, Store, Help, Notify, ParserNext, Open, ReadSkipped, ReadClause,
                    ReadRemembered, ReadComment, sort_variables, Reading
      <4>2. QED
        BY <2>1, <4>1
    <3>4. CASE Activate \/ Count \/ StatPoint
      <4>1. pc' # "done"
        BY <3>4 DEF Activate, Begin, Count, StatPoint
      <4>2. QED
        BY <2>1, <4>1
    <3>5. QED
      BY <1>2, <3>1, <3>2, <3>3, <3>4 DEF Next
  <2>2. pc' \in {"undefined", "uncaught", "sigfpe"} =>
            ~WellFormed' \/ request'.optimised \/ Cause'
    BY <1>2, FailsWithCause
  <2>3. QED
    BY <2>1, <2>2 DEF WellFormedRunsAreDefined
<1>3. QED
  BY <1>1, <1>2

-----------------------------------------------------------------------------
(* The invariant and what follows from it *)

(* Nothing is parsed, counted or reported at the start.                    *)
LEMMA IInvInit == Init => IInv
<1> SUFFICES ASSUME Init PROVE IInv
  OBVIOUS
<1>1. /\ request \in Requests /\ pc = "store" /\ at = 0 /\ max_var = 0
      /\ clauses = <<>> /\ variables = <<>> /\ collected = Nothing /\ literals = Nothing
      /\ nVars = 0 /\ model = <<>> /\ found = {}
      /\ columns = <<>> /\ rows = <<>> /\ inputs = Unknown /\ lines = <<>>
  BY DEF Init, CommandLineInit, ParserInit
<1>2. ~Opened /\ ~Counting
  BY <1>1 DEF Opened, Counting
<1>3. Parsed
  <2>1. ReadLines = {} /\ ClausesOf({}) = {}
    BY <1>1 DEF ReadLines, ClausesOf
  <2>2. DOMAIN clauses = {} /\ clauses \in Seq(Seq(Int))
    BY <1>1
  <2>3. {Range(clauses[i]) : i \in DOMAIN clauses} = {}
    BY <2>2
  <2>4. ClausesOf(ReadLines) = {}
    BY <2>1
  <2>5. \A i \in DOMAIN clauses : \A n \in Range(clauses[i]) : abs(n) \in 1 .. max_var
    BY <2>2
  <2>6. QED
    BY <1>1, <1>2, <2>2, <2>3, <2>4, <2>5 DEF Parsed
<1>4. Picked
  <2>1. collected \in [Roles -> Seq(Extracted)] /\ variables \in Seq(Extracted)
    BY <1>1 DEF Nothing
  <2>2. \A r \in Roles : collected[r] = <<>>
    BY <1>1 DEF Nothing
  <2>3. \A r \in Roles : LiteralsOf(collected[r]) = <<>>
    BY <2>2, NoLiterals
  <2>4. [r \in Roles |-> LiteralsOf(collected[r])] = Nothing
    BY <2>3 DEF Nothing
  <2>5. QED
    BY <1>1, <2>1, <2>4 DEF Picked
<1>5. Counted
  <2>1. found \in SUBSET Models /\ IsFiniteSet(found)
    BY <1>1, FS_EmptySet
  <2>2. QED
    BY <1>1, <1>2, <2>1 DEF Counted, reportVars
<1>6. Reported
  <2>1. Cardinality(found) = 0 /\ Len(rows) = 0
    BY <1>1, FS_EmptySet
  <2>2. rows \in Seq([DOMAIN columns -> BOOLEAN])
    BY <1>1
  <2>3. QED
    BY <1>1, <2>1, <2>2 DEF Reported
<1>7. QED
  BY <1>1, <1>3, <1>4, <1>5, <1>6 DEF IInv, Begun, WellFormedRunsAreDefined

(* The invariant is inductive.                                             *)
LEMMA IInvNext == IInv /\ [Next]_vars => IInv'
  BY ParsedNext, PickedNext, CountedNext, ReportedNext, BegunNext, DefinedNext DEF IInv

(* The invariant holds in every run of the program.                        *)
THEOREM FrontendInvariant == Spec => []IInv
  BY IInvInit, IInvNext, PTL DEF Spec

(* The parser, the solver and the counter keep their types.                *)
THEOREM FrontendTypes == Spec => []FrontTypeOK
<1>1. IInv => FrontTypeOK
  <2> SUFFICES ASSUME IInv PROVE FrontTypeOK
    OBVIOUS
  <2>1. ASSUME NEW i \in DOMAIN variables
        PROVE  Range(variables[i].literals) \subseteq 1 .. twoTo[UintBits] - 2
    <3>1. variables \in Seq(Extracted) /\ (variables # <<>> => request.file # Absent)
      BY DEF IInv, Picked
    <3>2. request \in Requests /\ request.file # Absent
      BY <2>1, <3>1 DEF IInv, Parsed
    <3>3. variables[i] \in Extracted
      BY <2>1, <3>1
    <3>4. variables[i].literals \in Seq(1 .. AllOnes - 1)
      BY <3>2, <3>3, ExtractedAreVariables DEF IsVariable
    <3>5. Range(variables[i].literals) \subseteq 1 .. AllOnes - 1
      BY <3>4, SequenceIsFinite
    <3>6. AllOnes - 1 = twoTo[UintBits] - 2
      BY Widths
    <3>7. QED
      BY <3>5, <3>6
  <2>2. inputs \in Nat \cup {Unknown}
    BY DEF IInv, Reported
  <2>3. QED
    BY <2>1, <2>2 DEF IInv, Parsed, Counted, Reported, FrontTypeOK
<1>2. QED
  BY <1>1, FrontendInvariant, PTL

(* A run on a well-formed file fails for one of the named causes, and no   *)
(* run with one of them comes past its report.                             *)
THEOREM RunsOnWellFormedFiles == Spec => []WellFormedRunsAreDefined
<1>1. IInv => WellFormedRunsAreDefined
  BY DEF IInv
<1>2. QED
  BY <1>1, FrontendInvariant, PTL

(* The solver gets the clauses of the file.                                *)
THEOREM SolverGetsTheFile == Spec => []ClausesMeanTheFile
<1>1. IInv => ClausesMeanTheFile
  <2> DEFINE C == {l \in FileLines : l.kind = "clause"}
             regular(l) == /\ l.nums # <<>>
                           /\ \A i \in DOMAIN l.nums : l.nums[i] = 0 => i = Len(l.nums)
  <2> SUFFICES ASSUME IInv, pc \in {"activate", "count", "sharp", "sigfpe", "done"}, \A l \in C : regular(l),
                      request.file # Absent
               PROVE  {Range(clauses[i]) : i \in DOMAIN clauses} = {Range(l.nums) \ {0} : l \in C}
    BY DEF ClausesMeanTheFile
  <2>1. Parsed /\ request \in Requests /\ at = Len(request.file.lines)
    BY DEF IInv, Parsed, Counting
  <2>2. {Range(clauses[i]) : i \in DOMAIN clauses} = ClausesOf(FileLines)
    BY <2>1, AllRead
  <2>3. ASSUME NEW l \in C PROVE Range(handle_clause(l.nums, l.blank)) = Range(l.nums) \ {0}
    <3>1. l.nums \in Seq(Int)
      BY <2>1, NumsAre
    <3>2. \A i \in DOMAIN l.nums : l.nums[i] = 0 => i = Len(l.nums)
      OBVIOUS
    <3> HIDE DEF C, regular
    <3>3. QED
      BY <3>1, <3>2, HandleClauseIs
  <2>4. ClausesOf(FileLines) = {Range(handle_clause(l.nums, l.blank)) : l \in C}
    BY DEF ClausesOf
  <2> HIDE DEF C, regular
  <2>5. QED
    BY <2>2, <2>3, <2>4
<1>2. QED
  BY <1>1, FrontendInvariant, PTL

-----------------------------------------------------------------------------
(* Buckets and values *)

(* Vectors that fit the word have the same value when they have the same   *)
(* bits.                                                                   *)
LEMMA SameWord ==
    ASSUME NEW V, NEW m \in [V -> BOOLEAN], NEW l \in [V -> BOOLEAN], NEW lits \in Seq(V),
           Len(lits) <= WordBits
    PROVE  interpret(m, lits) % twoTo[WordBits] = interpret(l, lits) % twoTo[WordBits]
               <=> \A k \in DOMAIN lits : m[lits[k]] = l[lits[k]]
<1>1. PICK n \in Nat : n = Len(lits) /\ DOMAIN lits = 1 .. n
  OBVIOUS
<1>2. PICK x \in Nat : x = interpret(m, lits) /\ x < twoTo[n]
  BY <1>1, InterpretRange
<1>3. PICK y \in Nat : y = interpret(l, lits) /\ y < twoTo[n]
  BY <1>1, InterpretRange
<1>4. twoTo[n] <= twoTo[WordBits] /\ twoTo[n] \in Nat /\ twoTo[WordBits] \in Nat
  BY <1>1, WordAssumption, PowersGrow, PowerPositive
<1>5. x < twoTo[WordBits] /\ y < twoTo[WordBits]
  BY <1>2, <1>3, <1>4
<1>6. x % twoTo[WordBits] = x /\ y % twoTo[WordBits] = y
  BY <1>5, WordIs
<1>7. x = y <=> \A k \in 1 .. n : m[lits[k]] = l[lits[k]]
  BY <1>1, <1>2, <1>3, InterpretInjective, InterpretSame
<1>8. QED
  BY <1>1, <1>2, <1>3, <1>6, <1>7

(* The bits of a program variable in a model, by their positions.          *)
BitsOf(m, positions) ==
    [p \in Range(positions) |-> p # 0 /\ (p = AllOnes \/ m[Var(p)])]

(* A variable's value is that of its bits, which are constants or literals *)
(* of the model.                                                           *)
LEMMA ValueIs ==
    ASSUME NEW v, v.positions \in Seq(0 .. AllOnes), NEW m,
           \A p \in Range(v.positions) \ {0, AllOnes} : m[Var(p)] \in BOOLEAN
    PROVE  /\ BitsOf(m, v.positions) \in [Range(v.positions) -> BOOLEAN]
           /\ v.positions \in Seq(Range(v.positions))
           /\ DOMAIN v.positions = 1 .. Len(v.positions)
           /\ Value(m, v) = interpret(BitsOf(m, v.positions), v.positions) % twoTo[WordBits]
<1> DEFINE P == v.positions
           T == 0 .. AllOnes
<1>1. P \in Seq(T)
  OBVIOUS
<1>2. P \in Seq(Range(P)) /\ DOMAIN P = 1 .. Len(P)
  <2> HIDE DEF P, T
  <2>1. P = [i \in 1 .. Len(P) |-> P[i]] /\ Len(P) \in Nat /\ DOMAIN P = 1 .. Len(P)
    BY <1>1
  <2>2. \A i \in 1 .. Len(P) : P[i] \in Range(P)
    BY <2>1 DEF Range
  <2>3. QED
    BY <2>1, <2>2
<1>3. ASSUME NEW p \in Range(P) PROVE (p # 0 /\ (p = AllOnes \/ m[Var(p)])) \in BOOLEAN
  BY <1>3
<1>4. BitsOf(m, P) \in [Range(P) -> BOOLEAN]
  BY <1>3, Zenon DEF BitsOf
<1>5. Value(m, v) = interpret(BitsOf(m, P), P) % twoTo[WordBits]
  BY Zenon DEF Value, interpret_positions, BitsOf
<1>6. QED
  BY <1>2, <1>4, <1>5

(* The selected literals are variables of a model.                         *)
LEMMA SelectedAreModelled ==
    ASSUME Parsed, Picked, request.file # Absent, nVars \in Nat,
           NEW r \in Roles, Range(Vars(r)) \subseteq 0 .. nVars - 1,
           NEW m \in Models, NEW p \in Range(literals[r])
    PROVE  Var(p) \in 0 .. nVars - 1 /\ m[Var(p)] \in BOOLEAN
<1>1. PICK i \in DOMAIN literals[r] : p = literals[r][i]
  BY DEF Range
<1>2. Var(p) \in Range(Vars(r))
  BY <1>1 DEF Vars, Range
<1>3. Var(p) \in 0 .. nVars - 1
  BY <1>2
<1>4. QED
  BY <1>3, ModelsAre

(* The bucket of a model tells the values of the output variables.         *)
LEMMA BucketTells ==
    ASSUME Parsed, Picked, request.file # Absent, nVars \in Nat,
           Range(Vars("output")) \subseteq 0 .. nVars - 1,
           Len(literals["output"]) < WordBits,
           \A v \in Range(collected["output"]) : Len(v.positions) <= WordBits,
           NEW m \in Models, NEW n \in Models
    PROVE  (interpret_vars(m, Vars("output")) = interpret_vars(n, Vars("output"))) <=>
               \A i \in DOMAIN collected["output"] :
                   Value(m, collected["output"][i]) = Value(n, collected["output"][i])
<1> DEFINE L == literals["output"]
           vs == Vars("output")
           V == 0 .. nVars - 1
           C == collected["output"]
           Agree(S) == \A p \in S : m[Var(p)] = n[Var(p)]
<1>1. "output" \in Roles
  BY DEF Roles
<1>2. vs \in Seq(V) /\ Len(vs) = Len(L) /\ DOMAIN vs = DOMAIN L
  BY <1>1, VarsAre DEF Vars
<1>3. m \in [V -> BOOLEAN] /\ n \in [V -> BOOLEAN]
  BY ModelsAre
<1>4. L \in Seq(1 .. AllOnes - 1) /\ Len(L) \in Nat
  BY <1>1, LiteralsTyped
<1>5. interpret_vars(m, vs) = interpret_vars(n, vs) <=> \A k \in DOMAIN vs : m[vs[k]] = n[vs[k]]
  <2>1. Len(vs) <= WordBits
    BY <1>2, <1>4, WordAssumption
  <2> HIDE DEF V, vs
  <2>2. QED
    BY <1>2, <1>3, <2>1, SameWord DEF interpret_vars
<1>6. (\A k \in DOMAIN vs : m[vs[k]] = n[vs[k]]) <=> Agree(Range(L))
  <2>1. \A k \in DOMAIN L : vs[k] = Var(L[k])
    BY DEF Vars
  <2>2. Range(L) = {L[k] : k \in DOMAIN L}
    BY DEF Range
  <2> HIDE DEF vs, L
  <2>3. QED
    BY <1>2, <2>1, <2>2
<1>7. Range(L) = UNION {Range(C[i].literals) : i \in DOMAIN C}
  BY <1>1, LiteralsTyped
<1>8. Agree(Range(L)) <=> \A i \in DOMAIN C : Agree(Range(C[i].literals))
  <2> HIDE DEF L, C
  <2>1. QED
    BY <1>7
<1>9. ASSUME NEW i \in DOMAIN C
      PROVE  Agree(Range(C[i].literals)) <=> Value(m, C[i]) = Value(n, C[i])
  <2>1. IsVariable(C[i])
    <3>1. C \in Seq(Extracted)
      BY <1>1 DEF Picked
    <3>2. C[i] \in Extracted
      <4> HIDE DEF C
      <4>1. QED
        BY <3>1, <1>9
    <3>3. QED
      BY <3>2, LiteralsTyped
  <2> DEFINE P == C[i].positions
             R == Range(C[i].literals)
  <2>2. P \in Seq(0 .. AllOnes) /\ R = Range(P) \ {0, AllOnes}
    BY <2>1 DEF IsVariable
  <2>3. Len(P) <= WordBits
    <3>1. C[i] \in Range(C)
      BY <1>9 DEF Range
    <3>2. QED
      BY <3>1
  <2>4. \A p \in R : m[Var(p)] \in BOOLEAN /\ n[Var(p)] \in BOOLEAN
    <3>1. R \subseteq Range(L)
      BY <1>7, <1>9
    <3>2. QED
      BY <1>1, <3>1, SelectedAreModelled
  <2>5. /\ BitsOf(m, P) \in [Range(P) -> BOOLEAN]
        /\ P \in Seq(Range(P)) /\ DOMAIN P = 1 .. Len(P)
        /\ Value(m, C[i]) = interpret(BitsOf(m, P), P) % twoTo[WordBits]
    BY <2>2, <2>4, ValueIs
  <2>6. /\ BitsOf(n, P) \in [Range(P) -> BOOLEAN]
        /\ Value(n, C[i]) = interpret(BitsOf(n, P), P) % twoTo[WordBits]
    BY <2>2, <2>4, ValueIs
  <2>7. Value(m, C[i]) = Value(n, C[i])
            <=> \A k \in DOMAIN P : BitsOf(m, P)[P[k]] = BitsOf(n, P)[P[k]]
    <3> DEFINE W == Range(P)
    <3> HIDE DEF P, W
    <3>1. PICK a \in [W -> BOOLEAN] : a = BitsOf(m, P)
      BY <2>5 DEF W
    <3>2. PICK c \in [W -> BOOLEAN] : c = BitsOf(n, P)
      BY <2>6 DEF W
    <3>3. P \in Seq(W)
      BY <2>5 DEF W
    <3>4. interpret(a, P) % twoTo[WordBits] = interpret(c, P) % twoTo[WordBits]
              <=> \A k \in DOMAIN P : a[P[k]] = c[P[k]]
      BY <2>3, <3>3, SameWord
    <3>5. QED
      BY <2>5, <2>6, <3>1, <3>2, <3>4, Zenon
  <2>8. (\A k \in DOMAIN P : BitsOf(m, P)[P[k]] = BitsOf(n, P)[P[k]])
            <=> \A p \in Range(P) : BitsOf(m, P)[p] = BitsOf(n, P)[p]
    <3>1. Range(P) = {P[k] : k \in DOMAIN P}
      BY DEF Range
    <3> HIDE DEF P
    <3>2. QED
      BY <3>1
  <2>9. ASSUME NEW p \in Range(P), p \notin R PROVE BitsOf(m, P)[p] = BitsOf(n, P)[p]
    <3>1. p = 0 \/ p = AllOnes
      BY <2>2, <2>9
    <3>2. AllOnes # 0
      BY Widths
    <3>3. QED
      BY <3>1, <3>2 DEF BitsOf
  <2>10. ASSUME NEW p \in R PROVE BitsOf(m, P)[p] = BitsOf(n, P)[p] <=> m[Var(p)] = n[Var(p)]
    <3>1. p \in Range(P) /\ p # 0 /\ p # AllOnes
      BY <2>2
    <3>2. BitsOf(m, P)[p] = m[Var(p)] /\ BitsOf(n, P)[p] = n[Var(p)]
      <4>1. m[Var(p)] \in BOOLEAN /\ n[Var(p)] \in BOOLEAN
        BY <2>4
      <4> HIDE DEF P, R
      <4>2. QED
        BY <3>1, <4>1 DEF BitsOf
    <3>3. QED
      BY <3>2
  <2>11. R \subseteq Range(P)
    BY <2>2
  <2> HIDE DEF P, R, C
  <2>12. (\A p \in Range(P) : BitsOf(m, P)[p] = BitsOf(n, P)[p]) <=> Agree(R)
    BY <2>9, <2>10, <2>11
  <2>13. QED
    BY <2>7, <2>8, <2>12 DEF R
<1> HIDE DEF L, C, vs, Agree
<1>10. QED
  BY <1>5, <1>6, <1>8, <1>9 DEF vs, C

(* Two models fall into the same bucket of the table exactly when all      *)
(* selected output variables have the same values in them.                 *)
THEOREM BucketsAreOutputs == Spec => []BucketIsTheOutput
<1>1. IInv => BucketIsTheOutput
  <2> SUFFICES ASSUME IInv, pc = "count", found # {}, Len(literals["output"]) < WordBits,
                      \A v \in Range(collected["output"]) : Len(v.positions) <= WordBits,
                      NEW m \in Models, NEW n \in Models
               PROVE  /\ (interpret_vars(m, Vars("output")) = interpret_vars(n, Vars("output"))) <=>
                            \A i \in DOMAIN collected["output"] :
                                Value(m, collected["output"][i]) = Value(n, collected["output"][i])
                      /\ literals["output"] # <<>> =>
                            interpret_vars(m, Vars("output")) < space_size(Len(literals["output"]))
    BY DEF BucketIsTheOutput
  <2>1. Parsed /\ Picked /\ request.file # Absent /\ nVars = max_var + 1 /\ max_var \in Nat
    BY DEF IInv, Parsed, Counted, Opened, Counting
  <2>2. Range(Vars("output")) \subseteq 0 .. nVars - 1 /\ nVars \in Nat
    BY <2>1 DEF IInv, Counted, Read
  <2>3. ASSUME literals["output"] # <<>>
        PROVE  interpret_vars(m, Vars("output")) < space_size(Len(literals["output"]))
    <3>1. literals["output"] \in Seq(1 .. AllOnes - 1)
      BY <2>1, LiteralsTyped DEF Roles
    <3>2. PICK k \in Nat : k = Len(literals["output"])
      BY <3>1
    <3>3. k # 0
      BY <2>3, <3>1, <3>2
    <3>4. space_size(k) = twoTo[k] /\ twoTo[k] \in Nat
      BY <3>3, PowerPositive DEF space_size
    <3>5. interpret_vars(m, Vars("output")) \in 0 .. space_size(k) - 1
      BY <2>1, <2>2, <2>3, <3>2, BucketExists
    <3>6. QED
      BY <3>2, <3>4, <3>5
  <2>4. QED
    BY <2>1, <2>2, <2>3, BucketTells
<1>2. QED
  BY <1>1, FrontendInvariant, PTL

(* The verbose output shows the value of the program variable.             *)
THEOREM VerboseValues == Spec => []VerboseValueIsTrue
<1>1. IInv => VerboseValueIsTrue
  <2> SUFFICES ASSUME IInv, pc = "count", found # {}, WellFormed, NEW l \in VariableLines
               PROVE  Value(model, extractLine(l)) =
                          SumOfTwos({j \in DOMAIN l.bits :
                              \/ l.bits[j].k = "TRUE"
                              \/ l.bits[j].k = "lit" /\ model[l.bits[j].n - 1]}) % twoTo[WordBits]
    BY Zenon DEF VerboseValueIsTrue, SumOfTwos
  <2>1. /\ Parsed /\ request \in Requests /\ request.file # Absent /\ nVars = max_var + 1
        /\ max_var \in Nat /\ at = Len(request.file.lines)
    BY DEF IInv, Parsed, Counted, Opened, Counting
  <2>2. model \in Models
    BY DEF IInv, Counted
  <2>3. ~Unreadable(l) /\ \A i \in DOMAIN l.bits :
            l.bits[i].k = "lit" =>
                /\ l.bits[i].n \in 1 .. max_var
                /\ parseLiteral(l.bits[i]) = l.bits[i].n
                /\ l.bits[i].n # AllOnes /\ Var(l.bits[i].n) = l.bits[i].n - 1
    BY <2>1, AllRead, WellFormedLiterals
  <2>4. /\ extractLine(l).positions = [i \in DOMAIN l.bits |-> parseLiteral(l.bits[i])]
        /\ extractLine(l).positions \in Seq(0 .. AllOnes)
        /\ IsVariable(extractLine(l))
    BY <2>1, <2>3, ExtractedAre
  <2> DEFINE v == extractLine(l)
             P == v.positions
             b == BitsOf(model, P)
             on(j) == \/ l.bits[j].k = "TRUE"
                      \/ l.bits[j].k = "lit" /\ model[l.bits[j].n - 1]
  <2>5. AllOnes \in Nat /\ AllOnes # 0
    BY Widths
  <2>6. DOMAIN model = 0 .. max_var /\ \A x \in 0 .. max_var : model[x] \in BOOLEAN
    <3>1. model \in [0 .. nVars - 1 -> BOOLEAN] /\ nVars - 1 = max_var
      BY <2>1, <2>2, ModelsAre
    <3>2. QED
      BY <3>1
  <2>7. ASSUME NEW j \in DOMAIN l.bits
        PROVE  \/ /\ l.bits[j].k = "lit" /\ P[j] = l.bits[j].n /\ P[j] \in 1 .. max_var
                  /\ P[j] # AllOnes /\ Var(P[j]) = l.bits[j].n - 1
                  /\ model[Var(P[j])] \in BOOLEAN
               \/ l.bits[j].k = "TRUE" /\ P[j] = AllOnes
               \/ l.bits[j].k = "FALSE" /\ P[j] = 0
    <3>1. P[j] = parseLiteral(l.bits[j])
      BY <2>4
    <3>2. l.bits[j].k \in {"lit", "FALSE", "TRUE"}
      <4>1. l.bits[j].k \in {"lit", "FALSE", "TRUE", "bad"}
        BY <2>1, BitsAre
      <4>2. l.bits[j].k # "bad"
        BY <2>3 DEF Unreadable
      <4>3. QED
        BY <4>1, <4>2
    <3>3. CASE l.bits[j].k = "lit"
      <4>1. /\ l.bits[j].n \in 1 .. max_var /\ P[j] = l.bits[j].n
            /\ P[j] # AllOnes /\ Var(P[j]) = l.bits[j].n - 1
        BY <2>3, <3>1, <3>3
      <4>2. l.bits[j].n - 1 \in 0 .. max_var
        BY <2>1, <4>1
      <4>3. QED
        BY <2>6, <3>3, <4>1, <4>2
    <3>4. CASE l.bits[j].k = "TRUE"
      BY <3>1, <3>4 DEF parseLiteral
    <3>5. CASE l.bits[j].k = "FALSE"
      BY <3>1, <3>5 DEF parseLiteral
    <3>6. QED
      BY <3>2, <3>3, <3>4, <3>5
  <2>8. DOMAIN P = DOMAIN l.bits
    BY <2>4
  <2>9. \A p \in Range(P) \ {0, AllOnes} : model[Var(p)] \in BOOLEAN
    <3> SUFFICES ASSUME NEW p \in Range(P), p # 0, p # AllOnes PROVE model[Var(p)] \in BOOLEAN
      OBVIOUS
    <3>1. PICK j \in DOMAIN l.bits : p = P[j]
      BY <2>8 DEF Range
    <3>2. QED
      BY <2>7, <3>1
  <2>10. /\ b \in [Range(P) -> BOOLEAN] /\ P \in Seq(Range(P))
         /\ Value(model, v) = interpret(b, P) % twoTo[WordBits]
    BY <2>4, <2>9, ValueIs
  <2>11. ASSUME NEW j \in DOMAIN l.bits PROVE b[P[j]] <=> on(j)
    <3>1. P[j] \in Range(P)
      BY <2>8 DEF Range
    <3>2. b[P[j]] <=> (P[j] # 0 /\ (P[j] = AllOnes \/ model[Var(P[j])]))
      <4> HIDE DEF P, on
      <4>1. QED
        BY <3>1 DEF BitsOf
    <3> HIDE DEF P, b
    <3>3. QED
      BY <2>5, <2>7, <3>2
  <2>12. interpret(b, P) = SumOfTwos({j \in DOMAIN P : b[P[j]]})
    <3> HIDE DEF P, b
    <3>1. QED
      BY <2>10, InterpretIsSum
  <2>13. {j \in DOMAIN P : b[P[j]]} = {j \in DOMAIN l.bits : on(j)}
    <3> HIDE DEF P, b, on
    <3>1. QED
      BY <2>8, <2>11
  <2>14. QED
    BY <2>10, <2>12, <2>13, Zenon
<1>2. QED
  BY <1>1, FrontendInvariant, PTL

=============================================================================
