------------------------------- MODULE Parser -------------------------------
(***************************************************************************)
(* DimacsParser and CbmcDimacsParser: the CNF and the program's variables, *)
(* read line by line, and the selection of the literals of the inputs,     *)
(* outputs and seeds by name.                                              *)
(*                                                                         *)
(* A line is a record with its kind, decided by its first characters and,  *)
(* for comments, by the two regular expressions:                           *)
(*   empty, header (p ...), clause, cr: nums, the numbers up to the first  *)
(*     thing that is none, and blank: white space follows the last number; *)
(*   var (c name ... literals) and bool (c literal name ...): name, time   *)
(*     and bits, tokens [k, n] with k one of lit, FALSE, TRUE and bad (no  *)
(*     number for stoi);                                                   *)
(*   comment: any other.                                                   *)
(***************************************************************************)
EXTENDS CommandLine, SequencesExt, Order, Entropy

CONSTANTS
    UintBits,   \* bound: the width of int and unsigned int
    BigTime     \* the number above all times that @name starts from

VARIABLES
    at,         \* lines read
    clauses, cr, variables, max_var,
    collected,  \* role -> sequence of CBMC variables
    literals    \* role -> ivar, ovar, svar

parserVars == <<at, clauses, cr, variables, max_var, collected, literals>>

ASSUME UintAssumption == UintBits \in Nat \ {0}

ASSUME BigTimeAssumption == BigTime \in Nat

(* The values of int, and what >> and stoi can leave in a line: a literal  *)
(* whose absolute value is an int, and any number of a program variable;   *)
(* the time has no sign.                                                   *)
Ints == -twoTo[UintBits - 1] .. twoTo[UintBits - 1] - 1
IsLine(l) ==
    /\ l.kind \in {"empty", "header", "clause", "cr", "var", "bool", "comment"}
    /\ l.kind \in {"clause", "cr"} =>
          l.nums \in Seq(Ints \ {-twoTo[UintBits - 1]}) /\ l.blank \in BOOLEAN
    /\ l.kind \in {"var", "bool"} =>
          /\ l.bits \in Seq([k : {"lit", "FALSE", "TRUE", "bad"}, n : Ints])
          /\ l.time \in (0 .. twoTo[UintBits - 1] - 1) \cup {Absent}

Roles == {"input", "output", "seed"}
Nothing == [r \in Roles |-> <<>>]

-----------------------------------------------------------------------------
(* Lines of numbers *)

(* Mutant of handle_clause: 0 does not end the clause. *)
all_numbers(nums, blank) == nums

(* Up to the first 0. Without one, white space at the end of the line is   *)
(* read as a number: in >> x fails before it touches x, and the last       *)
(* literal is pushed twice; when there was no number, x is still 0.        *)
handle_clause(nums, blank) ==
    LET zeros == {i \in DOMAIN nums : nums[i] = 0}
    IN  IF zeros # {} THEN SubSeq(nums, 1, Min(zeros) - 1)
        ELSE IF blank /\ nums # <<>> THEN Append(nums, Last(nums)) ELSE nums

abs(n) == IF n < 0 THEN -n ELSE n

LargestOf(nums) == Max({max_var} \cup {abs(n) : n \in Range(nums)})

-----------------------------------------------------------------------------
(* Program variables *)

uint(n) == IF n < 0 THEN n + twoTo[UintBits] ELSE n
AllOnes == uint(-1)

(* Mutant of parseLiteral: TRUE is the number 1. *)
parseTrueAsOne(t) == CASE t.k = "FALSE" -> 0 [] t.k = "TRUE" -> 1 [] OTHER -> uint(t.n)

(* FALSE is 0 and TRUE is -1, as a literal of that number would be. *)
parseLiteral(t) == CASE t.k = "FALSE" -> 0 [] t.k = "TRUE" -> AllOnes [] OTHER -> uint(t.n)

(* Mutant of get_literals: literal 1 is taken for a constant. *)
literals_above_one(positions) == Sorted(Range(positions) \ {0, 1, AllOnes})

(* A std::set: the literals in the order of their numbers, not of the bits.*)
get_literals(positions) == Sorted(Range(positions) \ {0, AllOnes})

extractLine(line) ==
    LET positions == [i \in DOMAIN line.bits |-> parseLiteral(line.bits[i])]
    IN  [name |-> line.name, time |-> line.time, positions |-> positions,
         literals |-> get_literals(positions)]

Unreadable(line) ==
    line.time = Absent \/ \E i \in DOMAIN line.bits : line.bits[i].k = "bad"

collectLastUpdate(name) ==
    LET S == {i \in DOMAIN variables : variables[i].name = name}
        last == CHOOSE i \in S : \A j \in S :
                    variables[j].time < variables[i].time
                    \/ (variables[j].time = variables[i].time /\ i <= j)
    IN  IF S = {} THEN <<>> ELSE <<variables[last]>>

(* All updates but those of the smallest time, and these too if they are   *)
(* later than BigTime.                                                     *)
collectAllUpdates(name) ==
    LET S == {i \in DOMAIN variables : variables[i].name = name}
        first == Min({BigTime} \cup {variables[i].time : i \in S})
    IN  Kept(variables, {i \in S : variables[i].time # first})

collectVariables(names) ==
    FlattenSeq([i \in DOMAIN names |->
        IF names[i].all THEN collectAllUpdates(names[i].name)
                        ELSE collectLastUpdate(names[i].name)])

LiteralsOf(vars) == FlattenSeq([i \in DOMAIN vars |-> vars[i].literals])

-----------------------------------------------------------------------------
Line == request.file.lines[at + 1]

Reading(kinds) ==
    /\ pc = "read" /\ at < Len(request.file.lines) /\ Line.kind \in kinds
    /\ at' = at + 1
    /\ UNCHANGED <<request, opt, collected, literals>>

(* ifstream, or err(1, ...) *)
Open ==
    /\ pc = "open"
    /\ pc' = IF request.file.exists THEN "read" ELSE "exit1"
    /\ UNCHANGED <<request, opt, parserVars>>

(* The header's number of variables is not looked at. *)
ReadSkipped ==
    /\ Reading({"empty", "header"})
    /\ UNCHANGED <<pc, clauses, cr, variables, max_var>>

ReadClause ==
    /\ Reading({"clause"})
    /\ LET clause == handle_clause(Line.nums, Line.blank)
       IN  clauses' = Append(clauses, clause) /\ max_var' = LargestOf(clause)
    /\ UNCHANGED <<pc, cr, variables>>

ReadRemembered ==
    /\ Reading({"cr"})
    /\ LET nums == handle_clause(Line.nums, Line.blank)
       IN  /\ cr' = cr \o [i \in DOMAIN nums |-> abs(nums[i])]
           /\ max_var' = LargestOf(nums)
    /\ UNCHANGED <<pc, clauses, variables>>

(* handle_comment ends without a value: an optimising build may do         *)
(* anything then. stoi throws at what is no number.                        *)
ReadComment ==
    /\ Reading({"var", "bool", "comment"})
    /\ LET bad == Line.kind # "comment" /\ Unreadable(Line)
       IN  /\ pc' \in IF bad THEN {"uncaught"}
                      ELSE {"read"} \cup IF request.optimised THEN {"undefined"} ELSE {}
           /\ variables' = IF bad \/ Line.kind = "comment" THEN variables
                           ELSE Append(variables, extractLine(Line))
    /\ UNCHANGED <<clauses, cr, max_var>>

(* name.at(0) of an empty name throws. *)
sort_variables ==
    /\ pc = "read" /\ at = Len(request.file.lines)
    /\ IF \E r \in Roles : \E i \in DOMAIN request.names[r] : request.names[r][i].name = ""
       THEN pc' = "uncaught" /\ UNCHANGED <<collected, literals>>
       ELSE /\ pc' = "activate"
            /\ collected' = [r \in Roles |-> collectVariables(request.names[r])]
            /\ literals' = [r \in Roles |-> LiteralsOf(collected'[r])]
    /\ UNCHANGED <<request, opt, at, clauses, cr, variables, max_var>>

ParserInit ==
    /\ at = 0 /\ max_var = 0
    /\ clauses = <<>> /\ cr = <<>> /\ variables = <<>>
    /\ collected = Nothing /\ literals = Nothing

ParserNext ==
    Open \/ ReadSkipped \/ ReadClause \/ ReadRemembered \/ ReadComment \/ sort_variables

=============================================================================
