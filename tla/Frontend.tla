------------------------------ MODULE Frontend ------------------------------
(***************************************************************************)
(* What happens around the counting: the parser's result becomes the       *)
(* solver's clauses and the counter's literals (run in main.cpp), the      *)
(* models are interpreted, and every preimage is written to the pair list  *)
(* (--list) and to the statistic (--statistic). The counting itself is     *)
(* reduced to what all its modes do until no model is left: they find a    *)
(* model with a new projection, in any order (see PICounter and RandMode). *)
(* No tolerance is given here, and nobody asks the run to stop.            *)
(***************************************************************************)
EXTENDS Parser, BitVectors

CONSTANTS
    WordBits    \* bound: the width of uint64_t

VARIABLES
    nVars,      \* solver->nVars()
    model,      \* the solver's model array
    found,      \* models counted, one per projection
    columns,    \* literals of the header of the pair list
    rows,       \* of the pair list
    inputs,     \* Statistic::number_of_inputs
    lines       \* of the statistic file: the total used and the total written

reportVars == <<nVars, model, found, columns, rows, inputs, lines>>
vars == <<cliVars, parserVars, reportVars>>

Unknown == -1       \* a number that was never assigned

(* What the program is given.                                              *)
IsRequest(r) ==
    /\ DOMAIN r = {"help", "unknown", "mode", "tool", "command", "indicator",
                   "file", "names", "list", "statistic", "verbose", "optimised"}
    /\ DOMAIN r.names = Roles
    /\ \A role \in Roles : r.names[role] \in Seq([all : BOOLEAN, name : STRING])
    /\ r.file # Absent =>
          /\ r.file.exists \in BOOLEAN
          /\ r.file.lines \in Seq({l \in Range(r.file.lines) : IsLine(l)})
    /\ {r.help, r.unknown, r.list, r.statistic, r.verbose, r.optimised} \subseteq BOOLEAN

ASSUME RequestsAssumption == \A r \in Requests : IsRequest(r)

ASSUME WordAssumption == WordBits \in Nat

-----------------------------------------------------------------------------
(* set_input_literals and its like: i - 1, stored in an int *)
Var(i) ==
    IF i - 1 >= twoTo[UintBits - 1] THEN i - 1 - twoTo[UintBits] ELSE i - 1
Vars(role) == [i \in DOMAIN literals[role] |-> Var(literals[role][i])]

IsTrueIn(m, lit) == IF lit < 0 THEN ~m[-lit - 1] ELSE m[lit - 1]

(* The models of the clauses over the solver's variables. *)
Models ==
    {m \in [0 .. nVars - 1 -> BOOLEAN] :
        \A i \in DOMAIN clauses : \E lit \in Range(clauses[i]) : IsTrueIn(m, lit)}

(* interpret(vector<Var>), of the selected literals: in a word *)
interpret_vars(m, vs) == interpret(m, vs) % twoTo[WordBits]

(* interpret(vector<uint>), of a program variable for the verbose output *)
interpret_positions(m, positions) ==
    interpret([p \in Range(positions) |-> p # 0 /\ (p = AllOnes \/ m[Var(p)])],
              positions) % twoTo[WordBits]

(* What the mode counts models by: rand returns in its loop over the seed  *)
(* literals, so that only the first of them takes part.                    *)
Projection == Range(Vars("input"))
              \cup IF opt.mode = "rand" THEN {Head(Vars("seed"))} ELSE {}

(* What the mode reads of a model. The verbose output of the bucket modes  *)
(* and of rand shows the program variables of all roles.                   *)
StatModes == {"bucket", "bucketa"}
Read == Projection \cup Range(Vars("output"))
        \cup IF request.verbose /\ opt.mode \in StatModes \cup {"rand"}
             THEN UNION {Range(Vars(r)) : r \in Roles} ELSE {}

(* The models whose projection was not blocked. *)
Remaining == {m \in Models : \A f \in found : \E v \in Projection : f[v] # m[v]}

Inside(vs) == vs \subseteq DOMAIN model

Buckets ==
    [k \in 0 .. space_size(Len(literals["output"])) - 1 |->
        [size |-> Cardinality({m \in found : interpret_vars(m, Vars("output")) = k})]]

-----------------------------------------------------------------------------
(* Mutant of ensure_variables: only the variables of the clauses. *)
no_spare_variable == nVars' = max_var

ensure_variables == nVars' = max_var + 1

(* rand computes no sizes, bucketa that of the outputs, the others both,   *)
(* sync in a word half as wide: a shift by the width or more is undefined. *)
Shifted == CASE opt.mode = "rand" -> {} [] opt.mode = "bucketa" -> {"output"}
             [] OTHER -> {"input", "output"}
ShiftFails ==
    \E r \in Shifted :
        Len(literals[r]) >= IF opt.mode = "sync" THEN WordBits \div 2 ELSE WordBits

(* det_unguided throws without outputs; count_rand without seeds ends      *)
(* without a value; bucketsharp goes on in SharpMode.                      *)
Begin == CASE opt.mode = "bucketsharp" -> "sharp"
           [] opt.mode = "unguided" -> IF literals["output"] = <<>> THEN "uncaught" ELSE "stat"
           [] opt.mode = "rand" -> IF literals["seed"] = <<>> THEN "undefined" ELSE "count"
           [] OTHER -> "count"

Activate ==
    /\ pc = "activate"
    /\ ensure_variables
    /\ columns' = IF request.list
                  THEN FlattenSeq([i \in 1 .. 3 |->
                           LiteralsOf(collected[<<"input", "seed", "output">>[i]])])
                  ELSE <<>>
    /\ pc' = IF ShiftFails THEN "undefined" ELSE Begin
    /\ UNCHANGED <<request, opt, parserVars, model, found, rows, inputs, lines>>

(* The at() of the bucket modes checks the bucket; the model array is read *)
(* without a check. The bucket modes then call stat_point.                 *)
Count ==
    /\ pc = "count"
    /\ \E m \in Remaining :
        /\ model' = m
        /\ IF opt.mode \in StatModes /\ literals["output"] = <<>>
           THEN pc' = "uncaught" /\ UNCHANGED found
           ELSE IF ~(Read \subseteq DOMAIN m) THEN pc' = "undefined" /\ UNCHANGED found
           ELSE found' = found \cup {m} /\ pc' = IF opt.mode \in StatModes THEN "stat" ELSE pc
    /\ UNCHANGED <<request, opt, parserVars, nVars, columns, rows, inputs, lines>>

(* The report of the modes with buckets divides by the number of those     *)
(* that are not empty.                                                     *)
Finish ==
    /\ pc = "count" /\ Remaining = {}
    /\ pc' = IF found = {} /\ opt.mode # "rand" THEN "sigfpe" ELSE "done"
    /\ UNCHANGED <<request, opt, parserVars, reportVars>>

BucketListWriter_write == Append(rows, [j \in DOMAIN columns |-> model[columns[j]]])

(* The entropies are computed before number_of_inputs is. *)
Statistic_update ==
    /\ inputs' = sum_buckets(Buckets)
    /\ lines' = Append(lines, [used |-> inputs, inputs |-> inputs'])

(* The upper bound of an empty table writes before its vector; the list is *)
(* read beyond an empty model array. Neither is checked.                   *)
StatPoint ==
    /\ pc = "stat"
    /\ IF (request.statistic /\ found = {}) \/ (request.list /\ ~Inside(Range(columns)))
       THEN pc' = "undefined" /\ UNCHANGED <<rows, inputs, lines>>
       ELSE /\ pc' = "count"
            /\ IF request.statistic THEN Statistic_update ELSE UNCHANGED <<inputs, lines>>
            /\ rows' = IF request.list THEN BucketListWriter_write ELSE rows
    /\ UNCHANGED <<request, opt, parserVars, nVars, model, found, columns>>

-----------------------------------------------------------------------------
Init ==
    /\ CommandLineInit /\ ParserInit
    /\ nVars = 0 /\ model = <<>> /\ found = {}
    /\ columns = <<>> /\ rows = <<>> /\ inputs = Unknown /\ lines = <<>>

Ended == {"exit0", "exit1", "uncaught", "undefined", "sigfpe", "sharp", "done"}
Terminated == pc \in Ended /\ UNCHANGED vars

Next ==
    \/ CommandLineNext /\ UNCHANGED <<parserVars, reportVars>>
    \/ ParserNext /\ UNCHANGED reportVars
    \/ Activate \/ Count \/ Finish \/ StatPoint
    \/ Terminated

Spec == Init /\ [][Next]_vars

-----------------------------------------------------------------------------
FileLines == Range(request.file.lines)
VariableLines == {l \in FileLines : l.kind \in {"var", "bool"}}
Value(m, variable) == interpret_positions(m, variable.positions)

(* Every literal of a variable line is positive and in some clause.        *)
WellFormed ==
    LET C == {l \in FileLines : l.kind = "clause"}
        largest == Max({0} \cup UNION {{abs(n) : n \in Range(handle_clause(l.nums, l.blank))} :
                                          l \in C})
    IN  \A l \in VariableLines :
            /\ l.time # Absent
            /\ \A bit \in Range(l.bits) :
                bit.k # "bad" /\ (bit.k = "lit" => bit.n \in 1 .. largest)

(* The parser, the solver and the counter keep their types: all literals of*)
(* the clauses are the solver's variables.                                 *)
FrontTypeOK ==
    /\ at \in Nat /\ max_var \in Nat
    /\ \A i \in DOMAIN clauses : \A n \in Range(clauses[i]) : abs(n) \in 1 .. max_var
    /\ \A i \in DOMAIN variables :
        Range(variables[i].literals) \subseteq 1 .. twoTo[UintBits] - 2
    /\ nVars \in {0, max_var + 1}
    /\ model = <<>> \/ model \in Models
    /\ Len(rows) <= Cardinality(found) /\ inputs \in Nat \cup {Unknown}

(* Why a run that reads nothing outside the model array may still fail: an *)
(* empty name, a shift as wide as the word, rand without seed literals,    *)
(* unguided without output literals, or with a list or statistic (which it *)
(* writes before the first model), a bucket mode without output literals   *)
(* that finds a model, a report on no models.                              *)
Cause ==
    \/ \E r \in Roles : \E i \in DOMAIN request.names[r] : request.names[r][i].name = ""
    \/ ShiftFails
    \/ opt.mode = "rand" /\ literals["seed"] = <<>>
    \/ opt.mode = "unguided" /\ (literals["output"] = <<>> \/ request.list \/ request.statistic)
    \/ opt.mode \in StatModes /\ literals["output"] = <<>>
    \/ opt.mode # "rand" /\ Models = {}

(* A run without one of these causes on a file whose variables all have    *)
(* positive literals of the clauses comes to its report, in a build        *)
(* without optimisation: even the list, which reads one variable too far,  *)
(* stays in the model. And no run with one of them ever gets past its      *)
(* report, whatever the file.                                              *)
WellFormedRunsAreDefined ==
    /\ pc \in {"undefined", "uncaught", "sigfpe"} =>
          ~WellFormed \/ request.optimised \/ Cause
    /\ pc = "done" => ~Cause

(* The solver gets the clauses of a file with one clause in each line,     *)
(* whether the lines end with 0, with the last literal or with a blank.    *)
ClausesMeanTheFile ==
    LET C == {l \in FileLines : l.kind = "clause"}
        regular(l) == /\ l.nums # <<>>
                      /\ \A i \in DOMAIN l.nums : l.nums[i] = 0 => i = Len(l.nums)
    IN  pc \in {"activate", "count", "sharp", "sigfpe", "done"} /\ (\A l \in C : regular(l))
            /\ request.file # Absent =>
        {Range(clauses[i]) : i \in DOMAIN clauses} = {Range(l.nums) \ {0} : l \in C}

(* The verbose output shows the value of the program variable: bit i, its  *)
(* constant or its literal, counts 2^i. Negated literals are excepted.     *)
VerboseValueIsTrue ==
    pc = "count" /\ found # {} /\ WellFormed =>
        \A l \in VariableLines :
            Value(model, extractLine(l)) =
                MapThenSumSet(LAMBDA i : twoTo[i - 1], {j \in DOMAIN l.bits :
                    \/ l.bits[j].k = "TRUE"
                    \/ l.bits[j].k = "lit" /\ model[l.bits[j].n - 1]}) % twoTo[WordBits]

(* Two models fall into the same bucket exactly when all selected output   *)
(* variables have the same values in them, although the literals are taken *)
(* in the order of their numbers, once per variable, and the constants are *)
(* left out; and the table has that bucket. The values compared are those  *)
(* of a word: an output of more bits loses the upper ones.                 *)
BucketIsTheOutput ==
    pc = "count" /\ found # {} /\ Len(literals["output"]) < WordBits
            /\ (\A v \in Range(collected["output"]) : Len(v.positions) <= WordBits) =>
        \A m, n \in Models :
            LET bucket == interpret_vars(m, Vars("output"))
            IN  /\ (bucket = interpret_vars(n, Vars("output"))) <=>
                     \A i \in DOMAIN collected["output"] :
                         Value(m, collected["output"][i]) = Value(n, collected["output"][i])
                /\ literals["output"] # <<>> =>
                     bucket < space_size(Len(literals["output"]))

(* --list, "list all input/seed/output pairs" (CommandLineArguments.cpp:107): *)
(* a row shows, under the literal of each column, its value in the model      *)
(* just counted. It does not: it shows the value of the file's next variable. *)
ListShowsTheModel ==
    rows # <<>> => \A j \in DOMAIN columns : rows[Len(rows)][j] = IsTrueIn(model, columns[j])

(* --statistic: the entropies of a line are computed with the "Number of      *)
(* inputs found so far" (stat.h:43) that the line shows. They are not: the    *)
(* buckets are those of the line, the total is that of the line before, and   *)
(* in the first line it was never set.                                        *)
EntropiesUseTheirTotal == \A k \in DOMAIN lines : lines[k].used = lines[k].inputs

(* What both files show is of the preimage just counted.                      *)
OutputFilesShowTheCount == pc = "count" => ListShowsTheModel /\ EntropiesUseTheirTotal

=============================================================================
