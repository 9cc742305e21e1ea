----------------------------- MODULE MCFrontend -----------------------------
(***************************************************************************)
(* Files and command lines for TLC.                                        *)
(***************************************************************************)
EXTENDS Frontend

clause(nums, blank) == [kind |-> "clause", nums |-> nums, blank |-> blank]
remembered(nums)    == [kind |-> "cr", nums |-> nums, blank |-> FALSE]
var(name, time, bits)  == [kind |-> "var", name |-> name, time |-> time, bits |-> bits]
bool(name, time, bit)  == [kind |-> "bool", name |-> name, time |-> time, bits |-> <<bit>>]
other(kind)         == [kind |-> kind]
lit(n)   == [k |-> "lit", n |-> n]
constant(c) == [k |-> c, n |-> 0]

file(ls) == [exists |-> TRUE, lines |-> ls]

(* One clause in each line, in all three forms; an input updated twice; an *)
(* output with constants and with bits that are not in ascending order.    *)
Regular ==
    file(<<other("header"), clause(<<1, -2, 0>>, FALSE), clause(<<2, 3>>, FALSE),
           other("empty"), clause(<<-3, 4, 1>>, TRUE), remembered(<<1, 2, 0>>),
           var("I", 1, <<lit(1)>>), var("I", 2, <<lit(3), lit(1)>>),
           var("O", 1, <<lit(2), constant("TRUE"), lit(1), constant("FALSE")>>),
           bool("S", 1, lit(2)), other("comment")>>)

(* Two updates of one output share their literals; arrays of inputs. *)
Shared ==
    file(<<clause(<<1, 2, 3>>, FALSE), clause(<<-1, -2, 0>>, FALSE),
           var("I", 1, <<lit(2)>>), var("I", 3, <<lit(1)>>), var("I", 2, <<lit(2)>>),
           var("O", 1, <<lit(3)>>), var("O", 2, <<lit(3), lit(2)>>),
           var("O", 3, <<lit(2), lit(3)>>)>>)

(* Two clauses in a line, a clause over two lines, a line without numbers. *)
Irregular ==
    file(<<clause(<<1, 0, 2, 0>>, FALSE), clause(<<-1>>, FALSE), clause(<<2, 0>>, FALSE),
           var("I", 1, <<lit(1)>>), var("O", 1, <<lit(2)>>)>>)
Blank ==
    file(<<clause(<<1, 2, 0>>, FALSE), clause(<<>>, TRUE),
           var("I", 1, <<lit(1)>>), var("O", 1, <<lit(2)>>)>>)

(* Updates as late as the number that @name starts from, and later. *)
Late ==
    file(<<clause(<<1, 2, 3, 0>>, FALSE), var("I", 4, <<lit(1)>>), var("I", 5, <<lit(2)>>),
           var("O", 6, <<lit(3)>>)>>)

(* The second literal of the seed is in no clause. *)
SeedBeyond ==
    file(<<clause(<<1, 2, 0>>, FALSE), var("I", 1, <<lit(1)>>), var("O", 1, <<lit(2)>>),
           var("S", 1, <<lit(1), lit(4)>>)>>)

WithBits(bits) ==
    file(<<clause(<<1, 2, 0>>, FALSE), var("I", 1, <<lit(1)>>), var("O", 1, bits)>>)

Files ==
    {Regular, Shared, Irregular, Blank, Late, SeedBeyond, WithBits(<<lit(-2), lit(1)>>),
     WithBits(<<lit(-1), lit(2)>>), WithBits(<<lit(3)>>), WithBits(<<lit(4)>>),
     WithBits(<<constant("bad")>>), WithBits(<<constant("TRUE")>>),
     file(<<clause(<<1, 0>>, FALSE), var("I", Absent, <<lit(1)>>)>>)}

name(n) == [all |-> FALSE, name |-> n]
all(n)  == [all |-> TRUE, name |-> n]

Selections ==
    {[input |-> <<i>>, output |-> <<o>>, seed |-> s] :
        i \in {name("I"), all("I")}, o \in {name("O"), all("O")},
        s \in {<<>>, <<name("S")>>}}
    \cup {[input |-> <<name("I"), name("I")>>, output |-> <<name("X")>>, seed |-> <<>>],
          [input |-> <<name("I")>>, output |-> <<all("O"), name("O")>>, seed |-> <<>>],
          [input |-> <<name("")>>, output |-> <<name("O")>>, seed |-> <<>>]}

Usual ==
    [help |-> FALSE, unknown |-> FALSE, mode |-> Absent, tool |-> Absent,
     command |-> Absent, indicator |-> Absent, file |-> Regular,
     names |-> [input |-> <<name("I")>>, output |-> <<name("O")>>, seed |-> <<>>],
     list |-> FALSE, statistic |-> FALSE, verbose |-> FALSE, optimised |-> FALSE]

Seeded == [Usual.names EXCEPT !.seed = <<name("S")>>]

CommandLines ==
    {[Usual EXCEPT !.help = TRUE], [Usual EXCEPT !.unknown = TRUE],
     [Usual EXCEPT !.help = TRUE, !.mode = "dsharp"], [Usual EXCEPT !.file = Absent],
     [Usual EXCEPT !.file = [exists |-> FALSE, lines |-> <<>>]]}
    \cup {[Usual EXCEPT !.mode = "bucketsharp", !.tool = t, !.command = c] :
             t \in {Absent, "dsharp", "none"}, c \in {Absent, "mine"}}

MCRequests ==
    CommandLines \cup
    {[Usual EXCEPT !.mode = m, !.file = f, !.names = n, !.list = l] :
        m \in {Absent, "bucketa", "unguided", "sync", "rand"}, f \in Files, n \in Selections,
        l \in BOOLEAN}
    \cup {[Usual EXCEPT !.mode = m, !.file = f, !.list = l, !.statistic = TRUE] :
        m \in {Absent, "bucketa", "unguided"}, f \in Files, l \in BOOLEAN}
    \cup {[Usual EXCEPT !.mode = m, !.file = f, !.names = Seeded, !.verbose = TRUE] :
        m \in {Absent, "bucketa", "unguided", "sync", "rand"}, f \in Files}
    \cup {[Usual EXCEPT !.file = f, !.optimised = TRUE] : f \in Files}

(* Input and output differ in every model. *)
Opposite ==
    file(<<clause(<<1, 2, 0>>, FALSE), clause(<<-1, -2, 0>>, FALSE),
           var("I", 1, <<lit(1)>>), var("O", 1, <<lit(2)>>)>>)
FilesRequest == {[Usual EXCEPT !.file = Opposite, !.list = TRUE, !.statistic = TRUE]}

=============================================================================
