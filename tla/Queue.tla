------------------------------- MODULE Queue --------------------------------
(***************************************************************************)
(* The ring buffer of minisat/mtl/Queue.h. A queue is a record of the      *)
(* buffer (position 0 first) and of the positions first and end; buf[end]  *)
(* is always unused, so that first = end means empty.                      *)
(***************************************************************************)
EXTENDS Integers, Sequences

CONSTANT Fresh       \* the value of a cell nobody has written yet

cap(q) == Len(q.buf)
cell(q, i) == q.buf[i + 1]

Empty == [buf |-> <<Fresh>>, first |-> 0, end |-> 0]

size(q) == IF q.end >= q.first THEN q.end - q.first ELSE q.end - q.first + cap(q)

(* Mutant of wrap: the positions run past the end of the buffer. *)
wrapNever(q, i) == i

wrap(q, i) == IF i = cap(q) THEN 0 ELSE i

(* operator []: element number i, counted from 0. *)
nth(q, i) == cell(q, IF q.first + i < cap(q) THEN q.first + i ELSE q.first + i - cap(q))

peek(q) == cell(q, q.first)
pop(q) == [q EXCEPT !.first = wrap(q, q.first + 1)]

(* The full buffer copied to one of one and a half times the size. *)
Grown(q) ==
    [buf |-> [i \in 1 .. (cap(q) * 3 + 1) \div 2 |->
                 IF i <= cap(q) THEN nth(q, i - 1) ELSE Fresh],
     first |-> 0, end |-> cap(q)]

Stored(q, x) == [buf   |-> [q.buf EXCEPT ![q.end + 1] = x],
                 first |-> q.first,
                 end   |-> wrap(q, q.end + 1)]

insert(q, x) ==
    LET r == Stored(q, x) IN IF r.first = r.end THEN Grown(r) ELSE r

(* What the buffer holds, the oldest element first. *)
Contents(q) == [i \in 1 .. size(q) |-> nth(q, i - 1)]

=============================================================================
