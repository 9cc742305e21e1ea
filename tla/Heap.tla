-------------------------------- MODULE Heap --------------------------------
(***************************************************************************)
(* The binary heap of minisat/mtl/Heap.h, a sequence of elements with the  *)
(* least cost first. indices[] is the position of an element in it. The    *)
(* costs change outside the heap; whoever changes one calls the heap.      *)
(***************************************************************************)
EXTENDS Integers, Sequences, SequencesExt

inHeap(h, n) == n \in ToSet(h)
indexOf(h, n) == CHOOSE i \in DOMAIN h : h[i] = n
parent(i) == i \div 2
child(h, i, cost) ==
    IF 2 * i + 1 <= Len(h) /\ cost[h[2 * i + 1]] < cost[h[2 * i]] THEN 2 * i + 1 ELSE 2 * i

Exchange(h, i, j) == [h EXCEPT ![i] = h[j], ![j] = h[i]]

(* The moving element and where it is, after at most Len(h) exchanges. *)
Moving(h, i, step(_)) == FoldLeft(LAMBDA m, k : step(m), <<h, i>>, h)[1]

percolateUp(h, i, cost) ==
    Moving(h, i, LAMBDA m :
        LET g == m[1]  j == m[2]
        IN  IF j # 1 /\ cost[g[j]] < cost[g[parent(j)]]
            THEN <<Exchange(g, j, parent(j)), parent(j)>> ELSE m)

percolateDown(h, i, cost) ==
    Moving(h, i, LAMBDA m :
        LET g == m[1]  j == m[2]  c == child(g, j, cost)
        IN  IF 2 * j <= Len(g) /\ cost[g[c]] < cost[g[j]]
            THEN <<Exchange(g, j, c), c>> ELSE m)

increase(h, n, cost) == percolateDown(h, indexOf(h, n), cost)
insert(h, n, cost) == percolateUp(Append(h, n), Len(h) + 1, cost)

update(h, n, cost) ==
    IF ~inHeap(h, n) THEN insert(h, n, cost)
    ELSE LET g == percolateUp(h, indexOf(h, n), cost)
         IN  percolateDown(g, indexOf(g, n), cost)

removeMin(h, cost) ==
    LET g == [i \in 1 .. Len(h) - 1 |-> IF i = 1 THEN Last(h) ELSE h[i]]
    IN  IF Len(g) > 1 THEN percolateDown(g, 1, cost) ELSE g

HeapOrdered(h, cost) ==
    /\ IsInjective(h)
    /\ \A i \in 2 .. Len(h) : cost[h[parent(i)]] <= cost[h[i]]

=============================================================================
