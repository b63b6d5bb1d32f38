--------------------------- MODULE MCWorkerPool ---------------------------
(* Small instance of WorkerPool: every slice of up to MaxItems items over two
   ints, and worker counts from below zero to more workers than items. *)
EXTENDS WorkerPool

CONSTANT MaxItems

MCVal == 0..2
MCItemLists == UNION {[1..n -> 1..2] : n \in 0..MaxItems}
MCRequests == {-1, 0} \cup 1..MaxWorkers
\* Neither the identity nor constant, and never the slice's zero value.
MCfn == [v \in MCVal |-> IF v = 1 THEN 2 ELSE 1]

=============================================================================
