------------------------------ MODULE FuncPtr ------------------------------
(***************************************************************************)
(* ProperC/src/funcptr.c.  f is the function the caller passes: a mapping, *)
(* the set where a predicate holds, an operation, a comparator, these two  *)
(* as functions of the first argument to functions of the second.          *)
(***************************************************************************)
EXTENDS CRoutine

CONSTANTS Mapping, Predicate, Operation, Comparator

\* A comparator orders the values, equal ones left aside; that its positive
\* value is 1 is nowhere required.
ASSUME FunctionAssumption ==
  /\ Mapping \subseteq [Value -> Value]
  /\ Predicate \subseteq SUBSET Value
  /\ Operation \subseteq [Value -> [Value -> Value]]
  /\ Comparator \subseteq [Value -> [Value -> Int]]
ASSUME ComparatorAssumption ==
  \A c \in Comparator : \A x, y, z \in Value :
    /\ c[x][y] > 0 <=> c[y][x] < 0
    /\ c[x][y] <= 0 /\ c[y][z] <= 0 => c[x][z] <= 0

FuncPtrFn == {"int_map", "int_filter", "int_reduce", "sort_ints"}

int_map == /\ fn = "int_map" /\ pc = "entry"
           /\ IF i < n
              THEN /\ Store(i \in DOMAIN dst, [dst EXCEPT ![i] = f[dst[i]]], "entry")
                   /\ i' = i + 1
                   /\ UNCHANGED <<j, ret>>
              ELSE Return(0)

\* j is count.
FilterStep == /\ i' = i + 1
              /\ UNCHANGED ret
              /\ IF src[i] \in f
                 THEN /\ Store(j \in DOMAIN dst, [dst EXCEPT ![j] = src[i]], "entry")
                      /\ j' = j + 1
                 ELSE UNCHANGED <<dst, pc, j>>

int_filter == /\ fn = "int_filter" /\ pc = "entry"
              /\ IF i < n THEN FilterStep ELSE Return(j)

\* ret is the parameter init, which the loop uses as its accumulator.
int_reduce == /\ fn = "int_reduce" /\ pc \in {"entry", "fold"}
              /\ \/ /\ pc = "entry"
                    /\ ret' = arg /\ pc' = "fold"
                    /\ UNCHANGED <<dst, i, j>>
                 \/ /\ pc = "fold" /\ i < n
                    /\ ret' = f[ret][src[i]] /\ i' = i + 1
                    /\ UNCHANGED <<pc, dst, j>>
                 \/ pc = "fold" /\ i >= n /\ Return(ret)

\* for (i = 0; i < n - 1; i++): on an empty array n - 1 is the largest size_t.
SortOuter == /\ pc \in {"entry", "outer"}
             /\ IF i < Pred(n)
                THEN j' = i + 1 /\ pc' = "inner" /\ UNCHANGED <<dst, i, ret>>
                ELSE Return(0)

\* A bug: the comparison is turned round for neighbours.
BugSortInner == /\ pc = "inner" /\ j < n
                /\ IF f[dst[i]][dst[j]] = 1 /\ j > i + 1
                   THEN Store(TRUE, Swap(dst, i, j), "inner")
                   ELSE UNCHANGED <<dst, pc>>
                /\ j' = j + 1
                /\ UNCHANGED <<i, ret>>

\* cmp(arr[i], arr[j]) == 1, not > 0
SortInner == /\ pc = "inner" /\ j < n
             /\ IF f[dst[i]][dst[j]] = 1
                THEN Store({i, j} \subseteq DOMAIN dst, Swap(dst, i, j), "inner")
                ELSE UNCHANGED <<dst, pc>>
             /\ j' = j + 1
             /\ UNCHANGED <<i, ret>>

\* A bug: i++ is left out.
BugSortNext == /\ pc = "inner" /\ j >= n
               /\ pc' = "outer"
               /\ UNCHANGED <<dst, i, j, ret>>

SortNext == /\ pc = "inner" /\ j >= n
            /\ i' = i + 1 /\ pc' = "outer"
            /\ UNCHANGED <<dst, j, ret>>

sort_ints == fn = "sort_ints" /\ (SortOuter \/ SortInner \/ SortNext)

FuncPtrInit == /\ fn \in FuncPtrFn
               /\ n \in Length
               /\ dst \in Array(n) /\ src \in Array(n) /\ Call
               /\ arg \in IF fn = "int_reduce" THEN Value ELSE {0}
               /\ f \in CASE fn = "int_map" -> Mapping
                          [] fn = "int_filter" -> Predicate
                          [] fn = "int_reduce" -> Operation
                          [] fn = "sort_ints" -> Comparator

FuncPtrNext == (int_map \/ int_filter \/ int_reduce \/ sort_ints) /\ UNCHANGED <<args, ub>>

-----------------------------------------------------------------------------
Sorted(a, len, c) == \A p, q \in Cell(len) : p < q => c[a[p]][a[q]] <= 0

Permuted(a, b, len) ==
  \E pi \in [Cell(len) -> Cell(len)] :
    /\ \A p, q \in Cell(len) : p # q => pi[p] # pi[q]
    /\ \A k \in Cell(len) : a[k] = b[pi[k]]

\* The comparators that answer -1, 0 or 1, the only ones test_funcptr.c passes.
UnitValued(c) == \A x, y \in Value : c[x][y] <= 1

\* ret is the last of the values a left fold over a goes through.
FoldGives(r, op, init, a, len) ==
  \E acc \in [0 .. len -> Value] :
    /\ acc[0] = init /\ acc[len] = r
    /\ \A k \in Cell(len) : acc[k + 1] = op[acc[k]][a[k]]

\* The first count cells of a are the cells of b that are in s, in their order.
Selected(a, count, b, len, s) ==
  \E at \in [Cell(count) -> Cell(len)] :
    /\ \A x, y \in Cell(count) : x < y => at[x] < at[y]
    /\ \A x \in Cell(count) : a[x] = b[at[x]]
    /\ \A k \in Cell(len) : b[k] \in s <=> \E x \in Cell(count) : at[x] = k

\* sort_ints under a comparator of -1, 0 and 1: the cells are in order and are the
\* caller's cells, each as often as it was there (funcptr.h:23).
SortResult == pc = "ret" /\ fn = "sort_ints" =>
                /\ UnitValued(f) => Sorted(dst, n, f)
                /\ Permuted(dst, old, n)

\* The selected cells of src, in their order, counted, and nothing behind them
\* (funcptr.h:10); a fold is a left fold (:17); a mapping reaches every cell (:7).
FuncPtrResult ==
  pc = "ret" =>
    /\ fn = "int_filter" => /\ Selected(dst, ret, src, n, f)
                            /\ \A k \in ret .. n - 1 : dst[k] = old[k]
    /\ fn = "int_reduce" => FoldGives(ret, f, arg, src, n)
    /\ fn = "int_map" => \A k \in Cell(n) : dst[k] = f[old[k]]

\* `Sort arr[0..n) in ascending order according to cmp, where cmp(a, b) returns a
\* negative / zero / positive value' (funcptr.h:24): any comparator will do.
SortsByAnyComparator == pc = "ret" /\ fn = "sort_ints" => Sorted(dst, n, f)
=============================================================================
