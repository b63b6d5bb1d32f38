------------------------------- MODULE Bench -------------------------------
(***************************************************************************)
(* ProperMachine/bench/bench.c.  Its numbers mean something only if the    *)
(* two traversals that are timed do the same work: the shuffled list must  *)
(* still lead through every node once, and both orders through the matrix  *)
(* must read every cell once.                                              *)
(*                                                                         *)
(* Node x is the x-th one allocated.  The shuffle may draw any number; the *)
(* clock and the printing are left out, and so is the array arr, whose     *)
(* cell i keeps Weight(i) throughout.  seen and turn are not in the code:  *)
(* what the pass has read so far and how often it has gone round.          *)
(*                                                                         *)
(* A definition named Bug... is a plausible slip, no part of BenchSpec.    *)
(***************************************************************************)
EXTENDS Integers

CONSTANTS LIST_N, MAT_N,
          Mask      \* values are i % Mask; 256 in the code

ASSUME BenchAssumption == /\ LIST_N \in Nat /\ LIST_N > 0
                          /\ MAT_N \in Nat /\ MAT_N > 0
                          /\ Mask \in Nat /\ Mask > 0

Index == 0 .. LIST_N - 1
NIL   == LIST_N
\* What malloc gives out: the nodes, then arr, nodes[] and the matrix.
Block  == 0 .. LIST_N + 2
Arrays == {LIST_N, LIST_N + 1}
Matrix == LIST_N + 2
Weight(x) == x % Mask

VARIABLES
  at,     \* the loop the program is in
  held,   \* the blocks it has allocated
  nodes,  \* nodes[]
  link,   \* node -> next
  turn,   \* the loop counter; in the matrix the one of the outer loop
  inner,  \* the matrix: of the inner one
  ptr,    \* the list passes: p
  seen, warm, sum_arr, sum_list, sum_row, sum_col

lists == <<nodes, link, warm, sum_arr, sum_list>>
sums  == <<inner, sum_row, sum_col>>
benchVars == <<at, held, turn, ptr, seen, lists, sums>>

BenchInit == /\ at = "blocks" /\ held = {} /\ turn = 0 /\ inner = 0 /\ ptr = NIL /\ seen = {}
             /\ nodes = [x \in Index |-> x] /\ link = [x \in Index |-> NIL]
             /\ warm = 0 /\ sum_arr = 0 /\ sum_list = 0 /\ sum_row = 0 /\ sum_col = 0

\* The next loop, from its beginning.
Enter(loop) == at' = loop /\ turn' = 0 /\ seen' = {}

\* xmalloc: the blocks, or the end of the process.
xmalloc(blocks, next) == \/ held' = held \cup blocks /\ next
                         \/ at' = "exit" /\ UNCHANGED <<held, turn, ptr, seen, lists, sums>>

-----------------------------------------------------------------------------
(* bench_array_vs_list *)

AllocArrays == /\ at = "blocks"
               /\ xmalloc(Arrays, Enter("alloc") /\ UNCHANGED <<ptr, lists, sums>>)

AllocNode == /\ at = "alloc" /\ turn < LIST_N
             /\ xmalloc({turn}, /\ turn' = turn + 1
                                /\ nodes' = [nodes EXCEPT ![turn] = turn]
                                /\ UNCHANGED <<at, ptr, seen, link, warm, sum_arr,
                                               sum_list, sums>>)

AllocEnd == /\ at = "alloc" /\ turn = LIST_N
            /\ at' = "shuffle" /\ turn' = LIST_N - 1 /\ seen' = {}
            /\ UNCHANGED <<held, ptr, lists, sums>>

\* j = rng_next() % (i + 1), and the swap
Shuffle == /\ at = "shuffle" /\ turn > 0
           /\ \E j \in 0 .. turn :
                nodes' = [nodes EXCEPT ![turn] = nodes[j], ![j] = nodes[turn]]
           /\ turn' = turn - 1
           /\ UNCHANGED <<at, held, ptr, seen, link, warm, sum_arr, sum_list, sums>>

ShuffleEnd == /\ at = "shuffle" /\ turn = 0
              /\ Enter("link") /\ UNCHANGED <<held, ptr, lists, sums>>

Link == /\ at = "link"
        /\ link' = [link EXCEPT ![nodes[turn]] =
                      IF turn < LIST_N - 1 THEN nodes[turn + 1] ELSE NIL]
        /\ IF turn < LIST_N - 1 THEN turn' = turn + 1 /\ UNCHANGED <<at, seen>>
                                ELSE Enter("warm_arr")
        /\ UNCHANGED <<held, ptr, nodes, warm, sum_arr, sum_list, sums>>

\* One loop over arr: the cell at turn, or on to the list at head.
ArrayPass(here, next) == /\ at = here
                         /\ IF turn < LIST_N
                            THEN turn' = turn + 1 /\ seen' = seen \cup {turn}
                                 /\ UNCHANGED <<at, ptr>>
                            ELSE Enter(next) /\ ptr' = nodes[0]
                         /\ UNCHANGED <<held, nodes, link, sum_list, sums>>

\* One loop along the list.
ListPass(here, next) == /\ at = here
                        /\ IF ptr # NIL
                           THEN /\ ptr' = link[ptr]
                                /\ turn' = turn + 1 /\ seen' = seen \cup {ptr}
                                /\ UNCHANGED at
                           ELSE Enter(next) /\ UNCHANGED ptr
                        /\ UNCHANGED <<held, nodes, link, sum_arr, sums>>

\* acc += value, while the pass goes on.
Adds(more, value) == IF more THEN value ELSE 0

WarmArray == /\ ArrayPass("warm_arr", "warm_list")
             /\ warm' = warm + Adds(turn < LIST_N, Weight(turn)) /\ UNCHANGED sum_arr

WarmList == /\ ListPass("warm_list", "time_arr")
            /\ warm' = warm + Adds(ptr # NIL, Weight(ptr)) /\ UNCHANGED sum_list

TimeArray == /\ ArrayPass("time_arr", "time_list")
             /\ sum_arr' = sum_arr + Adds(turn < LIST_N, Weight(turn)) /\ UNCHANGED warm

TimeList == /\ ListPass("time_list", "free")
            /\ sum_list' = sum_list + Adds(ptr # NIL, Weight(ptr)) /\ UNCHANGED warm

\* free(nodes[i]) for every i, then the two arrays.
FreeNode == /\ at = "free" /\ turn < LIST_N
            /\ IF nodes[turn] \in held
               THEN held' = held \ {nodes[turn]} /\ turn' = turn + 1 /\ UNCHANGED at
               ELSE at' = "abort" /\ UNCHANGED <<held, turn>>
            /\ UNCHANGED <<ptr, seen, lists, sums>>

FreeArrays == /\ at = "free" /\ turn = LIST_N
              /\ held' = held \ Arrays
              /\ Enter("matrix") /\ UNCHANGED <<ptr, lists, sums>>

-----------------------------------------------------------------------------
(* bench_matrix *)

AllocMatrix == /\ at = "matrix"
               /\ xmalloc({Matrix}, /\ Enter("row") /\ inner' = 0
                                 /\ UNCHANGED <<ptr, lists, sum_row, sum_col>>)

\* A bug: the second order forgets to exchange the two counters.
BugCellRead(here) == turn * MAT_N + turn

\* m[i * n + j]: rows have i outside, columns have it inside.
CellRead(here) == IF here = "row" THEN turn * MAT_N + inner ELSE inner * MAT_N + turn

\* Both loops add 1 for each cell they read.
MatrixPass(here, next) ==
  /\ at = here
  /\ IF turn = MAT_N THEN Enter(next) /\ inner' = 0
     ELSE IF inner = MAT_N
     THEN turn' = turn + 1 /\ inner' = 0 /\ UNCHANGED <<at, seen>>
     ELSE /\ inner' = inner + 1 /\ seen' = seen \cup {CellRead(here)}
          /\ UNCHANGED <<at, turn>>
  /\ UNCHANGED <<held, ptr, lists>>

Reading == turn < MAT_N /\ inner < MAT_N

RowPass == /\ MatrixPass("row", "col")
           /\ sum_row' = sum_row + Adds(Reading, 1) /\ UNCHANGED sum_col

ColPass == /\ MatrixPass("col", "free_m")
           /\ sum_col' = sum_col + Adds(Reading, 1) /\ UNCHANGED sum_row

FreeMatrix == /\ at = "free_m"
              /\ held' = held \ {Matrix} /\ at' = "done"
              /\ UNCHANGED <<turn, ptr, seen, lists, sums>>

-----------------------------------------------------------------------------
BenchNext == \/ AllocArrays \/ AllocNode \/ AllocEnd \/ Shuffle \/ ShuffleEnd \/ Link
             \/ WarmArray \/ WarmList \/ TimeArray \/ TimeList
             \/ FreeNode \/ FreeArrays
             \/ AllocMatrix \/ RowPass \/ ColPass \/ FreeMatrix

BenchSpec == BenchInit /\ [][BenchNext]_benchVars /\ WF_benchVars(BenchNext)

-----------------------------------------------------------------------------
BenchTypeOK ==
  /\ at \in {"blocks", "alloc", "shuffle", "link", "warm_arr", "warm_list", "time_arr",
             "time_list", "free", "matrix", "row", "col", "free_m", "done", "exit", "abort"}
  /\ held \subseteq Block
  /\ nodes \in [Index -> Index] /\ link \in [Index -> Index \cup {NIL}]
  /\ turn \in 0 .. LIST_N + MAT_N /\ inner \in 0 .. MAT_N
  /\ ptr \in Index \cup {NIL}
  /\ {warm, sum_arr, sum_list, sum_row, sum_col} \subseteq Nat

\* However the shuffle falls, each walk along the list reads every node, once each
\* (bench.c:8: `walking a linked list ... in shuffled order').
WalksAll ==
  /\ at \in {"warm_list", "time_list"} =>
       /\ ptr \notin seen
       /\ turn <= LIST_N
       /\ ptr = NIL => seen = Index
  /\ at # "abort"

\* `Both doing the same trivial work per element ... only the ACCESS PATTERN differs'
\* (bench.c:6): each walk reads the whole list, the sums that are printed agree, each
\* order reads the whole matrix, and nothing is left allocated.
SameWork ==
  /\ WalksAll
  /\ at = "free" => sum_list = sum_arr /\ warm = 2 * sum_arr
  /\ at \in {"row", "col"} /\ turn = MAT_N => seen = 0 .. MAT_N * MAT_N - 1
  /\ at = "done" => held = {} /\ sum_row = MAT_N * MAT_N /\ sum_col = sum_row
=============================================================================
