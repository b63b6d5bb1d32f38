---------------------------- MODULE BenchProofs ----------------------------
(***************************************************************************)
(* The benchmark, for lists and matrices of any size: theorems about       *)
(* Bench.  The sums of the two walks agree because the witness of the      *)
(* total that the allocation loop builds up survives each exchange of the  *)
(* shuffle; nodes[] holds each node once throughout, so the walk along the *)
(* links is a walk along nodes[].                                          *)
(***************************************************************************)
EXTENDS Bench, TLAPS

-----------------------------------------------------------------------------
(* The invariant *)

Loops == {"blocks", "alloc", "shuffle", "link", "warm_arr", "warm_list", "time_arr",
          "time_list", "free", "matrix", "row", "col", "free_m", "done", "exit"}

Strung == {"warm_arr", "warm_list", "time_arr", "time_list"}
Walks  == {"shuffle", "link"} \cup Strung

BenchTyped == /\ at \in Loops
              /\ nodes \in [Index -> Index] /\ link \in [Index -> Index \cup {NIL}]
              /\ turn \in Nat /\ inner \in Nat

Turns == /\ at \in {"blocks", "matrix"} => turn = 0
         /\ at \in {"alloc", "free"} \cup Strung => turn <= LIST_N
         /\ at \in {"shuffle", "link"} => turn < LIST_N
         /\ at \in {"row", "col"} => turn <= MAT_N /\ inner <= MAT_N

\* nodes[] holds each node once.
Shuffled == /\ \A x, y \in Index : nodes[x] = nodes[y] => x = y
            /\ \A z \in Index : \E x \in Index : nodes[x] = z
            /\ at \in {"blocks", "alloc"} => \A x \in Index : nodes[x] = x

Succ(x) == IF x < LIST_N - 1 THEN nodes[x + 1] ELSE NIL

Linking == /\ at = "link" => \A x \in Index : x < turn => link[nodes[x]] = Succ(x)
           /\ at \in Strung => \A x \in Index : link[nodes[x]] = Succ(x)

Walking == at \in {"warm_list", "time_list"} =>
             /\ ptr = IF turn < LIST_N THEN nodes[turn] ELSE NIL
             /\ seen \subseteq Index
             /\ \A x \in Index : nodes[x] \in seen <=> x < turn

Holding == /\ at \in {"blocks", "matrix", "done"} => held = {}
           /\ at = "alloc" => held = Arrays \cup 0 .. turn - 1
           /\ at \in Walks => held = Arrays \cup Index
           /\ at = "free" => /\ held \subseteq Arrays \cup Index
                            /\ \A x \in Index : nodes[x] \in held <=> x >= turn
           /\ at \in {"row", "col", "free_m"} => held = {Matrix}

\* acc[x] is the sum of the first x weights along a.
Adding(acc, a, len) == /\ acc \in [0 .. len -> Int]
                       /\ acc[0] = 0
                       /\ \A x \in 0 .. len - 1 : acc[x + 1] = acc[x] + Weight(a[x])

Straight == [x \in Index |-> x]

\* Where the sums stand, given those along the array and along the list.
Progress(a, l) ==
  /\ at \in {"shuffle", "link"} => warm = 0 /\ sum_arr = 0 /\ sum_list = 0
  /\ at = "warm_arr"  => warm = a[turn] /\ sum_arr = 0 /\ sum_list = 0
  /\ at = "warm_list" => warm = a[LIST_N] + l[turn] /\ sum_arr = 0 /\ sum_list = 0
  /\ at = "time_arr"  => warm = 2 * a[LIST_N] /\ sum_arr = a[turn] /\ sum_list = 0
  /\ at = "time_list" => warm = 2 * a[LIST_N] /\ sum_arr = a[LIST_N] /\ sum_list = l[turn]

Agreeing(a, l) == /\ Adding(a, Straight, LIST_N) /\ Adding(l, nodes, LIST_N)
                  /\ a[LIST_N] = l[LIST_N]

Summing == /\ at \in {"blocks", "alloc"} => warm = 0 /\ sum_arr = 0 /\ sum_list = 0
           /\ at = "alloc" => \E acc : Adding(acc, Straight, turn)
           /\ at \in Walks => \E a, l : Agreeing(a, l) /\ Progress(a, l)
           /\ at = "free" => sum_list = sum_arr /\ warm = 2 * sum_arr

\* The row order reads the cells in their order; what it has met is m[y * n + x].
Cells == {c \in Nat : \E x, y \in 0 .. MAT_N - 1 : c = y * MAT_N + x}

Crossing ==
  /\ at \in {"blocks", "matrix", "alloc", "free"} \cup Walks => sum_row = 0 /\ sum_col = 0
  /\ at = "row" => /\ sum_row = turn * MAT_N + inner /\ sum_col = 0
                   /\ seen = 0 .. (turn * MAT_N + inner) - 1
                   /\ seen \subseteq Cells
                   /\ turn = MAT_N => inner = 0
  /\ at = "col" => /\ sum_row = MAT_N * MAT_N /\ sum_col = turn * MAT_N + inner
                   /\ 0 .. MAT_N * MAT_N - 1 \subseteq Cells
                   /\ seen \subseteq 0 .. MAT_N * MAT_N - 1
                   /\ \A x, y \in 0 .. MAT_N - 1 :
                        x < turn \/ (x = turn /\ y < inner) => y * MAT_N + x \in seen
                   /\ turn = MAT_N => inner = 0
  /\ at \in {"free_m", "done"} => sum_row = MAT_N * MAT_N /\ sum_col = MAT_N * MAT_N

BenchInv == BenchTyped /\ Turns /\ Shuffled /\ Linking /\ Walking /\ Holding /\ Summing /\ Crossing

-----------------------------------------------------------------------------
(* Sums *)

LEMMA WeightType ==
  ASSUME NEW x \in Nat
  PROVE  Weight(x) \in Int
<1>1. Mask \in Nat /\ Mask > 0
  BY BenchAssumption
<1> QED BY <1>1, SMT DEF Weight

LEMMA AddsOne ==
  ASSUME NEW len \in Nat, NEW a, NEW acc, Adding(acc, a, len), Weight(a[len]) \in Int
  PROVE  \E more : Adding(more, a, len + 1)
<1> DEFINE more == [x \in 0 .. len + 1 |->
                      IF x = len + 1 THEN acc[len] + Weight(a[len]) ELSE acc[x]]
<1>1. acc \in [0 .. len -> Int] /\ acc[0] = 0
      /\ \A x \in 0 .. len - 1 : acc[x + 1] = acc[x] + Weight(a[x])
  BY DEF Adding
<1>2. acc[len] \in Int
  BY <1>1
<1>3. more \in [0 .. len + 1 -> Int]
  BY <1>1, <1>2
<1>4. more[len + 1] = acc[len] + Weight(a[len]) /\ \A x \in 0 .. len : more[x] = acc[x]
  OBVIOUS
<1> HIDE DEF more
<1>5. \A x \in 0 .. len + 1 - 1 : more[x + 1] = more[x] + Weight(a[x])
  <2> SUFFICES ASSUME NEW x \in 0 .. len PROVE more[x + 1] = more[x] + Weight(a[x])
    OBVIOUS
  <2>1. CASE x = len
    BY <1>4, <2>1
  <2>2. CASE x # len
    <3>1. x \in 0 .. len - 1 /\ x + 1 \in 0 .. len
      BY <2>2
    <3> QED BY <1>1, <1>4, <3>1
  <2> QED BY <2>1, <2>2
<1>6. more[0] = 0
  BY <1>1, <1>4
<1>7. Adding(more, a, len + 1)
  BY <1>3, <1>5, <1>6 DEF Adding
<1> QED BY <1>7

\* Two cells exchanged: the sums between them change, the total does not.
LEMMA AddsExchanged ==
  ASSUME BenchTyped, NEW acc, Adding(acc, nodes, LIST_N), NEW x \in Index, NEW y \in 0 .. x,
         nodes' = [nodes EXCEPT ![x] = nodes[y], ![y] = nodes[x]]
  PROVE  \E more : Adding(more, nodes', LIST_N) /\ more[LIST_N] = acc[LIST_N]
<1> DEFINE a == nodes
           b == nodes'
           len == LIST_N
<1>a. /\ a \in [0 .. len - 1 -> Nat] /\ Adding(acc, a, len)
      /\ b = [a EXCEPT ![x] = a[y], ![y] = a[x]]
  BY BenchAssumption DEF BenchTyped, Index
<1>0. len \in Nat /\ x \in 0 .. len - 1 /\ y \in 0 .. len - 1 /\ y <= x
  BY BenchAssumption DEF Index
<1> HIDE DEF a, b, len
<1>1. acc \in [0 .. len -> Int] /\ acc[0] = 0
      /\ \A z \in 0 .. len - 1 : acc[z + 1] = acc[z] + Weight(a[z])
  BY <1>a DEF Adding
<1>2. \A z \in 0 .. len - 1 : Weight(a[z]) \in Int
  BY <1>a, WeightType
<1> DEFINE wx == Weight(a[x])
           wy == Weight(a[y])
<1>3. wx \in Int /\ wy \in Int
  BY <1>0, <1>2
<1>4. \A z \in 0 .. len - 1 : /\ z = x => Weight(a[z]) = wx
                              /\ z = y => Weight(a[z]) = wy
  OBVIOUS
<1>5. \A z \in 0 .. len - 1 :
        Weight(b[z]) = IF z = x THEN wy ELSE IF z = y THEN wx ELSE Weight(a[z])
  <2> SUFFICES ASSUME NEW z \in 0 .. len - 1
               PROVE  Weight(b[z]) = IF z = x THEN wy ELSE IF z = y THEN wx ELSE Weight(a[z])
    OBVIOUS
  <2>1. b[z] = IF z = x THEN a[y] ELSE IF z = y THEN a[x] ELSE a[z]
    BY <1>0, <1>a
  <2> QED BY <2>1
<1> HIDE DEF wx, wy
<1> DEFINE more == [z \in 0 .. len |-> IF y < z /\ z <= x THEN acc[z] - wy + wx ELSE acc[z]]
<1>6. \A z \in 0 .. len : more[z] = IF y < z /\ z <= x THEN acc[z] - wy + wx ELSE acc[z]
  OBVIOUS
<1>7. more \in [0 .. len -> Int]
  <2>1. \A z \in 0 .. len : acc[z] \in Int
    BY <1>1
  <2>2. \A z \in 0 .. len : (IF y < z /\ z <= x THEN acc[z] - wy + wx ELSE acc[z]) \in Int
    BY <1>0, <1>3, <2>1
  <2> QED BY <2>2
<1> HIDE DEF more
<1>8. \A z \in 0 .. len - 1 : more[z + 1] = more[z] + Weight(b[z])
  <2> SUFFICES ASSUME NEW z \in 0 .. len - 1 PROVE more[z + 1] = more[z] + Weight(b[z])
    OBVIOUS
  <2>1. /\ more[z] = IF y < z /\ z <= x THEN acc[z] - wy + wx ELSE acc[z]
        /\ more[z + 1] = IF y < z + 1 /\ z + 1 <= x THEN acc[z + 1] - wy + wx ELSE acc[z + 1]
        /\ acc[z + 1] = acc[z] + Weight(a[z])
        /\ acc[z] \in Int /\ acc[z + 1] \in Int /\ Weight(a[z]) \in Int
    <3>1. z \in 0 .. len /\ z + 1 \in 0 .. len
      BY <1>0
    <3> QED BY <1>1, <1>2, <1>6, <3>1
  <2>2. Weight(b[z]) = IF z = x THEN wy ELSE IF z = y THEN wx ELSE Weight(a[z])
    BY <1>5
  <2>3. (z = x => Weight(a[z]) = wx) /\ (z = y => Weight(a[z]) = wy)
    BY <1>4
  <2>4. x \in Int /\ y \in Int /\ z \in Int /\ y <= x
    BY <1>0
  <2>5. CASE z < y \/ z > x
    <3>1. more[z] = acc[z] /\ more[z + 1] = acc[z + 1] /\ Weight(b[z]) = Weight(a[z])
      BY <2>1, <2>2, <2>4, <2>5
    <3> QED BY <2>1, <3>1
  <2>6. CASE z = y /\ z = x
    <3>1. more[z] = acc[z] /\ more[z + 1] = acc[z + 1] /\ Weight(b[z]) = Weight(a[z])
      BY <2>1, <2>2, <2>3, <2>4, <2>6
    <3> QED BY <2>1, <3>1
  <2>7. CASE z = y /\ z < x
    <3>1. more[z] = acc[z] /\ more[z + 1] = acc[z + 1] - wy + wx /\ Weight(b[z]) = wx
      BY <2>1, <2>2, <2>4, <2>7
    <3> QED BY <1>3, <2>1, <2>3, <2>7, <3>1
  <2>8. CASE y < z /\ z < x
    <3>1. /\ more[z] = acc[z] - wy + wx /\ more[z + 1] = acc[z + 1] - wy + wx
          /\ Weight(b[z]) = Weight(a[z])
      BY <2>1, <2>2, <2>4, <2>8
    <3> QED BY <1>3, <2>1, <3>1
  <2>9. CASE y < z /\ z = x
    <3>1. more[z] = acc[z] - wy + wx /\ more[z + 1] = acc[z + 1] /\ Weight(b[z]) = wy
      BY <2>1, <2>2, <2>4, <2>9
    <3> QED BY <1>3, <2>1, <2>3, <2>9, <3>1
  <2> QED BY <2>4, <2>5, <2>6, <2>7, <2>8, <2>9
<1>9. more[0] = 0 /\ more[len] = acc[len]
  BY <1>0, <1>1, <1>6
<1>10. Adding(more, b, len)
  BY <1>7, <1>8, <1>9 DEF Adding
<1> QED BY <1>9, <1>10 DEF b, len

LEMMA AgreeingKept ==
  ASSUME NEW a, NEW l, Agreeing(a, l), nodes' = nodes
  PROVE  Agreeing(a, l)'
BY DEF Agreeing, Adding

LEMMA Sums ==
  ASSUME BenchTyped, NEW a, NEW l, Agreeing(a, l)
  PROVE  /\ a[0] = 0 /\ l[0] = 0 /\ a[LIST_N] \in Int /\ l[LIST_N] = a[LIST_N]
         /\ \A x \in Index : /\ a[x] \in Int /\ l[x] \in Int
                             /\ Weight(x) \in Int /\ Weight(nodes[x]) \in Int
                             /\ a[x + 1] = a[x] + Weight(x)
                             /\ l[x + 1] = l[x] + Weight(nodes[x])
<1> USE BenchAssumption
<1>1. /\ a \in [0 .. LIST_N -> Int] /\ a[0] = 0
      /\ l \in [0 .. LIST_N -> Int] /\ l[0] = 0 /\ a[LIST_N] = l[LIST_N]
      /\ \A x \in Index : a[x + 1] = a[x] + Weight(Straight[x])
      /\ \A x \in Index : l[x + 1] = l[x] + Weight(nodes[x])
  BY DEF Agreeing, Adding, Index
<1>2. \A x \in Index : /\ Straight[x] = x /\ nodes[x] \in Index
                       /\ x \in 0 .. LIST_N /\ x \in Nat
  BY DEF Straight, BenchTyped, Index
<1>3. \A x \in Index : Weight(x) \in Int
  BY <1>2, WeightType
<1>4. \A x \in Index : a[x] \in Int /\ l[x] \in Int
  BY <1>1, <1>2
<1>5. a[LIST_N] \in Int
  BY <1>1
<1> QED BY <1>1, <1>2, <1>3, <1>4, <1>5

-----------------------------------------------------------------------------
(* The list: each loop keeps the invariant *)

LEMMA AllocArraysStep ==
  ASSUME BenchInv, AllocArrays
  PROVE  BenchInv'
<1> USE BenchAssumption DEF BenchInv
<1>1. BenchTyped'
  BY DEF AllocArrays, BenchTyped, xmalloc, Enter, lists, sums, Loops
<1>2. Turns'
  BY DEF AllocArrays, BenchTyped, Turns, xmalloc, Enter, lists, sums, Strung
<1>3. Shuffled'
  BY DEF AllocArrays, Shuffled, xmalloc, Enter, lists, sums
<1>4. Linking'
  BY DEF AllocArrays, Linking, Strung, xmalloc, Enter, lists, sums
<1>5. Walking'
  BY DEF AllocArrays, Walking, xmalloc, Enter, lists, sums
<1>6. Holding'
  BY DEF AllocArrays, Holding, Walks, Strung, xmalloc, Enter, lists, sums, Turns
<1>7. Summing'
  <2>1. Adding([x \in {0} |-> 0], Straight, 0)
    BY DEF Adding
  <2>2. Turns /\ at = "blocks" /\ at' \in {"alloc", "exit"} /\ (at' = "alloc" => turn' = 0)
    BY DEF AllocArrays, xmalloc, Enter
  <2>3. at' = "alloc" => \E acc : Adding(acc, Straight, turn')
    BY <2>1, <2>2
  <2>4. (\E acc : Adding(acc, Straight, turn)') <=> \E acc : Adding(acc, Straight, turn')
    BY DEF Adding
  <2> QED BY <2>2, <2>3, <2>4 DEF AllocArrays, xmalloc, Summing, Walks, Strung, lists
<1>8. Crossing'
  BY DEF AllocArrays, Crossing, Walks, Strung, xmalloc, Enter, lists, sums
<1> QED BY <1>1, <1>2, <1>3, <1>4, <1>5, <1>6, <1>7, <1>8

LEMMA AllocNodeStep ==
  ASSUME BenchInv, AllocNode
  PROVE  BenchInv'
<1> USE BenchAssumption DEF BenchInv
<1>1. BenchTyped'
  <2>1. turn \in Index
    BY DEF AllocNode, BenchTyped, Index
  <2> QED BY <2>1 DEF AllocNode, xmalloc, BenchTyped, Loops, lists, sums
<1>2. Turns'
  BY DEF AllocNode, BenchTyped, Turns, xmalloc, lists, sums, Strung
<1>3. Shuffled'
  <2>1. turn \in Index /\ nodes[turn] = turn
    BY DEF AllocNode, BenchTyped, Shuffled, Index
  <2>2. [nodes EXCEPT ![turn] = turn] = nodes
    BY <2>1 DEF BenchTyped
  <2>3. nodes' = nodes
    BY <2>2 DEF AllocNode, xmalloc, lists
  <2> QED BY <2>3 DEF AllocNode, xmalloc, Shuffled
<1>4. Linking'
  BY DEF AllocNode, Linking, Strung, xmalloc, lists, sums
<1>5. Walking'
  BY DEF AllocNode, Walking, xmalloc, lists, sums
<1>6. Holding'
  <2>1. held = Arrays \cup 0 .. turn - 1 /\ turn \in Nat
    BY DEF AllocNode, BenchTyped, Holding
  <2>2. CASE at' = "alloc"
    <3>1. held' = held \cup {turn} /\ turn' = turn + 1
      BY <2>2 DEF AllocNode, xmalloc
    <3>2. 0 .. turn = (0 .. turn - 1) \cup {turn}
      BY <2>1
    <3>3. held' = Arrays \cup 0 .. turn' - 1
      BY <2>1, <3>1, <3>2
    <3> QED BY <2>2, <3>3 DEF Holding, Walks, Strung, Arrays
  <2>3. CASE at' = "exit"
    BY <2>3 DEF Holding, Walks, Strung
  <2> QED BY <2>2, <2>3 DEF AllocNode, xmalloc
<1>7. Summing'
  <2>1. turn \in Nat /\ turn \in Index /\ Straight[turn] = turn
    BY DEF AllocNode, BenchTyped, Index, Straight
  <2>2. Weight(Straight[turn]) \in Int
    BY <2>1, WeightType
  <2>3. \E acc : Adding(acc, Straight, turn + 1)
    BY <2>1, <2>2, AddsOne DEF AllocNode, Summing
  <2>4. at' = "alloc" => \E acc : Adding(acc, Straight, turn')
    BY <2>3 DEF AllocNode, xmalloc
  <2>5. (\E acc : Adding(acc, Straight, turn)') <=> \E acc : Adding(acc, Straight, turn')
    BY DEF Adding
  <2>6. at' \in {"alloc", "exit"} /\ warm' = warm /\ sum_arr' = sum_arr /\ sum_list' = sum_list
    BY DEF AllocNode, xmalloc, lists
  <2> QED BY <2>4, <2>5, <2>6 DEF AllocNode, Summing, Walks, Strung
<1>8. Crossing'
  BY DEF AllocNode, Crossing, Walks, Strung, xmalloc, lists, sums
<1> QED BY <1>1, <1>2, <1>3, <1>4, <1>5, <1>6, <1>7, <1>8

LEMMA AllocEndStep ==
  ASSUME BenchInv, AllocEnd
  PROVE  BenchInv'
<1> USE BenchAssumption DEF BenchInv
<1>1. BenchTyped'
  BY DEF AllocEnd, BenchTyped, lists, sums, Loops
<1>2. Turns'
  BY DEF AllocEnd, BenchTyped, Turns, lists, sums, Strung
<1>3. Shuffled'
  BY DEF AllocEnd, Shuffled, lists, sums
<1>4. Linking'
  BY DEF AllocEnd, Linking, Strung, lists, sums
<1>5. Walking'
  BY DEF AllocEnd, Walking, lists, sums
<1>6. Holding'
  BY DEF AllocEnd, Holding, Walks, Strung, lists, sums, Index
<1>7. Summing'
  <2>1. PICK acc : Adding(acc, Straight, LIST_N)
    BY DEF AllocEnd, Summing
  <2>2. nodes = Straight /\ nodes' = nodes
    BY DEF AllocEnd, BenchTyped, Shuffled, Straight, lists
  <2>3. Agreeing(acc, acc)
    BY <2>1, <2>2 DEF Agreeing
  <2>4. Agreeing(acc, acc)'
    BY <2>2, <2>3, AgreeingKept
  <2>5. Progress(acc, acc)'
    BY DEF AllocEnd, Summing, Progress, lists
  <2> QED BY <2>4, <2>5 DEF AllocEnd, Summing, Walks, Strung
<1>8. Crossing'
  BY DEF AllocEnd, Crossing, Walks, Strung, lists, sums
<1> QED BY <1>1, <1>2, <1>3, <1>4, <1>5, <1>6, <1>7, <1>8

LEMMA ShuffleStep ==
  ASSUME BenchInv, Shuffle
  PROVE  BenchInv'
<1> USE BenchAssumption DEF BenchInv
<1>a. at = "shuffle" /\ nodes \in [Index -> Index]
  BY DEF Shuffle, BenchTyped
<1>b. turn \in Nat /\ turn < LIST_N
  BY <1>a DEF BenchTyped, Turns
<1>c. turn \in Index /\ 0 .. turn \subseteq Index
  BY <1>b DEF Index
<1>1. BenchTyped'
  <2>1. PICK j \in 0 .. turn : nodes' = [nodes EXCEPT ![turn] = nodes[j], ![j] = nodes[turn]]
    BY DEF Shuffle
  <2>2. turn \in Index /\ j \in Index
    BY <1>c
  <2>3. nodes' \in [Index -> Index]
    BY <1>a, <2>1, <2>2
  <2> QED BY <2>3 DEF Shuffle, BenchTyped, Loops, sums
<1>2. Turns'
  BY DEF Shuffle, BenchTyped, Turns, lists, sums, Strung
<1>3. Shuffled'
  <2>1. PICK j \in 0 .. turn : nodes' = [nodes EXCEPT ![turn] = nodes[j], ![j] = nodes[turn]]
    BY DEF Shuffle
  <2>2. turn \in Index /\ j \in Index /\ nodes \in [Index -> Index]
    BY <1>a, <1>c
  <2>3. \A x \in Index : nodes'[x] = IF x = j THEN nodes[turn]
                                    ELSE IF x = turn THEN nodes[j] ELSE nodes[x]
    BY <2>1, <2>2
  <2>4. \A x, y \in Index : nodes'[x] = nodes'[y] => x = y
    BY <2>2, <2>3 DEF Shuffled
  <2>5. ASSUME NEW z \in Index PROVE \E x \in Index : nodes'[x] = z
    <3>1. PICK x \in Index : nodes[x] = z
      BY DEF Shuffled
    <3> QED BY <2>2, <2>3, <3>1
  <2> QED BY <2>4, <2>5 DEF Shuffle, Shuffled
<1>4. Linking'
  BY DEF Shuffle, Linking, Strung, lists, sums
<1>5. Walking'
  BY DEF Shuffle, Walking, lists, sums
<1>6. Holding'
  BY DEF Shuffle, Holding, Walks, Strung, lists, sums
<1>7. Summing'
  <2>1. PICK a, l : Agreeing(a, l) /\ Progress(a, l)
    BY DEF Shuffle, Summing, Walks
  <2>2. PICK j \in 0 .. turn : nodes' = [nodes EXCEPT ![turn] = nodes[j], ![j] = nodes[turn]]
    BY DEF Shuffle
  <2>3. turn \in Index
    BY DEF Shuffle, BenchTyped, Turns, Index
  <2>4. PICK more : Adding(more, nodes', LIST_N) /\ more[LIST_N] = l[LIST_N]
    <3>1. Adding(l, nodes, LIST_N)
      BY <2>1 DEF Agreeing
    <3> QED BY <2>2, <2>3, <3>1, AddsExchanged
  <2>5. Agreeing(a, more)'
    BY <2>1, <2>4 DEF Agreeing, Adding
  <2>6. Progress(a, more)'
    BY <2>1 DEF Shuffle, Progress
  <2> QED BY <2>5, <2>6 DEF Shuffle, Summing, Walks, Strung
<1>8. Crossing'
  BY DEF Shuffle, Crossing, Walks, Strung, lists, sums
<1> QED BY <1>1, <1>2, <1>3, <1>4, <1>5, <1>6, <1>7, <1>8

LEMMA ShuffleEndStep ==
  ASSUME BenchInv, ShuffleEnd
  PROVE  BenchInv'
<1> USE BenchAssumption DEF BenchInv
<1>1. BenchTyped'
  BY DEF ShuffleEnd, BenchTyped, Enter, lists, sums, Loops
<1>2. Turns'
  BY DEF ShuffleEnd, BenchTyped, Turns, Enter, lists, sums, Strung
<1>3. Shuffled'
  BY DEF ShuffleEnd, Shuffled, Enter, lists, sums
<1>4. Linking'
  BY DEF ShuffleEnd, Linking, Strung, Enter, lists, sums, Index
<1>5. Walking'
  BY DEF ShuffleEnd, Walking, Enter, lists, sums
<1>6. Holding'
  BY DEF ShuffleEnd, Holding, Walks, Strung, Enter, lists, sums
<1>7. Summing'
  <2>1. PICK a, l : Agreeing(a, l) /\ Progress(a, l)
    BY DEF ShuffleEnd, Summing, Walks
  <2>2. Agreeing(a, l)'
    BY <2>1, AgreeingKept DEF ShuffleEnd, lists
  <2>3. Progress(a, l)'
    BY <2>1 DEF ShuffleEnd, Enter, Progress, lists
  <2> QED BY <2>2, <2>3 DEF ShuffleEnd, Enter, Summing, Walks, Strung
<1>8. Crossing'
  BY DEF ShuffleEnd, Crossing, Walks, Strung, Enter, lists, sums
<1> QED BY <1>1, <1>2, <1>3, <1>4, <1>5, <1>6, <1>7, <1>8

LEMMA LinkStep ==
  ASSUME BenchInv, Link
  PROVE  BenchInv'
<1> USE BenchAssumption DEF BenchInv
<1>1. BenchTyped'
  <2>1. turn \in Index /\ nodes[turn] \in Index /\ (turn < LIST_N - 1 => nodes[turn + 1] \in Index)
    BY DEF Link, BenchTyped, Turns, Index
  <2>2. link' \in [Index -> Index \cup {NIL}]
    BY <2>1 DEF Link, BenchTyped
  <2>3. at' \in Loops /\ turn' \in Nat /\ inner' \in Nat /\ nodes' = nodes
    BY DEF Link, Enter, BenchTyped, Loops, sums
  <2> QED BY <2>2, <2>3 DEF BenchTyped
<1>2. Turns'
  BY DEF Link, BenchTyped, Turns, Enter, sums, Strung
<1>3. Shuffled'
  BY DEF Link, Shuffled, Enter, sums
<1>4. Linking'
  <2>1. /\ turn \in Index /\ nodes \in [Index -> Index] /\ nodes' = nodes
        /\ link \in [Index -> Index \cup {NIL}]
    BY DEF Link, BenchTyped, Turns, Index
  <2>2. link' = [link EXCEPT ![nodes[turn]] = Succ(turn)]
    BY DEF Link, Succ
  <2>3. \A x \in Index : Succ(x)' = Succ(x)
    BY <2>1 DEF Succ
  <2>4. \A x \in Index : x < turn => link[nodes[x]] = Succ(x)
    BY DEF Link, Linking
  <2>5. \A x \in Index : x < turn => nodes[x] # nodes[turn]
    <3>1. \A x \in Index : x < turn => x # turn
      BY <2>1 DEF Index
    <3> QED BY <2>1, <3>1 DEF Shuffled
  <2>6. \A x \in Index : x <= turn => x < turn \/ x = turn
    BY <2>1 DEF Index
  <2>7. \A x \in Index : x <= turn => link'[nodes'[x]] = Succ(x)
    BY <2>1, <2>2, <2>4, <2>5, <2>6
  <2>8. CASE turn < LIST_N - 1
    <3>1. at' = "link" /\ turn' = turn + 1
      BY <2>8 DEF Link
    <3>2. \A x \in Index : x < turn' => x <= turn
      BY <2>1, <3>1 DEF Index
    <3> QED BY <2>3, <2>7, <3>1, <3>2 DEF Linking, Strung
  <2>9. CASE ~ (turn < LIST_N - 1)
    <3>1. at' = "warm_arr" /\ \A x \in Index : x <= turn
      BY <2>1, <2>9 DEF Link, Enter, Index
    <3> QED BY <2>3, <2>7, <3>1 DEF Linking, Strung
  <2> QED BY <2>8, <2>9
<1>5. Walking'
  BY DEF Link, Walking, Enter, sums
<1>6. Holding'
  BY DEF Link, Holding, Walks, Strung, Enter, sums
<1>7. Summing'
  <2>1. PICK a, l : Agreeing(a, l) /\ Progress(a, l)
    BY DEF Link, Summing, Walks
  <2>2. Agreeing(a, l)'
    BY <2>1, AgreeingKept DEF Link
  <2>3. Progress(a, l)'
    BY <2>1, Sums DEF Link, Enter, Progress
  <2> QED BY <2>2, <2>3 DEF Link, Enter, Summing, Walks, Strung
<1>8. Crossing'
  BY DEF Link, Crossing, Walks, Strung, Enter, sums
<1> QED BY <1>1, <1>2, <1>3, <1>4, <1>5, <1>6, <1>7, <1>8

LEMMA WarmArrayStep ==
  ASSUME BenchInv, WarmArray
  PROVE  BenchInv'
<1> USE BenchAssumption DEF BenchInv
<1>1. BenchTyped'
  <2>1. at' \in Loops /\ turn' \in Nat /\ inner' \in Nat
    BY DEF WarmArray, ArrayPass, Enter, sums, BenchTyped, Loops
  <2> QED BY <2>1 DEF WarmArray, ArrayPass, BenchTyped
<1>2. Turns'
  BY DEF WarmArray, BenchTyped, Turns, ArrayPass, Enter, sums, Strung
<1>3. Shuffled'
  BY DEF WarmArray, Shuffled, ArrayPass, Enter, sums
<1>4. Linking'
  <2>1. nodes' = nodes /\ link' = link /\ at \in Strung
    BY DEF WarmArray, ArrayPass, Strung
  <2>2. \A x \in Index : Succ(x)' = Succ(x)
    BY <2>1 DEF Succ
  <2> QED BY <2>1, <2>2 DEF Linking, WarmArray, ArrayPass, Strung, Enter
<1>5. Walking'
  BY DEF WarmArray, Walking, ArrayPass, Enter, sums, BenchTyped, Turns, Strung, Index
<1>6. Holding'
  BY DEF WarmArray, Holding, Walks, Strung, ArrayPass, Enter, sums
<1>7. Summing'
  <2>1. PICK a, l : Agreeing(a, l) /\ Progress(a, l)
    BY DEF WarmArray, ArrayPass, Summing, Walks, Strung
  <2>2. Agreeing(a, l)'
    BY <2>1, AgreeingKept DEF WarmArray, ArrayPass
  <2>3. turn \in Index \/ turn = LIST_N
    BY DEF WarmArray, ArrayPass, BenchTyped, Turns, Strung, Index
  <2>4. /\ a[0] = 0 /\ l[0] = 0 /\ a[LIST_N] \in Int
        /\ turn \in Index => a[turn] \in Int /\ Weight(turn) \in Int
                            /\ a[turn + 1] = a[turn] + Weight(turn)
    BY <2>1, Sums
  <2>5. Progress(a, l)'
    <3>1. CASE turn \in Index
      BY <2>1, <2>4, <3>1 DEF WarmArray, ArrayPass, Adds, Progress, Index
    <3>2. CASE turn = LIST_N
      BY <2>1, <2>4, <3>2 DEF WarmArray, ArrayPass, Enter, Adds, Progress
    <3> QED BY <2>3, <3>1, <3>2
  <2> QED BY <2>2, <2>5 DEF WarmArray, ArrayPass, Enter, Summing, Walks, Strung
<1>8. Crossing'
  BY DEF WarmArray, Crossing, Walks, Strung, ArrayPass, Enter, sums
<1> QED BY <1>1, <1>2, <1>3, <1>4, <1>5, <1>6, <1>7, <1>8

LEMMA TimeArrayStep ==
  ASSUME BenchInv, TimeArray
  PROVE  BenchInv'
<1> USE BenchAssumption DEF BenchInv
<1>1. BenchTyped'
  <2>1. at' \in Loops /\ turn' \in Nat /\ inner' \in Nat
    BY DEF TimeArray, ArrayPass, Enter, sums, BenchTyped, Loops
  <2> QED BY <2>1 DEF TimeArray, ArrayPass, BenchTyped
<1>2. Turns'
  BY DEF TimeArray, BenchTyped, Turns, ArrayPass, Enter, sums, Strung
<1>3. Shuffled'
  BY DEF TimeArray, Shuffled, ArrayPass, Enter, sums
<1>4. Linking'
  <2>1. nodes' = nodes /\ link' = link /\ at \in Strung
    BY DEF TimeArray, ArrayPass, Strung
  <2>2. \A x \in Index : Succ(x)' = Succ(x)
    BY <2>1 DEF Succ
  <2> QED BY <2>1, <2>2 DEF Linking, TimeArray, ArrayPass, Strung, Enter
<1>5. Walking'
  BY DEF TimeArray, Walking, ArrayPass, Enter, sums, BenchTyped, Turns, Strung, Index
<1>6. Holding'
  BY DEF TimeArray, Holding, Walks, Strung, ArrayPass, Enter, sums
<1>7. Summing'
  <2>1. PICK a, l : Agreeing(a, l) /\ Progress(a, l)
    BY DEF TimeArray, ArrayPass, Summing, Walks, Strung
  <2>2. Agreeing(a, l)'
    BY <2>1, AgreeingKept DEF TimeArray, ArrayPass
  <2>3. turn \in Index \/ turn = LIST_N
    BY DEF TimeArray, ArrayPass, BenchTyped, Turns, Strung, Index
  <2>4. /\ a[0] = 0 /\ l[0] = 0 /\ a[LIST_N] \in Int
        /\ turn \in Index => a[turn] \in Int /\ Weight(turn) \in Int
                            /\ a[turn + 1] = a[turn] + Weight(turn)
    BY <2>1, Sums
  <2>5. Progress(a, l)'
    <3>1. CASE turn \in Index
      BY <2>1, <2>4, <3>1 DEF TimeArray, ArrayPass, Adds, Progress, Index
    <3>2. CASE turn = LIST_N
      BY <2>1, <2>4, <3>2 DEF TimeArray, ArrayPass, Enter, Adds, Progress
    <3> QED BY <2>3, <3>1, <3>2
  <2> QED BY <2>2, <2>5 DEF TimeArray, ArrayPass, Enter, Summing, Walks, Strung
<1>8. Crossing'
  BY DEF TimeArray, Crossing, Walks, Strung, ArrayPass, Enter, sums
<1> QED BY <1>1, <1>2, <1>3, <1>4, <1>5, <1>6, <1>7, <1>8

LEMMA WarmListStep ==
  ASSUME BenchInv, WarmList
  PROVE  BenchInv'
<1> USE BenchAssumption DEF BenchInv
<1>1. BenchTyped'
  <2>1. ptr # NIL => ptr \in Index
    BY DEF WarmList, ListPass, Walking, BenchTyped, Index
  <2> QED BY <2>1 DEF WarmList, ListPass, Enter, BenchTyped, Loops, sums
<1>2. Turns'
  <2>1. turn < LIST_N \/ ptr = NIL
    BY DEF WarmList, ListPass, Walking
  <2> QED BY <2>1 DEF WarmList, ListPass, Enter, BenchTyped, Turns, Strung
<1>3. Shuffled'
  BY DEF WarmList, Shuffled, ListPass, Enter, sums
<1>4. Linking'
  <2>1. nodes' = nodes /\ link' = link /\ at \in Strung
    BY DEF WarmList, ListPass, Strung
  <2>2. \A x \in Index : Succ(x)' = Succ(x)
    BY <2>1 DEF Succ
  <2> QED BY <2>1, <2>2 DEF Linking, WarmList, ListPass, Strung, Enter
<1>5. Walking'
  <2>1. CASE turn < LIST_N
    <3>1. turn \in Index /\ ptr = nodes[turn] /\ ptr \in Index /\ ptr # NIL
      BY <2>1 DEF WarmList, ListPass, Walking, BenchTyped, Index, NIL
    <3>2. /\ ptr' = Succ(turn) /\ turn' = turn + 1 /\ seen' = seen \cup {ptr}
          /\ at' = at /\ nodes' = nodes
      BY <3>1 DEF WarmList, ListPass, Linking, Strung
    <3>3. ptr' = IF turn' < LIST_N THEN nodes'[turn'] ELSE NIL
      BY <3>1, <3>2 DEF Succ, Index
    <3>4. \A x \in Index : nodes[x] \in seen' <=> x < turn + 1
      BY <3>1, <3>2 DEF WarmList, ListPass, Walking, Shuffled, Index
    <3> QED BY <3>1, <3>2, <3>3, <3>4 DEF WarmList, ListPass, Walking
  <2>2. CASE ~ (turn < LIST_N)
    BY <2>2 DEF WarmList, ListPass, Enter, Walking, NIL
  <2> QED BY <2>1, <2>2
<1>6. Holding'
  BY DEF WarmList, Holding, Walks, Strung, ListPass, Enter, sums, BenchTyped, Index
<1>7. Summing'
  <2>1. PICK a, l : Agreeing(a, l) /\ Progress(a, l)
    BY DEF WarmList, ListPass, Summing, Walks, Strung
  <2>2. Agreeing(a, l)'
    BY <2>1, AgreeingKept DEF WarmList, ListPass
  <2>3. (turn \in Index /\ ptr = nodes[turn] /\ ptr # NIL) \/ (turn = LIST_N /\ ptr = NIL)
    BY DEF WarmList, ListPass, Walking, BenchTyped, Turns, Strung, Index, NIL
  <2>4. Progress(a, l)'
    BY <2>1, <2>3, Sums DEF WarmList, ListPass, Enter, Adds, Progress
  <2> QED BY <2>2, <2>4 DEF WarmList, ListPass, Enter, Summing, Walks, Strung
<1>8. Crossing'
  BY DEF WarmList, Crossing, Walks, Strung, ListPass, Enter, sums
<1> QED BY <1>1, <1>2, <1>3, <1>4, <1>5, <1>6, <1>7, <1>8

LEMMA TimeListStep ==
  ASSUME BenchInv, TimeList
  PROVE  BenchInv'
<1> USE BenchAssumption DEF BenchInv
<1>1. BenchTyped'
  <2>1. ptr # NIL => ptr \in Index
    BY DEF TimeList, ListPass, Walking, BenchTyped, Index
  <2> QED BY <2>1 DEF TimeList, ListPass, Enter, BenchTyped, Loops, sums
<1>2. Turns'
  <2>1. turn < LIST_N \/ ptr = NIL
    BY DEF TimeList, ListPass, Walking
  <2> QED BY <2>1 DEF TimeList, ListPass, Enter, BenchTyped, Turns, Strung
<1>3. Shuffled'
  BY DEF TimeList, Shuffled, ListPass, Enter, sums
<1>4. Linking'
  <2>1. nodes' = nodes /\ link' = link /\ at \in Strung
    BY DEF TimeList, ListPass, Strung
  <2>2. \A x \in Index : Succ(x)' = Succ(x)
    BY <2>1 DEF Succ
  <2> QED BY <2>1, <2>2 DEF Linking, TimeList, ListPass, Strung, Enter
<1>5. Walking'
  <2>1. CASE turn < LIST_N
    <3>1. turn \in Index /\ ptr = nodes[turn] /\ ptr \in Index /\ ptr # NIL
      BY <2>1 DEF TimeList, ListPass, Walking, BenchTyped, Index, NIL
    <3>2. /\ ptr' = Succ(turn) /\ turn' = turn + 1 /\ seen' = seen \cup {ptr}
          /\ at' = at /\ nodes' = nodes
      BY <3>1 DEF TimeList, ListPass, Linking, Strung
    <3>3. ptr' = IF turn' < LIST_N THEN nodes'[turn'] ELSE NIL
      BY <3>1, <3>2 DEF Succ, Index
    <3>4. \A x \in Index : nodes[x] \in seen' <=> x < turn + 1
      BY <3>1, <3>2 DEF TimeList, ListPass, Walking, Shuffled, Index
    <3> QED BY <3>1, <3>2, <3>3, <3>4 DEF TimeList, ListPass, Walking
  <2>2. CASE ~ (turn < LIST_N)
    BY <2>2 DEF TimeList, ListPass, Enter, Walking, NIL
  <2> QED BY <2>1, <2>2
<1>6. Holding'
  BY DEF TimeList, Holding, Walks, Strung, ListPass, Enter, sums, BenchTyped, Index
<1>7. Summing'
  <2>1. PICK a, l : Agreeing(a, l) /\ Progress(a, l)
    BY DEF TimeList, ListPass, Summing, Walks, Strung
  <2>2. Agreeing(a, l)'
    BY <2>1, AgreeingKept DEF TimeList, ListPass
  <2>3. (turn \in Index /\ ptr = nodes[turn] /\ ptr # NIL) \/ (turn = LIST_N /\ ptr = NIL)
    BY DEF TimeList, ListPass, Walking, BenchTyped, Turns, Strung, Index, NIL
  <2>4. Progress(a, l)' /\ (at' = "free" => sum_list' = sum_arr' /\ warm' = 2 * sum_arr')
    BY <2>1, <2>3, Sums DEF TimeList, ListPass, Enter, Adds, Progress
  <2> QED BY <2>2, <2>4 DEF TimeList, ListPass, Enter, Summing, Walks, Strung
<1>8. Crossing'
  BY DEF TimeList, Crossing, Walks, Strung, ListPass, Enter, sums
<1> QED BY <1>1, <1>2, <1>3, <1>4, <1>5, <1>6, <1>7, <1>8

LEMMA FreeNodeStep ==
  ASSUME BenchInv, FreeNode
  PROVE  BenchInv'
<1> USE BenchAssumption DEF BenchInv
<1>1. BenchTyped'
  <2>1. turn \in Index
    BY DEF FreeNode, BenchTyped, Index
  <2>2. nodes[turn] \in held
    BY <2>1 DEF FreeNode, Holding, BenchTyped, Index
  <2> QED BY <2>2 DEF FreeNode, BenchTyped, lists, sums
<1>2. Turns'
  BY DEF FreeNode, BenchTyped, Turns, lists, sums, Strung
<1>3. Shuffled'
  BY DEF FreeNode, Shuffled, lists, sums
<1>4. Linking'
  BY DEF FreeNode, Linking, Strung, lists, sums
<1>5. Walking'
  BY DEF FreeNode, Walking, lists, sums
<1>6. Holding'
  <2>1. turn \in Index
    BY DEF FreeNode, BenchTyped, Index
  <2>2. nodes[turn] \in held
    BY <2>1 DEF FreeNode, Holding, BenchTyped, Index
  <2>3. held' = held \ {nodes[turn]} /\ turn' = turn + 1 /\ at' = "free" /\ nodes' = nodes
    BY <2>2 DEF FreeNode, lists
  <2>4. \A x \in Index : nodes[x] \in held' <=> x >= turn + 1
    BY <2>1, <2>3 DEF FreeNode, Holding, Shuffled, Index
  <2> QED BY <2>3, <2>4 DEF FreeNode, Holding, Walks, Strung
<1>7. Summing'
  BY DEF FreeNode, Summing, Walks, Strung, lists, sums
<1>8. Crossing'
  BY DEF FreeNode, Crossing, Walks, Strung, lists, sums
<1> QED BY <1>1, <1>2, <1>3, <1>4, <1>5, <1>6, <1>7, <1>8

LEMMA FreeArraysStep ==
  ASSUME BenchInv, FreeArrays
  PROVE  BenchInv'
<1> USE BenchAssumption DEF BenchInv
<1>1. BenchTyped'
  BY DEF FreeArrays, BenchTyped, Enter, lists, sums, Loops
<1>2. Turns'
  BY DEF FreeArrays, BenchTyped, Turns, Enter, lists, sums, Strung
<1>3. Shuffled'
  BY DEF FreeArrays, Shuffled, Enter, lists, sums
<1>4. Linking'
  BY DEF FreeArrays, Linking, Strung, Enter, lists, sums
<1>5. Walking'
  BY DEF FreeArrays, Walking, Enter, lists, sums
<1>6. Holding'
  <2>1. \A x \in Index : nodes[x] \notin held
    BY DEF FreeArrays, Holding, Index
  <2>2. held \subseteq Arrays \cup Index /\ \A z \in Index : z \notin held
    BY <2>1 DEF FreeArrays, Holding, Shuffled
  <2>3. held' = {}
    BY <2>2 DEF FreeArrays
  <2> QED BY <2>3 DEF FreeArrays, Enter, Holding, Walks, Strung
<1>7. Summing'
  BY DEF FreeArrays, Summing, Walks, Strung, Enter, lists, sums
<1>8. Crossing'
  BY DEF FreeArrays, Crossing, Walks, Strung, Enter, lists, sums
<1> QED BY <1>1, <1>2, <1>3, <1>4, <1>5, <1>6, <1>7, <1>8

-----------------------------------------------------------------------------
(* The matrix: each loop keeps the invariant *)

LEMMA AllocMatrixStep ==
  ASSUME BenchInv, AllocMatrix
  PROVE  BenchInv'
<1> USE BenchAssumption DEF BenchInv
<1>1. BenchTyped'
  BY DEF AllocMatrix, BenchTyped, xmalloc, Enter, lists, sums, Loops
<1>2. Turns'
  BY DEF AllocMatrix, BenchTyped, Turns, xmalloc, Enter, lists, sums, Strung
<1>3. Shuffled'
  BY DEF AllocMatrix, Shuffled, xmalloc, Enter, lists, sums
<1>4. Linking'
  BY DEF AllocMatrix, Linking, Strung, xmalloc, Enter, lists, sums
<1>5. Walking'
  BY DEF AllocMatrix, Walking, xmalloc, Enter, lists, sums
<1>6. Holding'
  BY DEF AllocMatrix, Holding, Walks, Strung, xmalloc, Enter, lists, sums
<1>7. Summing'
  BY DEF AllocMatrix, Summing, Walks, Strung, xmalloc, Enter, lists, sums
<1>8. Crossing'
  <2>1. CASE at' = "row"
    <3>1. turn' = 0 /\ inner' = 0 /\ seen' = {} /\ sum_row' = 0 /\ sum_col' = 0
      BY <2>1 DEF AllocMatrix, xmalloc, Enter, Crossing
    <3>2. 0 * MAT_N + 0 = 0 /\ 0 .. 0 - 1 = {}
      OBVIOUS
    <3> QED BY <2>1, <3>1, <3>2 DEF Crossing, Walks, Strung
  <2>2. CASE at' = "exit"
    BY <2>2 DEF Crossing, Walks, Strung
  <2> QED BY <2>1, <2>2 DEF AllocMatrix, xmalloc, Enter
<1> QED BY <1>1, <1>2, <1>3, <1>4, <1>5, <1>6, <1>7, <1>8

\* What the row order has met.
LEMMA RowMet ==
  ASSUME Crossing, at = "row"
  PROVE  sum_row = turn * MAT_N + inner /\ seen = 0 .. (turn * MAT_N + inner) - 1
         /\ seen \subseteq Cells
BY DEF Crossing

LEMMA RowPassStep ==
  ASSUME BenchInv, RowPass
  PROVE  BenchInv'
<1> USE BenchAssumption DEF BenchInv
<1>1. BenchTyped'
  BY DEF RowPass, BenchTyped, MatrixPass, Enter, lists, Loops
<1>2. Turns'
  BY DEF RowPass, BenchTyped, Turns, MatrixPass, Enter, lists, Strung
<1>3. Shuffled'
  BY DEF RowPass, Shuffled, MatrixPass, Enter, lists
<1>4. Linking'
  BY DEF RowPass, Linking, Strung, MatrixPass, Enter, lists
<1>5. Walking'
  BY DEF RowPass, Walking, MatrixPass, Enter, lists
<1>6. Holding'
  BY DEF RowPass, Holding, Walks, Strung, MatrixPass, Enter, lists
<1>7. Summing'
  BY DEF RowPass, Summing, Walks, Strung, MatrixPass, Enter, lists
<1>8. Crossing'
  <2>1. CASE turn = MAT_N
    <3>1. /\ at' = "col" /\ turn' = 0 /\ inner' = 0 /\ seen' = {}
          /\ sum_row' = sum_row + 0 /\ sum_col' = 0
      BY <2>1 DEF RowPass, MatrixPass, Enter, Adds, Reading, Crossing
    <3>2. sum_row = MAT_N * MAT_N /\ 0 .. MAT_N * MAT_N - 1 \subseteq Cells
      BY <2>1 DEF RowPass, MatrixPass, Crossing
    <3>3. sum_row' = MAT_N * MAT_N
      BY <3>1, <3>2
    <3>4. sum_col' = turn' * MAT_N + inner'
      BY <3>1
    <3> QED BY <3>1, <3>2, <3>3, <3>4 DEF Crossing, Walks, Strung
  <2>2. CASE turn # MAT_N /\ inner = MAT_N
    <3>1. /\ at' = "row" /\ turn' = turn + 1 /\ inner' = 0 /\ seen' = seen
          /\ sum_row' = sum_row + 0 /\ sum_col' = 0
      BY <2>2 DEF RowPass, MatrixPass, Adds, Reading, Crossing
    <3>2. (turn + 1) * MAT_N + 0 = turn * MAT_N + MAT_N
      BY DEF BenchTyped
    <3> QED BY <2>2, <3>1, <3>2 DEF RowPass, MatrixPass, Crossing, Walks, Strung, BenchTyped
  <2>3. CASE turn # MAT_N /\ inner # MAT_N
    <3> DEFINE cell == turn * MAT_N + inner
    <3>1. turn \in 0 .. MAT_N - 1 /\ inner \in 0 .. MAT_N - 1 /\ cell \in Nat
      BY <2>3 DEF RowPass, MatrixPass, BenchTyped, Turns
    <3>2. /\ at' = "row" /\ turn' = turn /\ inner' = inner + 1 /\ seen' = seen \cup {cell}
          /\ sum_row' = sum_row + 1 /\ sum_col' = 0
      BY <2>3, <3>1 DEF RowPass, MatrixPass, Adds, Reading, CellRead, Crossing
    <3>3. turn' * MAT_N + inner' = cell + 1
      BY <3>1, <3>2
    <3>4. cell \in Cells
      BY <3>1 DEF Cells
    <3>5. sum_row = cell /\ seen = 0 .. cell - 1 /\ seen \subseteq Cells
      BY RowMet DEF RowPass, MatrixPass
    <3> HIDE DEF cell
    <3>6. seen' = 0 .. (cell + 1) - 1
      BY <3>1, <3>2, <3>5
    <3>7. seen' \subseteq Cells /\ sum_row' = cell + 1
      BY <3>2, <3>4, <3>5
    <3>8. sum_row' = turn' * MAT_N + inner' /\ seen' = 0 .. (turn' * MAT_N + inner') - 1
      BY <3>3, <3>6, <3>7, Zenon
    <3>9. at' = "row" /\ turn' # MAT_N /\ sum_col' = 0
      BY <2>3, <3>2
    <3> QED BY <3>7, <3>8, <3>9 DEF Crossing, Walks, Strung, Cells
  <2> QED BY <2>1, <2>2, <2>3
<1> QED BY <1>1, <1>2, <1>3, <1>4, <1>5, <1>6, <1>7, <1>8

LEMMA ColPassStep ==
  ASSUME BenchInv, ColPass
  PROVE  BenchInv'
<1> USE BenchAssumption DEF BenchInv
<1>1. BenchTyped'
  BY DEF ColPass, BenchTyped, MatrixPass, Enter, lists, Loops
<1>2. Turns'
  BY DEF ColPass, BenchTyped, Turns, MatrixPass, Enter, lists, Strung
<1>3. Shuffled'
  BY DEF ColPass, Shuffled, MatrixPass, Enter, lists
<1>4. Linking'
  BY DEF ColPass, Linking, Strung, MatrixPass, Enter, lists
<1>5. Walking'
  BY DEF ColPass, Walking, MatrixPass, Enter, lists
<1>6. Holding'
  BY DEF ColPass, Holding, Walks, Strung, MatrixPass, Enter, lists
<1>7. Summing'
  BY DEF ColPass, Summing, Walks, Strung, MatrixPass, Enter, lists
<1>8. Crossing'
  <2>1. CASE turn = MAT_N
    <3>1. /\ at' = "free_m" /\ sum_row' = sum_row /\ sum_col' = sum_col + 0
      BY <2>1 DEF ColPass, MatrixPass, Enter, Adds, Reading
    <3>2. sum_row = MAT_N * MAT_N /\ sum_col = MAT_N * MAT_N
      BY <2>1 DEF ColPass, MatrixPass, Crossing
    <3> QED BY <3>1, <3>2 DEF Crossing, Walks, Strung
  <2>2. CASE turn # MAT_N /\ inner = MAT_N
    <3>1. /\ at' = "col" /\ turn' = turn + 1 /\ inner' = 0 /\ seen' = seen
          /\ sum_row' = sum_row /\ sum_col' = sum_col + 0
      BY <2>2 DEF ColPass, MatrixPass, Adds, Reading
    <3>2. (turn + 1) * MAT_N + 0 = turn * MAT_N + MAT_N
      BY DEF BenchTyped
    <3>3. sum_col' = turn' * MAT_N + inner'
      BY <2>2, <3>1, <3>2 DEF ColPass, MatrixPass, Crossing, BenchTyped
    <3>4. \A x, y \in 0 .. MAT_N - 1 : x < turn + 1 => x < turn \/ (x = turn /\ y < inner)
      BY <2>2 DEF BenchTyped
    <3>5. \A x, y \in 0 .. MAT_N - 1 : x < turn + 1 => y * MAT_N + x \in seen
      BY <3>4 DEF ColPass, MatrixPass, Crossing
    <3>6. /\ sum_row = MAT_N * MAT_N /\ 0 .. MAT_N * MAT_N - 1 \subseteq Cells
          /\ seen \subseteq 0 .. MAT_N * MAT_N - 1
      BY DEF ColPass, MatrixPass, Crossing
    <3>7. \A x, y \in 0 .. MAT_N - 1 :
            x < turn' \/ (x = turn' /\ y < inner') => x < turn + 1
      BY <3>1
    <3> QED BY <3>1, <3>3, <3>5, <3>6, <3>7 DEF Crossing, Walks, Strung
  <2>3. CASE turn # MAT_N /\ inner # MAT_N
    <3> DEFINE cell(y, x) == y * MAT_N + x
    <3>1. turn \in 0 .. MAT_N - 1 /\ inner \in 0 .. MAT_N - 1
      BY <2>3 DEF ColPass, MatrixPass, BenchTyped, Turns
    <3>2. /\ at' = "col" /\ turn' = turn /\ inner' = inner + 1
          /\ seen' = seen \cup {cell(inner, turn)}
          /\ sum_row' = sum_row /\ sum_col' = sum_col + 1
      BY <2>3, <3>1 DEF ColPass, MatrixPass, Adds, Reading, CellRead
    <3>3. sum_col' = turn' * MAT_N + inner'
      BY <3>1, <3>2 DEF ColPass, MatrixPass, Crossing
    <3>4. cell(inner, turn) \in 0 .. MAT_N * MAT_N - 1
      <4>1. inner * MAT_N <= (MAT_N - 1) * MAT_N
        BY <3>1
      <4>2. (MAT_N - 1) * MAT_N = MAT_N * MAT_N - MAT_N
        OBVIOUS
      <4>3. inner * MAT_N \in Nat /\ MAT_N * MAT_N \in Nat
        BY <3>1
      <4> QED BY <3>1, <4>1, <4>2, <4>3
    <3>5. \A x, y \in 0 .. MAT_N - 1 :
            x < turn \/ (x = turn /\ y < inner) => cell(y, x) \in seen
      BY DEF ColPass, MatrixPass, Crossing
    <3> HIDE DEF cell
    <3>6. \A x, y \in 0 .. MAT_N - 1 :
            x < turn' \/ (x = turn' /\ y < inner') => cell(y, x) \in seen'
      BY <3>1, <3>2, <3>5
    <3>7. seen' \subseteq 0 .. MAT_N * MAT_N - 1
      BY <3>2, <3>4 DEF ColPass, MatrixPass, Crossing
    <3>8. sum_row' = MAT_N * MAT_N /\ 0 .. MAT_N * MAT_N - 1 \subseteq Cells
      BY <3>2 DEF ColPass, MatrixPass, Crossing
    <3> QED BY <2>3, <3>2, <3>3, <3>6, <3>7, <3>8 DEF Crossing, Walks, Strung, cell
  <2> QED BY <2>1, <2>2, <2>3
<1> QED BY <1>1, <1>2, <1>3, <1>4, <1>5, <1>6, <1>7, <1>8

LEMMA FreeMatrixStep ==
  ASSUME BenchInv, FreeMatrix
  PROVE  BenchInv'
<1> USE BenchAssumption DEF BenchInv
<1>1. BenchTyped'
  BY DEF FreeMatrix, BenchTyped, lists, sums, Loops
<1>2. Turns'
  BY DEF FreeMatrix, BenchTyped, Turns, lists, sums, Strung
<1>3. Shuffled'
  BY DEF FreeMatrix, Shuffled, lists, sums
<1>4. Linking'
  BY DEF FreeMatrix, Linking, Strung, lists, sums
<1>5. Walking'
  BY DEF FreeMatrix, Walking, lists, sums
<1>6. Holding'
  BY DEF FreeMatrix, Holding, Walks, Strung, lists, sums
<1>7. Summing'
  BY DEF FreeMatrix, Summing, Walks, Strung, lists, sums
<1>8. Crossing'
  BY DEF FreeMatrix, Crossing, Walks, Strung, lists, sums
<1> QED BY <1>1, <1>2, <1>3, <1>4, <1>5, <1>6, <1>7, <1>8

-----------------------------------------------------------------------------
(* The theorems *)

LEMMA BenchStart == BenchInit => BenchInv
<1> SUFFICES ASSUME BenchInit PROVE BenchInv
  OBVIOUS
<1> USE BenchAssumption DEF BenchInit
<1>1. BenchTyped /\ Turns
  BY DEF BenchTyped, Turns, Loops, Strung, Index, NIL
<1>2. Shuffled /\ Linking /\ Walking
  BY DEF Shuffled, Linking, Strung, Walking
<1>3. Holding /\ Summing /\ Crossing
  BY DEF Holding, Summing, Crossing, Walks, Strung
<1> QED BY <1>1, <1>2, <1>3 DEF BenchInv

LEMMA BenchStep == BenchInv /\ [BenchNext]_benchVars => BenchInv'
<1> SUFFICES ASSUME BenchInv, [BenchNext]_benchVars PROVE BenchInv'
  OBVIOUS
<1>1. CASE UNCHANGED benchVars
  BY <1>1 DEF benchVars, lists, sums, BenchInv, BenchTyped, Turns, Shuffled, Linking, Succ, Walking,
              Holding, Summing, Agreeing, Adding, Progress, Crossing
<1>2. CASE BenchNext
  BY <1>2, AllocArraysStep, AllocNodeStep, AllocEndStep, ShuffleStep, ShuffleEndStep, LinkStep,
     WarmArrayStep, WarmListStep, TimeArrayStep, TimeListStep, FreeNodeStep, FreeArraysStep,
     AllocMatrixStep, RowPassStep, ColPassStep, FreeMatrixStep
  DEF BenchNext
<1> QED BY <1>1, <1>2

LEMMA Walked == BenchInv => WalksAll
<1> SUFFICES ASSUME BenchInv PROVE WalksAll
  OBVIOUS
<1> USE BenchAssumption
<1>1. at # "abort"
  BY DEF BenchInv, BenchTyped, Loops
<1>2. ASSUME at \in {"warm_list", "time_list"}
      PROVE  ptr \notin seen /\ turn <= LIST_N /\ (ptr = NIL => seen = Index)
  <2>1. /\ turn \in Nat /\ turn <= LIST_N /\ seen \subseteq Index
        /\ ptr = IF turn < LIST_N THEN nodes[turn] ELSE NIL
        /\ \A x \in Index : nodes[x] \in seen <=> x < turn
        /\ \A z \in Index : \E x \in Index : nodes[x] = z
        /\ \A x \in Index : nodes[x] \in Index
    BY <1>2 DEF BenchInv, BenchTyped, Turns, Strung, Walking, Shuffled
  <2>2. CASE turn < LIST_N
    <3>1. turn \in Index
      BY <2>1, <2>2 DEF Index
    <3> QED BY <2>1, <2>2, <3>1 DEF Index, NIL
  <2>3. CASE turn = LIST_N
    <3>1. ptr = NIL /\ ptr \notin Index
      BY <2>1, <2>3 DEF Index, NIL
    <3>2. \A x \in Index : x < turn
      BY <2>3 DEF Index
    <3> QED BY <2>1, <3>1, <3>2
  <2> QED BY <2>1, <2>2, <2>3
<1> QED BY <1>1, <1>2 DEF WalksAll

LEMMA WorkedAlike == BenchInv => SameWork
<1> SUFFICES ASSUME BenchInv PROVE SameWork
  OBVIOUS
<1>1. WalksAll
  BY Walked
<1>2. at = "free" => sum_list = sum_arr /\ warm = 2 * sum_arr
  BY DEF BenchInv, Summing
<1>3. ASSUME at = "row", turn = MAT_N PROVE seen = 0 .. MAT_N * MAT_N - 1
  <2>1. seen = 0 .. (turn * MAT_N + inner) - 1 /\ inner = 0
    BY <1>3 DEF BenchInv, Crossing
  <2>2. turn * MAT_N + inner = MAT_N * MAT_N
    BY <1>3, <2>1, BenchAssumption
  <2> QED BY <2>1, <2>2
<1>4. ASSUME at = "col", turn = MAT_N PROVE seen = 0 .. MAT_N * MAT_N - 1
  <2>1. /\ seen \subseteq 0 .. MAT_N * MAT_N - 1 /\ 0 .. MAT_N * MAT_N - 1 \subseteq Cells
        /\ \A x, y \in 0 .. MAT_N - 1 : x < MAT_N => y * MAT_N + x \in seen
    BY <1>4 DEF BenchInv, Crossing
  <2>2. \A x \in 0 .. MAT_N - 1 : x < MAT_N
    BY BenchAssumption
  <2>3. Cells \subseteq seen
    BY <2>1, <2>2 DEF Cells
  <2> QED BY <2>1, <2>3
<1>5. at = "done" => held = {} /\ sum_row = MAT_N * MAT_N /\ sum_col = sum_row
  BY DEF BenchInv, Holding, Crossing
<1> QED BY <1>1, <1>2, <1>3, <1>4, <1>5 DEF SameWork
=============================================================================
