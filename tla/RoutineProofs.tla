--------------------------- MODULE RoutineProofs ---------------------------
(***************************************************************************)
(* The routines of ProperC, for arrays of any length, words of any width   *)
(* and any values and functions: the invariants of ArrayRoutines and of    *)
(* Words.  Each loop has its invariant, named for the routine; the step    *)
(* lemmas keep them one routine at a time, since a call never changes      *)
(* which routine it is a call of.  The theorems are in ProperCProofs.      *)
(*                                                                         *)
(* What the routines on words compute rests on facts about division and    *)
(* powers of two, proved here: 2^k is the number of subsets of 1 .. k, and *)
(* a set of naturals that holds 0 and k + 1 with every k is Nat, for       *)
(* otherwise what is missing would have a least element.                   *)
(***************************************************************************)
EXTENDS ArrayRoutines, Words, FiniteSetTheorems, FunctionTheorems, WellFoundedInduction, TLAPS

-----------------------------------------------------------------------------
(* The call *)

\* What the caller has passed, and that dst stays the array it was.
Called ==
  /\ fn \in PointersFn \cup FuncPtrFn \cup SafetyFn
  /\ n \in Nat /\ n <= SizeMax /\ src \in Array(n)
  /\ \E cap \in 0 .. SizeMax :
       /\ old \in Array(cap) /\ dst \in Array(cap)
       /\ IF fn \in SafetyFn THEN arg \in 0 .. cap ELSE cap = n
  /\ fn = "swap_int" => n = 2
  /\ fn = "int_map" => f \in [Value -> Value]
  /\ fn = "int_filter" => f \in SUBSET Value
  /\ fn = "int_reduce" => f \in [Value -> [Value -> Value]] /\ arg \in Value
  /\ fn = "sort_ints" => f \in Comparator
  /\ fn \in {"safe_strcpy", "safe_strcat"} => IsString(src)
  /\ fn = "safe_strcat" => IsString(old)

Fresh == i = 0 /\ j = 0 /\ ret = 0 /\ dst = old

-----------------------------------------------------------------------------
(* The loops *)

SwapInv == pc \in {"entry", "ret"} /\ (pc = "entry" => Fresh)

ReverseInv ==
  /\ pc \in {"entry", "swap", "ret"}
  /\ pc = "entry" => Fresh
  /\ pc = "swap" => /\ i \in Nat /\ j \in Int /\ i + j = n - 1 /\ j >= i - 1
                    /\ \A k \in Cell(n) : dst[k] = IF k < i \/ k > j THEN old[n - 1 - k]
                                                                     ELSE old[k]
  /\ pc = "ret" => \A k \in Cell(n) : dst[k] = old[n - 1 - k]

MemcpyInv ==
  /\ pc \in {"entry", "ret"}
  /\ i \in 0 .. n
  /\ \A k \in Cell(i) : dst[k] = src[k]
  /\ pc = "ret" => i = n

StubInv == pc \in {"entry", "ret"}

MapInv ==
  /\ pc \in {"entry", "ret"}
  /\ i \in 0 .. n
  /\ \A k \in Cell(n) : dst[k] = IF k < i THEN f[old[k]] ELSE old[k]
  /\ pc = "ret" => i = n

FilterInv ==
  /\ pc \in {"entry", "ret"}
  /\ i \in 0 .. n /\ j \in 0 .. i
  /\ Selected(dst, j, src, i, f)
  /\ \A k \in j .. n - 1 : dst[k] = old[k]
  /\ pc = "ret" => i = n /\ ret = j

ReduceInv ==
  /\ pc \in {"entry", "fold", "ret"}
  /\ i \in 0 .. n
  /\ pc = "entry" => i = 0
  /\ pc # "entry" => ret \in Value /\ FoldGives(ret, f, arg, src, i)
  /\ pc = "ret" => i = n

\* The cells before i are where they belong; cell i is ahead of those up to j.
Settled == \A p, q \in Cell(n) : p < i /\ p < q => f[dst[p]][dst[q]] <= 0
Leading == \A q \in i + 1 .. j - 1 : f[dst[i]][dst[q]] <= 0

SortInv ==
  /\ pc \in {"entry", "outer", "inner", "ret"}
  /\ i \in Nat /\ j \in Nat
  /\ Permuted(dst, old, n)
  /\ n > 0 => /\ i <= n - 1
              /\ pc = "inner" => i < n - 1 /\ j \in i + 1 .. n
              /\ pc = "ret" => i = n - 1
              /\ UnitValued(f) => Settled /\ (pc = "inner" => Leading)

StrcpyInv ==
  /\ pc \in {"entry", "copy", "ret"}
  /\ pc = "entry" => /\ dst = old /\ i = 0
                     /\ j \in Nat /\ \A m \in 0 .. j - 1 : src[m] # 0
  /\ pc # "entry" => EndsAt(src, j)
  /\ pc = "copy" => /\ arg > 0 /\ i \in 0 .. arg - 1
                    /\ \A k \in DOMAIN dst :
                         dst[k] = IF k >= i THEN old[k] ELSE IF k < j THEN src[k] ELSE 0
  /\ pc = "ret" => /\ ret = j
                   /\ \A k \in DOMAIN dst :
                        dst[k] = IF k >= arg THEN old[k]
                                 ELSE IF k < arg - 1 /\ k < j THEN src[k] ELSE 0

StrcatInv ==
  /\ pc \in {"entry", "cat", "ret", "abort"}
  /\ pc = "abort" => arg = 0
  /\ pc = "entry" => Fresh
  /\ pc \in {"cat", "ret"} => EndsAt(old, j)
  /\ pc = "cat" => /\ i \in Nat /\ i >= j
                   /\ arg > 0 => i <= j \/ i <= arg - 1
                   /\ \A k \in DOMAIN dst :
                        dst[k] = IF k < j \/ k >= i THEN old[k]
                                 ELSE IF k - j < Strlen(src) THEN src[k - j] ELSE 0
  /\ pc = "ret" => /\ arg > 0 /\ ret = Smaller(Strlen(src) + j, arg)
                   /\ \A k \in DOMAIN dst :
                        dst[k] = IF k >= arg THEN old[k]
                                 ELSE IF k = arg - 1 THEN 0
                                 ELSE IF k < j THEN old[k]
                                 ELSE IF k - j < Strlen(src) THEN src[k - j] ELSE 0

CopyNInv ==
  /\ pc \in {"entry", "ret"}
  /\ i \in 0 .. n
  /\ \A k \in DOMAIN dst : dst[k] = IF k < i THEN src[k] ELSE old[k]
  /\ n > arg => i = 0
  /\ pc = "ret" => IF n <= arg THEN ret = 1 /\ i = n ELSE ret = 0

ArraysInv ==
  /\ Called
  /\ fn = "swap_int" => SwapInv
  /\ fn = "reverse_array" => ReverseInv
  /\ fn = "my_memcpy" => MemcpyInv
  /\ fn \in {"my_memmove", "rotate_left"} => StubInv
  /\ fn = "int_map" => MapInv
  /\ fn = "int_filter" => FilterInv
  /\ fn = "int_reduce" => ReduceInv
  /\ fn = "sort_ints" => SortInv
  /\ fn = "safe_strcpy" => StrcpyInv
  /\ fn = "safe_strcat" => StrcatInv
  /\ fn = "copy_n_safe" => CopyNInv

-----------------------------------------------------------------------------
(* The frame *)

LEMMA Keeps ==
  ASSUME Called, UNCHANGED args, dst' \in [DOMAIN dst -> Value]
  PROVE  Called'
<1> USE DEF args
<1>1. PICK cap \in 0 .. SizeMax :
        /\ old \in Array(cap) /\ dst \in Array(cap)
        /\ IF fn \in SafetyFn THEN arg \in 0 .. cap ELSE cap = n
  BY DEF Called
<1>2. dst' \in Array(cap)
  BY <1>1 DEF Array
<1>3. \E c \in 0 .. SizeMax : /\ old' \in Array(c) /\ dst' \in Array(c)
                              /\ IF fn' \in SafetyFn THEN arg' \in 0 .. c ELSE c = n'
  BY <1>1, <1>2 DEF Array, Cell
<1> QED BY <1>3 DEF Called, Array, Cell, IsString, EndsAt

LEMMA Still ==
  ASSUME Called, UNCHANGED args, UNCHANGED dst
  PROVE  Called'
<1>1. dst \in [DOMAIN dst -> Value]
  BY DEF Called, Array
<1> QED BY <1>1, Keeps

LEMMA Shape ==
  ASSUME Called, fn \notin SafetyFn
  PROVE  /\ n \in Nat /\ DOMAIN dst = 0 .. n - 1
         /\ dst \in [0 .. n - 1 -> Value] /\ old \in [0 .. n - 1 -> Value]
         /\ src \in [0 .. n - 1 -> Value]
BY DEF Called, Array, Cell

-----------------------------------------------------------------------------
(* pointers.c *)

LEMMA SwapStep ==
  ASSUME Called, SwapInv, swap_int, UNCHANGED args
  PROVE  Called' /\ SwapInv'
<1>1. fn \notin SafetyFn /\ n = 2
  BY DEF Called, swap_int, SafetyFn
<1>2. pc' = "ret" /\ dst' = [dst EXCEPT ![1] = dst[0]] /\ dst[0] \in Value
  BY <1>1, Shape DEF swap_int, Store
<1>3. dst' \in [DOMAIN dst -> Value]
  BY <1>1, <1>2, Shape
<1> QED BY <1>2, <1>3, Keeps DEF SwapInv

LEMMA ReverseStep ==
  ASSUME Called, ReverseInv, reverse_array, UNCHANGED args
  PROVE  Called' /\ ReverseInv'
<1> USE DEF args
<1>1. /\ n \in Nat /\ DOMAIN dst = 0 .. n - 1
      /\ dst \in [0 .. n - 1 -> Value] /\ old \in [0 .. n - 1 -> Value]
  BY Shape DEF reverse_array, SafetyFn
<1>2. CASE ReverseEntry
  <2>1. CASE n = 0
    BY <1>1, <1>2, <2>1, Still DEF ReverseEntry, Return, ReverseInv, Cell, Fresh
  <2>2. CASE n # 0
    <3>1. i' = 0 /\ j' = n - 1 /\ pc' = "swap" /\ dst' = dst /\ dst = old
      BY <1>2, <2>2 DEF ReverseEntry, ReverseInv, Fresh
    <3> QED BY <1>1, <2>2, <3>1, Still DEF ReverseInv, Cell
  <2> QED BY <2>1, <2>2
<1>3. CASE ReverseSwap
  <2>1. i \in Nat /\ j \in Nat /\ i + j = n - 1 /\ i < j /\ {i, j} \subseteq DOMAIN dst
    BY <1>1, <1>3 DEF ReverseSwap, ReverseInv
  <2>2. /\ dst' = [dst EXCEPT ![i] = dst[j], ![j] = dst[i]] /\ pc' = "swap"
        /\ i' = i + 1 /\ j' = j - 1
    BY <1>3, <2>1 DEF ReverseSwap, Store, Swap
  <2>3. dst' \in [DOMAIN dst -> Value]
    BY <1>1, <2>1, <2>2
  <2>4. \A k \in Cell(n) : dst'[k] = IF k < i' \/ k > j' THEN old[n - 1 - k] ELSE old[k]
    BY <1>1, <1>3, <2>1, <2>2 DEF ReverseSwap, ReverseInv, Cell
  <2>5. Called'
    BY <2>3, Keeps
  <2> QED BY <1>1, <2>1, <2>2, <2>4, <2>5 DEF ReverseInv, Cell
<1>4. CASE ReverseEnd
  <2>1. pc' = "ret" /\ dst' = dst
    BY <1>4 DEF ReverseEnd, Return
  <2>2. i \in Nat /\ j \in Int /\ i + j = n - 1 /\ j >= i - 1 /\ i >= j
    BY <1>4 DEF ReverseEnd, ReverseInv
  <2>3. \A k \in Cell(n) : dst'[k] = old[n - 1 - k]
    <3> SUFFICES ASSUME NEW k \in Cell(n) PROVE dst[k] = old[n - 1 - k]
      BY <2>1
    <3>1. k \in Int /\ (k < i \/ k > j \/ k = n - 1 - k)
      BY <1>1, <2>2 DEF Cell
    <3>2. dst[k] = IF k < i \/ k > j THEN old[n - 1 - k] ELSE old[k]
      BY <1>4 DEF ReverseEnd, ReverseInv
    <3> QED BY <3>1, <3>2
  <2> QED BY <2>1, <2>3, Still DEF ReverseInv
<1> QED BY <1>2, <1>3, <1>4 DEF reverse_array

LEMMA MemcpyStep ==
  ASSUME Called, MemcpyInv, my_memcpy, UNCHANGED args
  PROVE  Called' /\ MemcpyInv'
<1> USE DEF args
<1>1. /\ n \in Nat /\ DOMAIN dst = 0 .. n - 1 /\ dst \in [0 .. n - 1 -> Value]
      /\ src \in [0 .. n - 1 -> Value]
  BY Shape DEF my_memcpy, SafetyFn
<1>2. CASE i < n
  <2>1. dst' = [dst EXCEPT ![i] = src[i]] /\ pc' = "entry" /\ i' = i + 1 /\ i \in 0 .. n - 1
    BY <1>1, <1>2 DEF my_memcpy, MemcpyInv, Store
  <2>2. dst' \in [DOMAIN dst -> Value]
    BY <1>1, <2>1
  <2> QED BY <1>1, <2>1, <2>2, Keeps DEF MemcpyInv, Cell
<1>3. CASE ~(i < n)
  BY <1>1, <1>3, Still DEF my_memcpy, MemcpyInv, Return
<1> QED BY <1>2, <1>3

LEMMA StubStep ==
  ASSUME Called, StubInv, my_memmove \/ rotate_left, UNCHANGED args
  PROVE  Called' /\ StubInv'
BY Still DEF my_memmove, rotate_left, Return, StubInv

-----------------------------------------------------------------------------
(* funcptr.c *)

LEMMA MapStep ==
  ASSUME Called, MapInv, int_map, UNCHANGED args
  PROVE  Called' /\ MapInv'
<1> USE DEF args
<1>1. /\ n \in Nat /\ DOMAIN dst = 0 .. n - 1 /\ dst \in [0 .. n - 1 -> Value]
      /\ f \in [Value -> Value]
  BY Shape DEF int_map, SafetyFn, Called
<1>2. CASE i < n
  <2>1. dst' = [dst EXCEPT ![i] = f[dst[i]]] /\ pc' = "entry" /\ i' = i + 1 /\ i \in 0 .. n - 1
    BY <1>1, <1>2 DEF int_map, MapInv, Store
  <2>2. dst' \in [DOMAIN dst -> Value]
    BY <1>1, <2>1
  <2> QED BY <1>1, <2>1, <2>2, Keeps DEF MapInv, Cell
<1>3. CASE ~(i < n)
  BY <1>1, <1>3, Still DEF int_map, MapInv, Return
<1> QED BY <1>2, <1>3

\* One more cell of b that is not in s, and one that is and is stored.
LEMMA SelectedSkips ==
  ASSUME NEW a, NEW b, NEW s, NEW count \in Nat, NEW len \in Nat,
         Selected(a, count, b, len, s), b[len] \notin s
  PROVE  Selected(a, count, b, len + 1, s)
<1>1. PICK at \in [Cell(count) -> Cell(len)] :
        /\ \A x, y \in Cell(count) : x < y => at[x] < at[y]
        /\ \A x \in Cell(count) : a[x] = b[at[x]]
        /\ \A k \in Cell(len) : b[k] \in s <=> \E x \in Cell(count) : at[x] = k
  BY DEF Selected
<1>2. at \in [Cell(count) -> Cell(len + 1)]
  BY DEF Cell
<1>3. \A k \in Cell(len + 1) : b[k] \in s <=> \E x \in Cell(count) : at[x] = k
  BY <1>1 DEF Cell
<1> QED BY <1>1, <1>2, <1>3 DEF Selected

LEMMA SelectedTakes ==
  ASSUME NEW a, NEW c, NEW b, NEW s, NEW count \in Nat, NEW len \in Nat,
         Selected(a, count, b, len, s), b[len] \in s,
         \A x \in Cell(count) : c[x] = a[x], c[count] = b[len]
  PROVE  Selected(c, count + 1, b, len + 1, s)
<1>1. PICK at \in [Cell(count) -> Cell(len)] :
        /\ \A x, y \in Cell(count) : x < y => at[x] < at[y]
        /\ \A x \in Cell(count) : a[x] = b[at[x]]
        /\ \A k \in Cell(len) : b[k] \in s <=> \E x \in Cell(count) : at[x] = k
  BY DEF Selected
<1> DEFINE more == [x \in Cell(count + 1) |-> IF x = count THEN len ELSE at[x]]
<1>2. more \in [Cell(count + 1) -> Cell(len + 1)]
  BY DEF Cell
<1>3. more[count] = len /\ \A x \in Cell(count) : more[x] = at[x] /\ at[x] \in Cell(len)
  BY DEF Cell
<1>4. Cell(count + 1) = Cell(count) \cup {count} /\ Cell(len + 1) = Cell(len) \cup {len}
  BY DEF Cell
<1> HIDE DEF more
<1>5. \A x, y \in Cell(count + 1) : x < y => more[x] < more[y]
  BY <1>1, <1>3, <1>4 DEF Cell
<1>6. \A x \in Cell(count + 1) : c[x] = b[more[x]]
  BY <1>1, <1>3, <1>4
<1>7. \A k \in Cell(len + 1) : b[k] \in s <=> \E x \in Cell(count + 1) : more[x] = k
  <2>1. \A k \in Cell(len) : b[k] \in s <=> \E x \in Cell(count + 1) : more[x] = k
    BY <1>1, <1>3, <1>4 DEF Cell
  <2>2. b[len] \in s /\ \E x \in Cell(count + 1) : more[x] = len
    BY <1>3, <1>4
  <2> QED BY <2>1, <2>2, <1>4
<1> QED BY <1>2, <1>5, <1>6, <1>7 DEF Selected

LEMMA FilterStepKeeps ==
  ASSUME Called, FilterInv, int_filter, UNCHANGED args
  PROVE  Called' /\ FilterInv'
<1> USE DEF args
<1>1. /\ n \in Nat /\ DOMAIN dst = 0 .. n - 1 /\ dst \in [0 .. n - 1 -> Value]
      /\ src \in [0 .. n - 1 -> Value]
  BY Shape DEF int_filter, SafetyFn
<1>2. i \in Nat /\ j \in Nat /\ i <= n /\ j <= i
  BY <1>1 DEF FilterInv
<1>3. CASE i < n /\ src[i] \in f
  <2>1. dst' = [dst EXCEPT ![j] = src[i]] /\ pc' = "entry" /\ i' = i + 1 /\ j' = j + 1
    BY <1>1, <1>2, <1>3 DEF int_filter, FilterStep, Store
  <2>2. dst' \in [DOMAIN dst -> Value]
    BY <1>1, <1>2, <1>3, <2>1
  <2>3. /\ \A x \in Cell(j) : dst'[x] = dst[x]
        /\ dst'[j] = src[i]
        /\ \A k \in j + 1 .. n - 1 : dst'[k] = dst[k]
    BY <1>1, <1>2, <1>3, <2>1 DEF Cell
  <2>4. Selected(dst', j + 1, src, i + 1, f)
    BY <1>2, <1>3, <2>3, SelectedTakes DEF FilterInv
  <2> QED BY <1>1, <1>2, <1>3, <2>1, <2>2, <2>3, <2>4, Keeps DEF FilterInv
<1>4. CASE i < n /\ src[i] \notin f
  <2>1. UNCHANGED <<dst, pc, j>> /\ i' = i + 1 /\ pc = "entry"
    BY <1>4 DEF int_filter, FilterStep
  <2>2. Selected(dst, j, src, i + 1, f)
    BY <1>2, <1>4, SelectedSkips DEF FilterInv
  <2> QED BY <1>1, <1>2, <1>4, <2>1, <2>2, Still DEF FilterInv
<1>5. CASE ~(i < n)
  BY <1>1, <1>2, <1>5, Still DEF int_filter, FilterInv, Return
<1> QED BY <1>3, <1>4, <1>5

\* A fold over one more cell.
LEMMA FoldGoesOn ==
  ASSUME NEW r \in Value, NEW op \in [Value -> [Value -> Value]], NEW init \in Value, NEW a,
         NEW len \in Nat, FoldGives(r, op, init, a, len), a[len] \in Value
  PROVE  FoldGives(op[r][a[len]], op, init, a, len + 1)
<1>1. PICK acc \in [0 .. len -> Value] :
        /\ acc[0] = init /\ acc[len] = r
        /\ \A k \in Cell(len) : acc[k + 1] = op[acc[k]][a[k]]
  BY DEF FoldGives
<1> DEFINE more == [k \in 0 .. len + 1 |-> IF k = len + 1 THEN op[r][a[len]] ELSE acc[k]]
<1>2. op[r][a[len]] \in Value
  OBVIOUS
<1>3. more \in [0 .. len + 1 -> Value]
  BY <1>2
<1>4. more[len + 1] = op[r][a[len]] /\ \A k \in 0 .. len : more[k] = acc[k]
  OBVIOUS
<1> HIDE DEF more
<1>5. \A k \in Cell(len + 1) : more[k + 1] = op[more[k]][a[k]]
  <2> SUFFICES ASSUME NEW k \in Cell(len + 1) PROVE more[k + 1] = op[more[k]][a[k]]
    OBVIOUS
  <2>1. CASE k = len
    BY <1>1, <1>4, <2>1
  <2>2. CASE k # len
    <3>1. k \in Cell(len) /\ k \in 0 .. len /\ k + 1 \in 0 .. len
      BY <2>2 DEF Cell
    <3> QED BY <1>1, <1>4, <3>1
  <2> QED BY <2>1, <2>2
<1>6. more[0] = init
  BY <1>1, <1>4
<1> QED BY <1>3, <1>4, <1>5, <1>6 DEF FoldGives

LEMMA FoldStarts ==
  ASSUME NEW op, NEW init \in Value, NEW a
  PROVE  FoldGives(init, op, init, a, 0)
<1> DEFINE acc == [k \in 0 .. 0 |-> init]
<1>1. acc \in [0 .. 0 -> Value] /\ acc[0] = init
  OBVIOUS
<1>2. \A k \in Cell(0) : FALSE
  BY DEF Cell
<1> HIDE DEF acc
<1> QED BY <1>1, <1>2 DEF FoldGives

LEMMA ReduceStep ==
  ASSUME Called, ReduceInv, int_reduce, UNCHANGED args
  PROVE  Called' /\ ReduceInv'
<1> USE DEF args
<1>1. /\ n \in Nat /\ src \in [0 .. n - 1 -> Value]
      /\ f \in [Value -> [Value -> Value]] /\ arg \in Value
  BY Shape DEF int_reduce, SafetyFn, Called
<1>d. Called' /\ dst' = dst
  BY Still DEF int_reduce, Return
<1>2. CASE pc = "entry"
  <2>1. ret' = arg /\ pc' = "fold" /\ i' = 0 /\ i = 0
    BY <1>2 DEF int_reduce, ReduceInv
  <2> QED BY <1>1, <1>d, <2>1, FoldStarts DEF ReduceInv
<1>3. CASE pc = "fold" /\ i < n
  <2>1. ret' = f[ret][src[i]] /\ i' = i + 1 /\ pc' = "fold"
    BY <1>1, <1>3 DEF int_reduce, ReduceInv
  <2>2. i \in Nat /\ src[i] \in Value /\ ret \in Value /\ FoldGives(ret, f, arg, src, i)
    BY <1>1, <1>3 DEF ReduceInv
  <2>3. f[ret][src[i]] \in Value /\ FoldGives(f[ret][src[i]], f, arg, src, i + 1)
    BY <1>1, <2>2, FoldGoesOn
  <2> QED BY <1>1, <1>3, <1>d, <2>1, <2>2, <2>3 DEF ReduceInv
<1>4. CASE pc = "fold" /\ ~(i < n)
  BY <1>1, <1>4, <1>d DEF int_reduce, ReduceInv, Return
<1> QED BY <1>2, <1>3, <1>4 DEF int_reduce

\* An exchange of two cells keeps a rearrangement one.
LEMMA SwapPermutes ==
  ASSUME NEW a, NEW b, NEW len \in Nat, DOMAIN a = Cell(len), Permuted(a, b, len),
         NEW x \in Cell(len), NEW y \in Cell(len)
  PROVE  Permuted(Swap(a, x, y), b, len)
<1>1. PICK pi \in [Cell(len) -> Cell(len)] :
        /\ \A p, q \in Cell(len) : p # q => pi[p] # pi[q]
        /\ \A k \in Cell(len) : a[k] = b[pi[k]]
  BY DEF Permuted
<1> DEFINE tau == [k \in Cell(len) |-> IF k = x THEN pi[y] ELSE IF k = y THEN pi[x] ELSE pi[k]]
<1>2. tau \in [Cell(len) -> Cell(len)]
  OBVIOUS
<1>3. \A k \in Cell(len) : tau[k] = IF k = x THEN pi[y] ELSE IF k = y THEN pi[x] ELSE pi[k]
  OBVIOUS
<1>4. \A k \in Cell(len) : Swap(a, x, y)[k] = IF k = x THEN a[y] ELSE IF k = y THEN a[x] ELSE a[k]
  BY DEF Swap
<1> HIDE DEF tau
<1>5. \A p, q \in Cell(len) : p # q => tau[p] # tau[q]
  BY <1>1, <1>3
<1>6. \A k \in Cell(len) : Swap(a, x, y)[k] = b[tau[k]]
  BY <1>1, <1>3, <1>4
<1> QED BY <1>2, <1>5, <1>6 DEF Permuted

LEMMA SamePermutes ==
  ASSUME NEW a, NEW len
  PROVE  Permuted(a, a, len)
<1> DEFINE id == [k \in Cell(len) |-> k]
<1>1. id \in [Cell(len) -> Cell(len)] /\ \A k \in Cell(len) : id[k] = k
  OBVIOUS
<1> HIDE DEF id
<1> QED BY <1>1 DEF Permuted

LEMMA Compares ==
  ASSUME NEW c \in Comparator, NEW x \in Value, NEW y \in Value
  PROVE  /\ c[x][y] \in Int
         /\ c[x][y] > 0 <=> c[y][x] < 0
         /\ \A z \in Value : c[x][y] <= 0 /\ c[y][z] <= 0 => c[x][z] <= 0
BY FunctionAssumption, ComparatorAssumption

\* The cells of a sorting call, one pass of the inner loop long.
Passing == /\ n \in Nat /\ i \in Nat /\ j \in Nat /\ i < n - 1 /\ i < j /\ j < n
           /\ dst \in [0 .. n - 1 -> Value] /\ f \in Comparator

\* The inner loop, comparing: cell i is ahead of cell j too, once they are exchanged
\* if need be, and what is settled stays so.
LEMMA ExchangeKeepsOrder ==
  ASSUME Passing, Settled, Leading, f[dst[i]][dst[j]] > 0,
         NEW new, new = Swap(dst, i, j)
  PROVE  /\ \A p, q \in Cell(n) : p < i /\ p < q => f[new[p]][new[q]] <= 0
         /\ \A q \in i + 1 .. j : f[new[i]][new[q]] <= 0
<1> USE DEF Passing
<1>1. /\ \A k \in Cell(n) : new[k] = IF k = i THEN dst[j] ELSE IF k = j THEN dst[i] ELSE dst[k]
      /\ i \in Cell(n) /\ j \in Cell(n)
  BY DEF Swap, Cell
<1>2. \A k \in Cell(n) : dst[k] \in Value
  BY DEF Cell
<1>3. ASSUME NEW p \in Cell(n), NEW q \in Cell(n), p < i, p < q
      PROVE  f[new[p]][new[q]] <= 0
  <2>1. p # i /\ p # j /\ p < j
    BY <1>3 DEF Cell
  <2>2. new[p] = dst[p]
    BY <1>1, <2>1
  <2>3. f[dst[p]][dst[i]] <= 0 /\ f[dst[p]][dst[j]] <= 0 /\ f[dst[p]][dst[q]] <= 0
    BY <1>1, <1>3, <2>1 DEF Settled
  <2> QED BY <1>1, <2>2, <2>3
<1>4. f[dst[j]][dst[i]] <= 0
  <2>1. /\ f[dst[i]][dst[j]] > 0 <=> f[dst[j]][dst[i]] < 0
        /\ f[dst[j]][dst[i]] \in Int
    BY <1>1, <1>2, Compares
  <2> QED BY <2>1
<1>5. ASSUME NEW q \in i + 1 .. j
      PROVE  f[new[i]][new[q]] <= 0
  <2>1. q \in Cell(n) /\ q # i /\ new[i] = dst[j]
    BY <1>1 DEF Cell
  <2>2. CASE q = j
    BY <1>1, <1>4, <2>1, <2>2
  <2>3. CASE q # j
    <3>1. f[dst[i]][dst[q]] <= 0 /\ new[q] = dst[q]
      BY <1>1, <2>1, <2>3 DEF Leading
    <3>2. dst[i] \in Value /\ dst[j] \in Value /\ dst[q] \in Value
      BY <1>1, <1>2, <2>1
    <3> QED BY <1>4, <2>1, <3>1, <3>2, Compares
  <2> QED BY <2>2, <2>3
<1> QED BY <1>3, <1>5

LEMMA SortInnerStep ==
  ASSUME Called, SortInv, fn = "sort_ints", SortInner, UNCHANGED args
  PROVE  Called' /\ SortInv'
<1> USE DEF args
<1>1. /\ n \in Nat /\ DOMAIN dst = Cell(n) /\ dst \in [0 .. n - 1 -> Value]
      /\ f \in Comparator
  BY Shape DEF SafetyFn, Called, Cell
<1>2. /\ pc = "inner" /\ j < n /\ i \in Nat /\ j \in Nat /\ j >= i + 1 /\ i < n - 1 /\ n > 0
      /\ i' = i /\ j' = j + 1
  BY <1>1 DEF SortInner, SortInv
<1>3. i \in Cell(n) /\ j \in Cell(n) /\ dst[i] \in Value /\ dst[j] \in Value
  BY <1>1, <1>2 DEF Cell
<1>4. f[dst[i]][dst[j]] \in Int
  BY <1>1, <1>3, Compares
<1>5. CASE f[dst[i]][dst[j]] = 1
  <2>1. dst' = Swap(dst, i, j) /\ pc' = "inner"
    BY <1>1, <1>3, <1>5 DEF SortInner, Store
  <2>2. dst' \in [DOMAIN dst -> Value]
    BY <1>1, <1>3, <2>1 DEF Swap, Cell
  <2>3. Permuted(dst', old, n)
    BY <1>1, <1>3, <2>1, SwapPermutes DEF SortInv
  <2>4. ASSUME UnitValued(f)
        PROVE  Settled' /\ Leading'
    <3>1. Settled /\ Leading
      BY <1>2, <2>4 DEF SortInv
    <3>2. /\ \A p, q \in Cell(n) : p < i /\ p < q => f[dst'[p]][dst'[q]] <= 0
          /\ \A q \in i + 1 .. j : f[dst'[i]][dst'[q]] <= 0
      BY <1>1, <1>2, <1>5, <2>1, <3>1, ExchangeKeepsOrder DEF Passing
    <3>3. \A q \in i + 1 .. j + 1 - 1 : q \in i + 1 .. j
      BY <1>2
    <3> QED BY <1>2, <3>2, <3>3 DEF Settled, Leading
  <2>5. Called'
    BY <2>2, Keeps
  <2> QED BY <1>1, <1>2, <2>1, <2>3, <2>4, <2>5 DEF SortInv, UnitValued
<1>6. CASE f[dst[i]][dst[j]] # 1
  <2>1. UNCHANGED <<dst, pc>>
    BY <1>6 DEF SortInner
  <2>2. ASSUME UnitValued(f)
        PROVE  Settled' /\ Leading'
    <3>1. Settled /\ Leading
      BY <1>2, <2>2 DEF SortInv
    <3>2. f[dst[i]][dst[j]] <= 0
      BY <1>3, <1>4, <1>6, <2>2 DEF UnitValued
    <3>3. \A q \in i + 1 .. j + 1 - 1 : q = j \/ q \in i + 1 .. j - 1
      BY <1>2
    <3> QED BY <1>2, <2>1, <3>1, <3>2, <3>3 DEF Settled, Leading
  <2>3. Called'
    BY <2>1, Still
  <2> QED BY <1>1, <1>2, <2>1, <2>2, <2>3 DEF SortInv, UnitValued
<1> QED BY <1>5, <1>6

LEMMA SortStep ==
  ASSUME Called, SortInv, sort_ints, UNCHANGED args
  PROVE  Called' /\ SortInv'
<1> USE DEF args
<1>1. n \in Nat /\ n <= SizeMax /\ SizeMax \in Nat /\ fn = "sort_ints"
  BY SizeAssumption DEF Called, sort_ints
<1>2. CASE SortInner
  BY <1>1, <1>2, SortInnerStep
<1>3. CASE SortOuter \/ SortNext
  <2>1. dst' = dst /\ i \in Nat /\ j \in Nat
    BY <1>3 DEF SortOuter, SortNext, Return, SortInv
  <2>2. Called'
    BY <2>1, Still
  <2>3. CASE n = 0
    BY <1>1, <1>3, <2>1, <2>2, <2>3 DEF SortOuter, SortNext, Return, SortInv
  <2>4. CASE n > 0 /\ SortOuter
    <3>1. Pred(n) = n - 1 /\ i <= n - 1
      BY <1>1, <2>4 DEF Pred, SortInv
    <3>2. CASE i < n - 1
      <4>1. i' = i /\ j' = i + 1 /\ pc' = "inner"
        BY <2>4, <3>1, <3>2 DEF SortOuter
      <4>2. Leading'
        BY <2>1, <4>1 DEF Leading
      <4>3. Settled => Settled'
        BY <2>1, <4>1 DEF Settled
      <4> QED BY <1>1, <2>1, <2>2, <2>4, <3>2, <4>1, <4>2, <4>3 DEF SortInv, UnitValued
    <3>3. CASE ~(i < n - 1)
      <4>1. UNCHANGED <<i, j>> /\ pc' = "ret" /\ i = n - 1
        BY <1>1, <2>1, <2>4, <3>1, <3>3 DEF SortOuter, Return
      <4>2. Settled => Settled'
        BY <2>1, <4>1 DEF Settled
      <4> QED BY <1>1, <2>1, <2>2, <2>4, <4>1, <4>2 DEF SortInv, UnitValued
    <3> QED BY <3>2, <3>3
  <2>5. CASE n > 0 /\ SortNext
    <3>1. /\ j = n /\ i < n - 1 /\ i' = i + 1 /\ j' = j /\ pc' = "outer"
      BY <1>1, <2>1, <2>5 DEF SortNext, SortInv
    <3>2. ASSUME UnitValued(f) PROVE Settled'
      <4>1. Settled /\ Leading
        BY <2>5, <3>2 DEF SortInv, SortNext
      <4>2. \A p, q \in Cell(n) : p < i + 1 /\ p < q => p < i \/ (p = i /\ q \in i + 1 .. j - 1)
        BY <1>1, <2>1, <3>1 DEF Cell
      <4> QED BY <2>1, <3>1, <4>1, <4>2 DEF Settled, Leading
    <3> QED BY <1>1, <2>1, <2>2, <2>5, <3>1, <3>2 DEF SortInv, UnitValued
  <2> QED BY <1>1, <1>3, <2>3, <2>4, <2>5
<1> QED BY <1>2, <1>3 DEF sort_ints

-----------------------------------------------------------------------------
(* safety.c *)

\* Where the first NUL is found the string ends, and nowhere else.
LEMMA StrlenIs ==
  ASSUME NEW len \in Nat, NEW a, DOMAIN a = Cell(len), NEW k, EndsAt(a, k)
  PROVE  Strlen(a) = k
<1>1. /\ Strlen(a) \in Cell(len) /\ EndsAt(a, Strlen(a))
      /\ k \in Cell(len)
  BY DEF Strlen, EndsAt
<1>2. ~(Strlen(a) < k) /\ ~(k < Strlen(a))
  BY <1>1 DEF EndsAt, Cell
<1> QED BY <1>1, <1>2 DEF Cell

LEMMA StringEnds ==
  ASSUME NEW len \in Nat, NEW a, DOMAIN a = Cell(len), IsString(a)
  PROVE  Strlen(a) \in Cell(len) /\ EndsAt(a, Strlen(a))
BY DEF IsString, Strlen

LEMMA Buffers ==
  ASSUME Called, fn \in SafetyFn
  PROVE  \E cap \in 0 .. SizeMax :
           /\ DOMAIN dst = 0 .. cap - 1 /\ dst \in [0 .. cap - 1 -> Value]
           /\ DOMAIN old = 0 .. cap - 1
           /\ arg \in 0 .. cap
           /\ n \in Nat /\ DOMAIN src = Cell(n) /\ src \in [0 .. n - 1 -> Value]
BY DEF Called, Array, Cell

LEMMA StrcpyStep ==
  ASSUME Called, StrcpyInv, safe_strcpy, UNCHANGED args
  PROVE  Called' /\ StrcpyInv'
<1> USE DEF args
<1>1. PICK cap \in 0 .. SizeMax :
        /\ DOMAIN dst = 0 .. cap - 1 /\ dst \in [0 .. cap - 1 -> Value]
        /\ arg \in 0 .. cap
        /\ n \in Nat /\ DOMAIN src = Cell(n) /\ src \in [0 .. n - 1 -> Value]
  BY Buffers DEF safe_strcpy, SafetyFn
<1>2. arg \in Nat /\ cap \in Nat /\ arg <= cap
  BY <1>1, SizeAssumption
<1>3. IsString(src) /\ 0 \in Value
  BY ValueAssumption DEF Called, safe_strcpy
<1>4. CASE CopyLength
  <2>1. PICK end \in Cell(n) : EndsAt(src, end)
    BY <1>1, <1>3 DEF IsString
  <2>2. /\ pc = "entry" /\ dst = old /\ i = 0 /\ j \in Nat
        /\ \A m \in 0 .. j - 1 : src[m] # 0
    BY <1>4 DEF CopyLength, StrcpyInv
  <2>3. j \in Cell(n)
    BY <1>1, <2>1, <2>2 DEF EndsAt, Cell
  <2>4. CASE src[j] # 0
    <3>1. j' = j + 1 /\ UNCHANGED <<pc, dst, i>>
      BY <1>1, <1>4, <2>3, <2>4 DEF CopyLength
    <3>2. \A m \in 0 .. j + 1 - 1 : src[m] # 0
      BY <2>2, <2>4
    <3>3. Called'
      BY <3>1, Still
    <3> QED BY <2>2, <3>1, <3>2, <3>3 DEF StrcpyInv
  <2>5. CASE src[j] = 0
    <3>1. EndsAt(src, j) /\ j' = j
      BY <1>1, <1>4, <2>2, <2>3, <2>5 DEF EndsAt, CopyLength, Return, local
    <3>4. EndsAt(src, j)'
      BY <3>1 DEF EndsAt
    <3>2. CASE arg = 0
      <4>1. pc' = "ret" /\ ret' = j /\ UNCHANGED <<dst, i, j>>
        BY <1>1, <1>4, <2>3, <2>5, <3>2 DEF CopyLength, Return
      <4>2. Called'
        BY <4>1, Still
      <4>3. \A k \in DOMAIN dst : k >= arg
        BY <1>1, <3>2
      <4> QED BY <2>2, <3>4, <4>1, <4>2, <4>3 DEF StrcpyInv
    <3>3. CASE arg # 0
      <4>1. pc' = "copy" /\ UNCHANGED <<dst, local>>
        BY <1>1, <1>4, <2>3, <2>5, <3>3 DEF CopyLength
      <4>2. Called'
        BY <4>1, Still
      <4> QED BY <1>1, <1>2, <2>2, <3>3, <3>4, <4>1, <4>2 DEF StrcpyInv, local
    <3> QED BY <3>2, <3>3
  <2> QED BY <2>4, <2>5
<1>5. CASE CopyChar \/ CopyEnd
  <2>1. /\ pc = "copy" /\ arg > 0 /\ i \in Nat /\ i <= arg - 1
        /\ EndsAt(src, j) /\ j \in Cell(n) /\ j \in Nat
        /\ \A k \in DOMAIN dst :
             dst[k] = IF k >= i THEN old[k] ELSE IF k < j THEN src[k] ELSE 0
    BY <1>1, <1>2, <1>5 DEF CopyChar, CopyEnd, StrcpyInv, EndsAt, Cell
  <2>2. CASE CopyChar
    <3>1. /\ dst' = [dst EXCEPT ![i] = IF i < j THEN src[i] ELSE 0]
          /\ pc' = "copy" /\ i' = i + 1 /\ j' = j /\ i < arg - 1
          /\ i \in DOMAIN dst /\ (i < j => i \in 0 .. n - 1)
      BY <1>1, <1>2, <2>1, <2>2 DEF CopyChar, Store, Cell
    <3>2. dst' \in [DOMAIN dst -> Value]
      BY <1>1, <1>3, <3>1
    <3>3. Called'
      BY <3>2, Keeps
    <3>4. \A k \in DOMAIN dst' :
            dst'[k] = IF k >= i + 1 THEN old[k] ELSE IF k < j THEN src[k] ELSE 0
      BY <1>1, <2>1, <3>1
    <3>5. EndsAt(src, j)'
      BY <2>1, <3>1 DEF EndsAt
    <3> QED BY <1>2, <2>1, <3>1, <3>3, <3>4, <3>5 DEF StrcpyInv
  <2>3. CASE CopyEnd
    <3>1. /\ dst' = [dst EXCEPT ![arg - 1] = 0] /\ pc' = "ret" /\ ret' = j /\ j' = j
          /\ i = arg - 1
          /\ arg - 1 \in DOMAIN dst
      BY <1>1, <1>2, <2>1, <2>3 DEF CopyEnd, Store
    <3>2. dst' \in [DOMAIN dst -> Value]
      BY <1>1, <1>3, <3>1
    <3>3. Called'
      BY <3>2, Keeps
    <3>4. \A k \in DOMAIN dst' :
            dst'[k] = IF k >= arg THEN old[k]
                      ELSE IF k < arg - 1 /\ k < j THEN src[k] ELSE 0
      BY <1>1, <1>2, <2>1, <3>1
    <3>5. EndsAt(src, j)'
      BY <2>1, <3>1 DEF EndsAt
    <3> QED BY <3>1, <3>3, <3>4, <3>5 DEF StrcpyInv
  <2> QED BY <1>5, <2>2, <2>3
<1> QED BY <1>4, <1>5 DEF safe_strcpy

LEMMA StrcatStep ==
  ASSUME Called, StrcatInv, safe_strcat, UNCHANGED args
  PROVE  Called' /\ StrcatInv'
<1> USE DEF args
<1>1. PICK cap \in 0 .. SizeMax :
        /\ DOMAIN dst = 0 .. cap - 1 /\ dst \in [0 .. cap - 1 -> Value]
        /\ DOMAIN old = 0 .. cap - 1
        /\ arg \in 0 .. cap
        /\ n \in Nat /\ DOMAIN src = Cell(n) /\ src \in [0 .. n - 1 -> Value]
  BY Buffers DEF safe_strcat, SafetyFn
<1>2. arg \in Nat /\ cap \in Nat /\ arg <= cap /\ cap <= SizeMax /\ SizeMax \in Nat
  BY <1>1, SizeAssumption
<1>3. IsString(src) /\ IsString(old) /\ 0 \in Value
  BY ValueAssumption DEF Called, safe_strcat
<1>4. Strlen(src) \in Cell(n) /\ Strlen(src)' = Strlen(src)
  BY <1>1, <1>3, StringEnds
<1>5. Pred(arg) = IF arg = 0 THEN SizeMax ELSE arg - 1
  BY DEF Pred
<1>6. CASE CatEntry
  <2>1. dst = old /\ j' = Strlen(old) /\ i' = j' /\ pc' = "cat" /\ dst' = dst
    BY <1>6 DEF CatEntry, StrcatInv, Fresh
  <2>2. Strlen(old) \in Cell(cap) /\ EndsAt(old, Strlen(old))
    BY <1>1, <1>2, <1>3, StringEnds DEF Cell
  <2>3. Called' /\ i' \in Nat /\ EndsAt(old, j)'
    BY <2>1, <2>2, Still DEF Cell, EndsAt
  <2> QED BY <1>1, <1>2, <2>1, <2>2, <2>3 DEF StrcatInv, Cell
<1>7. CASE CatChar \/ CatEnd
  <2>1. /\ pc = "cat" /\ EndsAt(old, j) /\ j \in Nat
        /\ i \in Nat /\ i >= j
        /\ arg > 0 => i <= j \/ i <= arg - 1
        /\ \A k \in DOMAIN dst :
             dst[k] = IF k < j \/ k >= i THEN old[k]
                      ELSE IF k - j < Strlen(src) THEN src[k - j] ELSE 0
    BY <1>1, <1>7 DEF CatChar, CatEnd, StrcatInv, EndsAt
  <2>2. j' = j
    BY <1>7 DEF CatChar, CatEnd
  <2>3. EndsAt(old, j)'
    BY <2>1, <2>2 DEF EndsAt
  <2>4. CASE CatChar /\ i \in DOMAIN dst
    <3>1. /\ dst' = [dst EXCEPT ![i] = IF i - j < Strlen(src) THEN src[i - j] ELSE 0]
          /\ pc' = "cat" /\ i' = i + 1 /\ i < Pred(arg)
          /\ i - j < Strlen(src) => i - j \in 0 .. n - 1
      BY <1>1, <1>4, <2>1, <2>4 DEF CatChar, Store, Cell
    <3>2. dst' \in [DOMAIN dst -> Value]
      BY <1>1, <1>3, <2>4, <3>1
    <3>3. Called'
      BY <3>2, Keeps
    <3>4. \A k \in DOMAIN dst' :
            dst'[k] = IF k < j \/ k >= i + 1 THEN old[k]
                      ELSE IF k - j < Strlen(src) THEN src[k - j] ELSE 0
      <4> SUFFICES ASSUME NEW k \in DOMAIN dst
                   PROVE  dst'[k] = IF k < j \/ k >= i + 1 THEN old[k]
                                    ELSE IF k - j < Strlen(src) THEN src[k - j] ELSE 0
        BY <1>1, <3>1
      <4>1. CASE k = i
        BY <2>1, <2>4, <3>1, <4>1
      <4>2. CASE k # i
        <5>1. dst'[k] = dst[k] /\ (k >= i + 1 <=> k >= i)
          BY <1>1, <2>1, <3>1, <4>2
        <5> QED BY <2>1, <5>1
      <4> QED BY <4>1, <4>2
    <3>5. arg > 0 => i + 1 <= arg - 1
      BY <1>2, <1>5, <2>1, <3>1
    <3> QED BY <1>4, <2>1, <2>2, <2>3, <3>1, <3>3, <3>4, <3>5 DEF StrcatInv
  <2>5. CASE CatChar /\ i \notin DOMAIN dst
    <3>1. dst' = dst /\ pc' = "abort" /\ i < Pred(arg)
      BY <2>5 DEF CatChar, Store
    <3>2. arg = 0
      BY <1>1, <1>2, <1>5, <2>1, <2>5, <3>1
    <3> QED BY <3>1, <3>2, Still DEF StrcatInv
  <2>6. CASE CatEnd /\ arg = 0
    <3>1. Pred(arg) \notin DOMAIN dst
      BY <1>1, <1>2, <1>5, <2>6
    <3>2. dst' = dst /\ pc' = "abort"
      BY <2>6, <3>1 DEF CatEnd, Store
    <3> QED BY <2>6, <3>2, Still DEF StrcatInv
  <2>7. CASE CatEnd /\ arg > 0
    <3>1. /\ dst' = [dst EXCEPT ![arg - 1] = 0] /\ pc' = "ret"
          /\ arg - 1 \in DOMAIN dst /\ i >= arg - 1
      BY <1>1, <1>2, <1>5, <2>7 DEF CatEnd, Store
    <3>2. dst' \in [DOMAIN dst -> Value]
      BY <1>1, <1>3, <3>1
    <3>3. Called'
      BY <3>2, Keeps
    <3>4. \A k \in DOMAIN dst' :
            dst'[k] = IF k >= arg THEN old[k]
                      ELSE IF k = arg - 1 THEN 0
                      ELSE IF k < j THEN old[k]
                      ELSE IF k - j < Strlen(src) THEN src[k - j] ELSE 0
      BY <1>1, <1>2, <2>1, <2>7, <3>1
    <3>5. ret' = Smaller(Strlen(src') + j', arg')
      <4>1. ret' = Smaller(Strlen(src) + j, arg)
        BY <2>7 DEF CatEnd
      <4> QED BY <1>4, <2>2, <4>1
    <3> QED BY <1>4, <2>2, <2>3, <2>7, <3>1, <3>3, <3>4, <3>5 DEF StrcatInv
  <2> QED BY <1>2, <1>7, <2>4, <2>5, <2>6, <2>7
<1> QED BY <1>6, <1>7 DEF safe_strcat

LEMMA CopyNStep ==
  ASSUME Called, CopyNInv, copy_n_safe, UNCHANGED args
  PROVE  Called' /\ CopyNInv'
<1> USE DEF args
<1>1. PICK cap \in 0 .. SizeMax :
        /\ DOMAIN dst = 0 .. cap - 1 /\ dst \in [0 .. cap - 1 -> Value]
        /\ arg \in 0 .. cap
        /\ n \in Nat /\ DOMAIN src = Cell(n) /\ src \in [0 .. n - 1 -> Value]
  BY Buffers DEF copy_n_safe, SafetyFn
<1>2. arg \in Nat /\ cap \in Nat /\ arg <= cap
  BY <1>1, SizeAssumption
<1>3. CASE n <= arg /\ i < n
  <2>1. /\ dst' = [dst EXCEPT ![i] = src[i]] /\ pc' = "entry" /\ i' = i + 1
        /\ i \in DOMAIN dst /\ i \in 0 .. n - 1
    BY <1>1, <1>2, <1>3 DEF copy_n_safe, CopyNInv, Store, Cell
  <2>2. dst' \in [DOMAIN dst -> Value]
    BY <1>1, <2>1
  <2>3. Called'
    BY <2>2, Keeps
  <2>4. \A k \in DOMAIN dst' : dst'[k] = IF k < i + 1 THEN src[k] ELSE old[k]
    BY <1>1, <2>1 DEF CopyNInv
  <2> QED BY <1>1, <1>2, <1>3, <2>1, <2>3, <2>4 DEF CopyNInv
<1>4. CASE ~(n <= arg /\ i < n)
  <2>1. pc' = "ret" /\ UNCHANGED <<dst, i>> /\ ret' = IF n > arg THEN 0 ELSE 1
    BY <1>1, <1>2, <1>4 DEF copy_n_safe, Return
  <2>2. Called'
    BY <2>1, Still
  <2> QED BY <1>1, <1>2, <1>4, <2>1, <2>2 DEF CopyNInv
<1> QED BY <1>3, <1>4

-----------------------------------------------------------------------------
(* The invariant *)

LEMMA PointersStart == PointersInit => ArraysInv
<1> SUFFICES ASSUME PointersInit PROVE ArraysInv
  OBVIOUS
<1> USE DEF PointersInit, Call
<1>1. n \in 0 .. SizeMax /\ n \in Nat /\ old = dst /\ dst \in Array(n)
  BY SizeAssumption
<1>2. Called
  BY <1>1 DEF Called, PointersFn, FuncPtrFn, SafetyFn
<1>3. SwapInv /\ ReverseInv /\ StubInv
  BY DEF SwapInv, ReverseInv, StubInv, Fresh
<1>4. MemcpyInv
  BY <1>1 DEF MemcpyInv, Cell
<1> QED BY <1>2, <1>3, <1>4 DEF ArraysInv, PointersFn

LEMMA FuncPtrStart == FuncPtrInit => ArraysInv
<1> SUFFICES ASSUME FuncPtrInit PROVE ArraysInv
  OBVIOUS
<1>1. /\ n \in 0 .. SizeMax /\ n \in Nat /\ old = dst /\ dst \in Array(n) /\ src \in Array(n)
      /\ fn \in FuncPtrFn /\ pc = "entry" /\ i = 0 /\ j = 0 /\ ret = 0
  BY SizeAssumption DEF FuncPtrInit, Call
<1>2. /\ fn = "int_map" => f \in [Value -> Value]
      /\ fn = "int_filter" => f \in SUBSET Value
      /\ fn = "int_reduce" => f \in [Value -> [Value -> Value]] /\ arg \in Value
      /\ fn = "sort_ints" => f \in Comparator
  BY FunctionAssumption DEF FuncPtrInit
<1>3. Called
  BY <1>1, <1>2 DEF Called, PointersFn, FuncPtrFn, SafetyFn
<1>4. MapInv /\ ReduceInv
  BY <1>1 DEF MapInv, ReduceInv, Cell
<1>5. FilterInv
  <2>1. Cell(0) = {}
    BY DEF Cell
  <2>2. Selected(dst, 0, src, 0, f)
    <3> DEFINE at == [x \in Cell(0) |-> x]
    <3>1. at \in [Cell(0) -> Cell(0)]
      OBVIOUS
    <3> HIDE DEF at
    <3> QED BY <2>1, <3>1 DEF Selected
  <2> QED BY <1>1, <2>2 DEF FilterInv
<1>6. SortInv
  <2>1. Permuted(dst, old, n)
    BY <1>1, SamePermutes
  <2>2. Settled
    BY <1>1 DEF Settled, Cell
  <2> QED BY <1>1, <2>1, <2>2 DEF SortInv
<1> QED BY <1>1, <1>3, <1>4, <1>5, <1>6 DEF ArraysInv, FuncPtrFn

LEMMA SafetyStart == SafetyInit => ArraysInv
<1> SUFFICES ASSUME SafetyInit PROVE ArraysInv
  OBVIOUS
<1> USE DEF SafetyInit, Call
<1>1. PICK cap \in Length :
        dst \in Array(cap) /\ arg \in 0 .. cap /\ src \in Array(n) /\ n \in Length
  OBVIOUS
<1>2. n \in Nat /\ n <= SizeMax /\ cap \in 0 .. SizeMax /\ old = dst
  BY <1>1, SizeAssumption
<1>3. Called
  BY <1>1, <1>2 DEF Called, PointersFn, FuncPtrFn, SafetyFn
<1>4. StrcpyInv /\ StrcatInv
  BY DEF StrcpyInv, StrcatInv, Fresh
<1>5. CopyNInv
  <2>1. \A k \in DOMAIN dst : ~(k < 0)
    BY <1>1 DEF Array, Cell
  <2> QED BY <1>2, <2>1 DEF CopyNInv
<1> QED BY <1>3, <1>4, <1>5 DEF ArraysInv, SafetyFn

LEMMA ArraysStart == ArraysInit => ArraysInv
BY PointersStart, FuncPtrStart, SafetyStart DEF ArraysInit

LEMMA PointersSteps == ArraysInv /\ PointersNext => ArraysInv'
<1> SUFFICES ASSUME ArraysInv, PointersNext PROVE ArraysInv'
  OBVIOUS
<1>a. UNCHANGED args /\ fn' = fn
  BY DEF PointersNext, args
<1>1. CASE swap_int
  <2>1. fn = "swap_int" /\ Called' /\ SwapInv'
    BY <1>1, <1>a, SwapStep DEF swap_int, ArraysInv
  <2> QED BY <2>1, <1>a DEF ArraysInv
<1>2. CASE reverse_array
  <2>1. fn = "reverse_array" /\ Called' /\ ReverseInv'
    BY <1>2, <1>a, ReverseStep DEF reverse_array, ArraysInv
  <2> QED BY <2>1, <1>a DEF ArraysInv
<1>3. CASE my_memcpy
  <2>1. fn = "my_memcpy" /\ Called' /\ MemcpyInv'
    BY <1>3, <1>a, MemcpyStep DEF my_memcpy, ArraysInv
  <2> QED BY <2>1, <1>a DEF ArraysInv
<1>4. CASE my_memmove \/ rotate_left
  <2>1. fn \in {"my_memmove", "rotate_left"} /\ Called' /\ StubInv'
    BY <1>4, <1>a, StubStep DEF my_memmove, rotate_left, ArraysInv
  <2> QED BY <2>1, <1>a DEF ArraysInv
<1> QED BY <1>1, <1>2, <1>3, <1>4 DEF PointersNext

LEMMA FuncPtrSteps == ArraysInv /\ FuncPtrNext => ArraysInv'
<1> SUFFICES ASSUME ArraysInv, FuncPtrNext PROVE ArraysInv'
  OBVIOUS
<1>a. UNCHANGED args /\ fn' = fn
  BY DEF FuncPtrNext, args
<1>1. CASE int_map
  <2>1. fn = "int_map" /\ Called' /\ MapInv'
    BY <1>1, <1>a, MapStep DEF int_map, ArraysInv
  <2> QED BY <2>1, <1>a DEF ArraysInv
<1>2. CASE int_filter
  <2>1. fn = "int_filter" /\ Called' /\ FilterInv'
    BY <1>2, <1>a, FilterStepKeeps DEF int_filter, ArraysInv
  <2> QED BY <2>1, <1>a DEF ArraysInv
<1>3. CASE int_reduce
  <2>1. fn = "int_reduce" /\ Called' /\ ReduceInv'
    BY <1>3, <1>a, ReduceStep DEF int_reduce, ArraysInv
  <2> QED BY <2>1, <1>a DEF ArraysInv
<1>4. CASE sort_ints
  <2>1. fn = "sort_ints" /\ Called' /\ SortInv'
    BY <1>4, <1>a, SortStep DEF sort_ints, ArraysInv
  <2> QED BY <2>1, <1>a DEF ArraysInv
<1> QED BY <1>1, <1>2, <1>3, <1>4 DEF FuncPtrNext

LEMMA SafetySteps == ArraysInv /\ SafetyNext => ArraysInv'
<1> SUFFICES ASSUME ArraysInv, SafetyNext PROVE ArraysInv'
  OBVIOUS
<1>a. UNCHANGED args /\ fn' = fn
  BY DEF SafetyNext, args
<1>1. CASE safe_strcpy
  <2>1. fn = "safe_strcpy" /\ Called' /\ StrcpyInv'
    BY <1>1, <1>a, StrcpyStep DEF safe_strcpy, ArraysInv
  <2> QED BY <2>1, <1>a DEF ArraysInv
<1>2. CASE safe_strcat
  <2>1. fn = "safe_strcat" /\ Called' /\ StrcatInv'
    BY <1>2, <1>a, StrcatStep DEF safe_strcat, ArraysInv
  <2> QED BY <2>1, <1>a DEF ArraysInv
<1>3. CASE copy_n_safe
  <2>1. fn = "copy_n_safe" /\ Called' /\ CopyNInv'
    BY <1>3, <1>a, CopyNStep DEF copy_n_safe, ArraysInv
  <2> QED BY <2>1, <1>a DEF ArraysInv
<1> QED BY <1>1, <1>2, <1>3 DEF SafetyNext

\* A stuttering step: every loop's state is in the frame.
LEMMA ArraysStutter == ArraysInv /\ UNCHANGED frame => ArraysInv'
<1> SUFFICES ASSUME ArraysInv, UNCHANGED frame PROVE ArraysInv'
  OBVIOUS
<1> USE DEF frame, args, local
<1>1. Called'
  BY Still DEF ArraysInv
<1>2. /\ SwapInv => SwapInv'
      /\ ReverseInv => ReverseInv'
      /\ MemcpyInv => MemcpyInv'
      /\ StubInv => StubInv'
      /\ MapInv => MapInv'
  BY DEF SwapInv, ReverseInv, MemcpyInv, StubInv, MapInv, Fresh, Cell
<1>3. /\ FilterInv => FilterInv'
      /\ ReduceInv => ReduceInv'
      /\ SortInv => SortInv'
  BY DEF FilterInv, ReduceInv, SortInv, Selected, FoldGives, Permuted, UnitValued, Settled,
         Leading, Cell
<1>4. /\ StrcpyInv => StrcpyInv'
      /\ StrcatInv => StrcatInv'
      /\ CopyNInv => CopyNInv'
  BY DEF StrcpyInv, StrcatInv, CopyNInv, Fresh, EndsAt, Strlen
<1> QED BY <1>1, <1>2, <1>3, <1>4 DEF ArraysInv

LEMMA ArraysStep == ArraysInv /\ [ArraysNext]_frame => ArraysInv'
BY PointersSteps, FuncPtrSteps, SafetySteps, ArraysStutter DEF ArraysNext

-----------------------------------------------------------------------------
(* What follows *)

\* Whatever the lengths, AddressSanitizer has one thing to report only, and the
\* outer loop of sort_ints leaves no array but the empty one.
LEMMA ArraysBounded == ArraysInv => ArrayBounds
<1> SUFFICES ASSUME ArraysInv PROVE ArrayBounds
  OBVIOUS
<1>1. pc = "abort" => fn = "safe_strcat" /\ arg = 0
  BY DEF ArraysInv, Called, PointersFn, FuncPtrFn, SafetyFn, SwapInv, ReverseInv, MemcpyInv,
         StubInv, MapInv, FilterInv, ReduceInv, SortInv, StrcpyInv, StrcatInv, CopyNInv
<1>2. fn = "sort_ints" /\ i > n => n = 0
  BY DEF ArraysInv, Called, SortInv
<1> QED BY <1>1, <1>2 DEF ArrayBounds

LEMMA PointersDone == ArraysInv => PointersResult
<1> SUFFICES ASSUME ArraysInv, pc = "ret"
             PROVE  /\ fn = "reverse_array" => \A k \in Cell(n) : dst[k] = old[n - 1 - k]
                    /\ fn = "my_memcpy" => \A k \in Cell(n) : dst[k] = src[k]
  BY DEF PointersResult
<1> QED BY DEF ArraysInv, ReverseInv, MemcpyInv

LEMMA FuncPtrDone == ArraysInv => FuncPtrResult /\ SortResult
<1> SUFFICES ASSUME ArraysInv, pc = "ret"
             PROVE  FuncPtrResult /\ SortResult
  BY DEF FuncPtrResult, SortResult
<1>1. fn = "int_filter" => /\ Selected(dst, ret, src, n, f)
                           /\ \A k \in ret .. n - 1 : dst[k] = old[k]
  BY DEF ArraysInv, FilterInv
<1>2. fn = "int_reduce" => FoldGives(ret, f, arg, src, n)
  BY DEF ArraysInv, ReduceInv
<1>3. fn = "int_map" => \A k \in Cell(n) : dst[k] = f[old[k]]
  BY DEF ArraysInv, MapInv, Cell
<1>4. ASSUME fn = "sort_ints", UnitValued(f)
      PROVE  Sorted(dst, n, f)
  <2>1. n \in Nat
    BY DEF ArraysInv, Called
  <2>2. CASE n = 0
    BY <2>2 DEF Sorted, Cell
  <2>3. CASE n > 0
    <3>1. i = n - 1 /\ Settled
      BY <1>4, <2>3 DEF ArraysInv, SortInv
    <3>2. \A p, q \in Cell(n) : p < q => p < n - 1
      BY <2>1 DEF Cell
    <3> QED BY <3>1, <3>2 DEF Settled, Sorted
  <2> QED BY <2>1, <2>2, <2>3
<1>5. fn = "sort_ints" => Permuted(dst, old, n)
  BY DEF ArraysInv, SortInv
<1> QED BY <1>1, <1>2, <1>3, <1>4, <1>5 DEF FuncPtrResult, SortResult

LEMMA StrcpyDone ==
  ASSUME ArraysInv, pc = "ret", fn = "safe_strcpy"
  PROVE  /\ \A k \in DOMAIN dst : k >= arg => dst[k] = old[k]
         /\ ret = Strlen(src) /\ (arg > 0 => Holds(0))
<1>1. PICK cap \in 0 .. SizeMax :
        /\ DOMAIN dst = 0 .. cap - 1 /\ arg \in 0 .. cap
        /\ n \in Nat /\ DOMAIN src = Cell(n)
  BY Buffers DEF ArraysInv, SafetyFn
<1>2. StrcpyInv
  BY DEF ArraysInv
<1>3. Strlen(src) = j /\ j \in Nat
  BY <1>1, <1>2, StrlenIs DEF StrcpyInv, EndsAt, Cell
<1>4. /\ ret = j
      /\ \A k \in DOMAIN dst :
           dst[k] = IF k >= arg THEN old[k]
                    ELSE IF k < arg - 1 /\ k < j THEN src[k] ELSE 0
  BY <1>2 DEF StrcpyInv
<1>5. ASSUME arg > 0
      PROVE  Holds(0)
  <2>1. PICK end \in DOMAIN dst : end = Smaller(0 + Strlen(src), arg - 1)
    BY <1>1, <1>3, <1>5 DEF Smaller
  <2>2. end <= j /\ end <= arg - 1 /\ (end = j \/ end = arg - 1)
    BY <1>1, <1>3, <1>5, <2>1 DEF Smaller
  <2>3. dst[end] = 0
    BY <1>1, <1>3, <1>4, <1>5, <2>2
  <2>4. \A k \in 0 .. end - 1 : dst[k] = IF k < 0 THEN old[k] ELSE src[k - 0]
    BY <1>1, <1>3, <1>4, <1>5, <2>2
  <2> QED BY <2>1, <2>3, <2>4 DEF Holds
<1> QED BY <1>1, <1>3, <1>4, <1>5

LEMMA StrcatDone ==
  ASSUME ArraysInv, pc = "ret", fn = "safe_strcat"
  PROVE  /\ \A k \in DOMAIN dst : k >= arg => dst[k] = old[k]
         /\ Holds(Smaller(Strlen(old), arg - 1)) /\ ret = Smaller(TriedLength, arg)
<1>1. PICK cap \in 0 .. SizeMax :
        /\ DOMAIN dst = 0 .. cap - 1 /\ DOMAIN old = 0 .. cap - 1 /\ arg \in 0 .. cap
        /\ n \in Nat /\ DOMAIN src = Cell(n)
  BY Buffers DEF ArraysInv, SafetyFn
<1>2. StrcatInv
  BY DEF ArraysInv
<1>3. Strlen(old) = j /\ j \in Nat
  <2>1. cap \in Nat /\ DOMAIN old = Cell(cap) /\ EndsAt(old, j)
    BY <1>1, <1>2, SizeAssumption DEF StrcatInv, Cell
  <2> QED BY <2>1, StrlenIs DEF EndsAt, Cell
<1>4. Strlen(src) \in Nat
  BY <1>1, StringEnds DEF ArraysInv, Called, Cell
<1>5. /\ arg > 0 /\ ret = Smaller(Strlen(src) + j, arg)
      /\ \A k \in DOMAIN dst :
           dst[k] = IF k >= arg THEN old[k]
                    ELSE IF k = arg - 1 THEN 0
                    ELSE IF k < j THEN old[k]
                    ELSE IF k - j < Strlen(src) THEN src[k - j] ELSE 0
  BY <1>2 DEF StrcatInv
<1> DEFINE from == Smaller(Strlen(old), arg - 1)
           end  == Smaller(from + Strlen(src), arg - 1)
<1>6. /\ from \in Nat /\ from <= j /\ from <= arg - 1 /\ (from = j \/ from = arg - 1)
      /\ end \in Nat /\ end <= arg - 1 /\ (end = from + Strlen(src) \/ end = arg - 1)
      /\ end <= from + Strlen(src)
  BY <1>1, <1>3, <1>4, <1>5 DEF Smaller
<1> HIDE DEF from, end
<1>7. dst[end] = 0
  <2>1. end \in DOMAIN dst /\ end < arg
    BY <1>1, <1>5, <1>6
  <2>2. CASE end = arg - 1
    BY <1>1, <1>5, <1>6, <2>1, <2>2
  <2>3. CASE end # arg - 1
    <3>1. from = j /\ ~(end < j) /\ ~(end - j < Strlen(src)) /\ ~(end >= arg)
      BY <1>1, <1>3, <1>4, <1>6, <2>1, <2>3
    <3> QED BY <1>5, <2>1, <2>3, <3>1
  <2> QED BY <2>2, <2>3
<1>8. ASSUME NEW k \in 0 .. end - 1
      PROVE  dst[k] = IF k < from THEN old[k] ELSE src[k - from]
  <2>1. k \in DOMAIN dst /\ ~(k >= arg) /\ k # arg - 1 /\ (k < j <=> k < from)
    BY <1>1, <1>3, <1>5, <1>6
  <2>2. k >= from => from = j /\ k - j < Strlen(src)
    BY <1>1, <1>3, <1>4, <1>6
  <2> QED BY <1>3, <1>5, <1>6, <2>1, <2>2
<1>9. \A k \in DOMAIN dst : k >= arg => dst[k] = old[k]
  BY <1>5
<1>10. Holds(from)
  BY <1>7, <1>8 DEF Holds, end
<1>11. ret = Smaller(TriedLength, arg)
  <2>1. arg \in Nat
    BY <1>1, SizeAssumption
  <2> QED BY <1>3, <1>4, <1>5, <2>1 DEF TriedLength, Smaller
<1> QED BY <1>9, <1>10, <1>11 DEF from

LEMMA CopyNDone ==
  ASSUME ArraysInv, pc = "ret", fn = "copy_n_safe"
  PROVE  /\ \A k \in DOMAIN dst : k >= arg => dst[k] = old[k]
         /\ ret = 1 <=> n <= arg
         /\ IF ret = 1 THEN \A k \in Cell(n) : dst[k] = src[k] ELSE dst = old
<1>1. PICK cap \in 0 .. SizeMax :
        /\ old \in Array(cap) /\ dst \in Array(cap) /\ arg \in 0 .. cap /\ n \in Nat
  BY DEF ArraysInv, Called, SafetyFn
<1>2. /\ \A k \in DOMAIN dst : dst[k] = IF k < i THEN src[k] ELSE old[k]
      /\ n > arg => i = 0
      /\ IF n <= arg THEN ret = 1 /\ i = n ELSE ret = 0
  BY DEF ArraysInv, CopyNInv
<1>3. arg \in Nat /\ cap \in Nat /\ arg <= cap /\ DOMAIN dst = 0 .. cap - 1
  BY <1>1, SizeAssumption DEF Array, Cell
<1>4. CASE n <= arg
  BY <1>1, <1>2, <1>3, <1>4 DEF Cell
<1>5. CASE ~(n <= arg)
  <2>1. \A k \in DOMAIN dst : dst[k] = old[k]
    BY <1>1, <1>2, <1>3, <1>5
  <2>2. dst = old
    BY <1>1, <2>1 DEF Array
  <2> QED BY <1>1, <1>2, <1>5, <2>2
<1> QED BY <1>4, <1>5

\* The results, from the invariants of the loops.
LEMMA ArraysDone == ArraysInv => ArrayResult
<1> SUFFICES ASSUME ArraysInv PROVE ArrayResult
  OBVIOUS
<1>1. SafetyResult
  <2> SUFFICES ASSUME pc = "ret", fn \in SafetyFn
               PROVE  /\ \A k \in DOMAIN dst : k >= arg => dst[k] = old[k]
                      /\ fn = "safe_strcpy" => ret = Strlen(src) /\ (arg > 0 => Holds(0))
                      /\ fn = "safe_strcat" => /\ Holds(Smaller(Strlen(old), arg - 1))
                                               /\ ret = Smaller(TriedLength, arg)
                      /\ fn = "copy_n_safe" =>
                           /\ ret = 1 <=> n <= arg
                           /\ IF ret = 1 THEN \A k \in Cell(n) : dst[k] = src[k]
                                         ELSE dst = old
    BY DEF SafetyResult
  <2> QED BY StrcpyDone, StrcatDone, CopyNDone DEF SafetyFn
<1> QED BY <1>1, PointersDone, FuncPtrDone DEF ArrayResult

-----------------------------------------------------------------------------
(* Division, and powers of two *)

LEMMA DivMod ==
  ASSUME NEW x \in Nat, NEW m \in Nat \ {0}
  PROVE  /\ x \div m \in Nat /\ x % m \in 0 .. m - 1
         /\ x = m * (x \div m) + (x % m)
OBVIOUS

LEMMA DivUnique ==
  ASSUME NEW x \in Nat, NEW m \in Nat \ {0}, NEW q \in Nat, NEW r \in 0 .. m - 1,
         x = m * q + r
  PROVE  x \div m = q /\ x % m = r
OBVIOUS

\* To shift twice is to shift once by the sum.
LEMMA DivTwice ==
  ASSUME NEW x \in Nat, NEW a \in Nat \ {0}, NEW b \in Nat \ {0}
  PROVE  a * b \in Nat \ {0} /\ (x \div a) \div b = x \div (a * b)
<1> DEFINE q == x \div a
           r == x % a
           p == q \div b
           s == q % b
<1>0. a * b \in Nat \ {0}
  OBVIOUS
<1>1. q \in Nat /\ r \in 0 .. a - 1 /\ x = a * q + r
  BY DivMod
<1> HIDE DEF q, r
<1>2. p \in Nat /\ s \in 0 .. b - 1 /\ q = b * p + s
  BY <1>1, DivMod
<1> HIDE DEF p, s
<1>3. x = (a * b) * p + (a * s + r)
  <2>1. a * (b * p + s) = (a * b) * p + a * s
    BY <1>1, <1>2
  <2> QED BY <2>1, <1>1, <1>2
<1>4. a * s + r \in 0 .. a * b - 1
  <2>1. a * s <= a * (b - 1)
    BY <1>2
  <2>2. a * s \in Nat
    BY <1>2
  <2>3. a * (b - 1) = a * b - a
    OBVIOUS
  <2> HIDE DEF r
  <2> QED BY <2>1, <2>2, <2>3, <1>0, <1>1
<1>5. x \div (a * b) = p
  BY <1>0, <1>2, <1>3, <1>4, DivUnique
<1> QED BY <1>0, <1>5 DEF p, q

\* Every set of naturals that is not empty has a least element.
LEMMA Least ==
  ASSUME NEW S \in SUBSET Nat, S # {}
  PROVE  \E k \in S : \A m \in S : k <= m
<1> DEFINE R == {ss \in Nat \X Nat : ss[1] < ss[2]}
<1>1. IsWellFoundedOn(R, Nat)
  BY NatLessThanWellFounded DEF OpToRel
<1>2. PICK k \in S : \A m \in S : <<m, k>> \notin R
  <2> HIDE DEF R
  <2> QED BY <1>1, WFMin
<1>3. \A m \in S : ~(m < k)
  BY <1>2
<1> QED BY <1>3

\* Induction, for a set instead of a predicate.
LEMMA SetInduction ==
  ASSUME NEW S \in SUBSET Nat, 0 \in S, \A k \in S : k + 1 \in S
  PROVE  S = Nat
<1> SUFFICES ASSUME Nat \ S # {} PROVE FALSE
  OBVIOUS
<1>1. PICK k \in Nat \ S : \A m \in Nat \ S : k <= m
  <2>1. Nat \ S \in SUBSET Nat
    OBVIOUS
  <2> QED BY <2>1, Least
<1> QED BY <1>1, k # 0, k - 1 \in Nat, k - 1 \notin Nat \ S

\* The only fact about exponents to start from.
LEMMA PowCard ==
  ASSUME NEW k \in Nat
  PROVE  Cardinality(SUBSET (1 .. k)) = 2 ^ k
<1>1. IsFiniteSet(1 .. k) /\ Cardinality(1 .. k) = k
  BY FS_Interval
<1> QED BY <1>1, FS_SUBSET

LEMMA Pow0 == 2 ^ 0 = 1
<1>1. SUBSET (1 .. 0) = {{}}
  OBVIOUS
<1>2. Cardinality({{}}) = 1
  BY FS_Singleton
<1> QED BY PowCard, <1>1, <1>2

LEMMA PowNat ==
  ASSUME NEW k \in Nat
  PROVE  2 ^ k \in Nat
<1>1. IsFiniteSet(1 .. k)
  BY FS_Interval
<1> QED BY <1>1, PowCard, FS_SUBSET, FS_CardinalityType

LEMMA PowStep ==
  ASSUME NEW k \in Nat
  PROVE  2 ^ (k + 1) = 2 * 2 ^ k
<1> DEFINE A == SUBSET (1 .. k)
           B == {T \cup {k + 1} : T \in A}
           g == [T \in A |-> T \cup {k + 1}]
<1>1. SUBSET (1 .. k + 1) = A \cup B
  <2>1. ASSUME NEW T \in SUBSET (1 .. k + 1) PROVE T \in A \cup B
    <3>1. CASE k + 1 \in T
      <4>1. T \ {k + 1} \in A /\ T = (T \ {k + 1}) \cup {k + 1}
        BY <3>1
      <4> QED BY <4>1
    <3>2. CASE k + 1 \notin T
      BY <3>2
    <3> QED BY <3>1, <3>2
  <2>2. ASSUME NEW T \in A PROVE T \in SUBSET (1 .. k + 1) /\ T \cup {k + 1} \in SUBSET (1 .. k + 1)
    OBVIOUS
  <2>3. \A T \in A \cup B : T \in SUBSET (1 .. k + 1)
    BY <2>2
  <2>4. \A T : T \in SUBSET (1 .. k + 1) <=> T \in A \cup B
    BY <2>1, <2>3
  <2> HIDE DEF A, B
  <2> QED BY ONLY <2>4
<1>2. A \cap B = {}
  OBVIOUS
<1>3. IsFiniteSet(A) /\ Cardinality(A) = 2 ^ k /\ 2 ^ k \in Nat
  <2>1. IsFiniteSet(1 .. k)
    BY FS_Interval
  <2> QED BY <2>1, PowCard, PowNat, FS_SUBSET
<1>4. ExistsBijection(A, B)
  <2>1. \A S, T \in A : g[S] = g[T] => S = T
    <3> TAKE S, T \in A
    <3> HAVE g[S] = g[T]
    <3>1. S = g[S] \ {k + 1} /\ T = g[T] \ {k + 1}
      OBVIOUS
    <3> QED BY <3>1
  <2>2. \A T \in B : \E S \in A : g[S] = T
    OBVIOUS
  <2>3. g \in [A -> B]
    OBVIOUS
  <2> HIDE DEF A, B, g
  <2>4. g \in Bijection(A, B)
    BY <2>1, <2>2, <2>3, Fun_IsBij
  <2> QED BY <2>4 DEF ExistsBijection
<1> HIDE DEF A, B
<1>5. IsFiniteSet(B) /\ Cardinality(B) = 2 ^ k
  BY <1>3, <1>4, FS_Bijection
<1>6. Cardinality(A \cup B) = 2 ^ k + 2 ^ k
  BY <1>2, <1>3, <1>5, FS_Union, FS_EmptySet
<1> QED BY <1>1, <1>3, <1>6, PowCard

LEMMA PowAdd ==
  ASSUME NEW a \in Nat, NEW b \in Nat
  PROVE  2 ^ (a + b) = 2 ^ a * 2 ^ b
<1> DEFINE S == {k \in Nat : 2 ^ (a + k) = 2 ^ a * 2 ^ k}
<1>1. 0 \in S
  BY Pow0, PowNat
<1>2. \A k \in S : k + 1 \in S
  <2> SUFFICES ASSUME NEW k \in S PROVE k + 1 \in S
    OBVIOUS
  <2>1. 2 ^ (a + (k + 1)) = 2 * 2 ^ (a + k)
    BY PowStep, a + k \in Nat, a + (k + 1) = (a + k) + 1
  <2>2. 2 ^ (k + 1) = 2 * 2 ^ k /\ 2 ^ k \in Nat /\ 2 ^ a \in Nat
    BY PowStep, PowNat
  <2>3. ASSUME NEW x \in Nat, NEW y \in Nat PROVE 2 * (x * y) = x * (2 * y)
    OBVIOUS
  <2> QED BY <2>1, <2>2, <2>3
<1> HIDE DEF S
<1>3. S = Nat
  <2>1. S \in SUBSET Nat
    BY DEF S
  <2> QED BY <1>1, <1>2, <2>1, SetInduction
<1> QED BY <1>3 DEF S

LEMMA PowPositive ==
  ASSUME NEW a \in Nat
  PROVE  2 ^ a \in Nat \ {0}
<1> DEFINE S == {k \in Nat : 2 ^ k # 0}
<1>1. 0 \in S
  BY Pow0
<1>2. \A k \in S : k + 1 \in S
  BY PowStep, PowNat
<1> HIDE DEF S
<1>3. S = Nat
  <2>1. S \in SUBSET Nat
    BY DEF S
  <2> QED BY <1>1, <1>2, <2>1, SetInduction
<1> QED BY <1>3, PowNat DEF S

-----------------------------------------------------------------------------
(* Words *)

LEMMA Sizes ==
  /\ Base \in Nat /\ Base >= 2 /\ Base % 2 = 0
  /\ WordBits \in Nat /\ 2 ^ WordBits = Top /\ Top \in Nat \ {0}
  /\ Top % 2 = 0 /\ IntMax \in Nat /\ IntMin = -IntMax - 1 /\ 2 * IntMax = Top - 2
  /\ IntArg \subseteq IntMin .. IntMax
<1>1. Base \in Nat /\ Base >= 2 /\ Base % 2 = 0
  BY BaseAssumption
<1>2. WordBits \in Nat /\ 2 ^ WordBits = Top /\ IntArg \subseteq IntMin .. IntMax
  BY WordAssumption
<1>3. Top \in Nat \ {0}
  BY <1>2, PowPositive
<1>4. Top % 2 = 0
  <2> DEFINE b == Base \div 2
             c == b * (Base * Base * Base)
  <2>1. b \in Nat /\ Base = 2 * b
    BY <1>1
  <2> HIDE DEF b
  <2>2. c \in Nat /\ Top = 2 * c
    BY <1>1, <2>1 DEF Top
  <2> HIDE DEF c
  <2> QED BY <2>2
<1>5. IntMax \in Nat /\ 2 * IntMax = Top - 2
  BY <1>3, <1>4 DEF IntMax
<1> QED BY <1>1, <1>2, <1>3, <1>4, <1>5 DEF IntMin

\* 2^k taken away from a number with bit k set clears that bit and no other.
LEMMA BitGone ==
  ASSUME NEW x \in Nat, NEW k \in Nat, (x \div (2 ^ k)) % 2 = 1, NEW m \in Nat
  PROVE  /\ x - 2 ^ k \in Nat
         /\ ((x - 2 ^ k) \div (2 ^ m)) % 2 = IF m = k THEN 0 ELSE (x \div (2 ^ m)) % 2
<1> DEFINE s == 2 ^ k
           q == x \div s
           r == x % s
           p == q \div 2
           y == x - s
<1>0. s \in Nat \ {0}
  BY PowPositive
<1> HIDE DEF s
<1>1. q \in Nat /\ r \in 0 .. s - 1 /\ x = s * q + r /\ q % 2 = 1
  <2>1. q % 2 = 1
    BY DEF s
  <2> QED BY <2>1, <1>0, DivMod
<1> HIDE DEF q, r
<1>2. p \in Nat /\ q = 2 * p + 1
  BY <1>1
<1> HIDE DEF p
<1>3. y \in Nat /\ y = s * (2 * p) + r
  <2>1. s * (2 * p + 1) = s * (2 * p) + s /\ s * (2 * p) \in Nat
    BY <1>0, <1>2
  <2> QED BY <1>0, <1>1, <1>2, <2>1
<1> HIDE DEF y
<1>4. y \div s = 2 * p
  BY <1>0, <1>1, <1>2, <1>3, DivUnique
<1>5. CASE m = k
  <2>1. (2 * p) % 2 = 0
    BY <1>2
  <2> QED BY <1>3, <1>4, <1>5, <2>1 DEF s, y
<1>6. CASE m > k
  <2> DEFINE t == 2 ^ (m - k - 1)
  <2>1. t \in Nat \ {0} /\ 2 ^ m = s * (2 * t)
    <3>1. m - k - 1 \in Nat /\ m - k \in Nat /\ m - k = (m - k - 1) + 1 /\ m = k + (m - k)
      BY <1>6
    <3>2. 2 ^ (m - k) = 2 * t
      BY <3>1, PowStep
    <3>3. 2 ^ m = 2 ^ k * 2 ^ (m - k)
      BY <3>1, PowAdd
    <3> QED BY <3>1, <3>2, <3>3, PowPositive DEF s
  <2> HIDE DEF t
  <2>2. \A z \in Nat : z \div (2 ^ m) = ((z \div s) \div 2) \div t
    <3> SUFFICES ASSUME NEW z \in Nat
                 PROVE  z \div (2 ^ m) = ((z \div s) \div 2) \div t
      OBVIOUS
    <3>1. z \div s \in Nat
      BY <1>0, DivMod
    <3>2. ((z \div s) \div 2) \div t = (z \div s) \div (2 * t) /\ 2 * t \in Nat \ {0}
      BY <2>1, <3>1, DivTwice
    <3>3. (z \div s) \div (2 * t) = z \div (s * (2 * t))
      BY <1>0, <3>2, DivTwice
    <3> QED BY <2>1, <3>2, <3>3
  <2>3. (2 * p) \div 2 = p /\ (2 * p + 1) \div 2 = p
    BY <1>2
  <2>4. y \div (2 ^ m) = x \div (2 ^ m)
    BY <1>2, <1>3, <1>4, <2>2, <2>3 DEF q
  <2>5. ((x - 2 ^ k) \div (2 ^ m)) % 2 = (x \div (2 ^ m)) % 2
    BY <2>4 DEF s, y
  <2> QED BY <1>3, <1>6, <2>5 DEF s, y
<1>7. CASE m < k
  <2> DEFINE t == 2 ^ (k - m - 1)
             u == 2 ^ m
             d == y \div u
             e == y % u
  <2>1. t \in Nat \ {0} /\ u \in Nat \ {0} /\ s = u * (2 * t)
    <3>1. k - m - 1 \in Nat /\ k - m \in Nat /\ k - m = (k - m - 1) + 1 /\ k = m + (k - m)
      BY <1>7
    <3>2. 2 ^ (k - m) = 2 * t
      BY <3>1, PowStep
    <3>3. 2 ^ k = 2 ^ m * 2 ^ (k - m)
      BY <3>1, PowAdd
    <3> QED BY <3>1, <3>2, <3>3, PowPositive DEF s
  <2> HIDE DEF t, u
  <2>2. d \in Nat /\ e \in 0 .. u - 1 /\ y = u * d + e
    BY <1>3, <2>1, DivMod
  <2> HIDE DEF d, e
  <2>3. x = u * (d + 2 * t) + e
    <3>1. x = y + s
      BY <1>0 DEF y
    <3>2. u * (d + 2 * t) = u * d + u * (2 * t)
      BY <2>1, <2>2
    <3> QED BY <2>1, <2>2, <3>1, <3>2
  <2>4. x \div u = d + 2 * t
    BY <2>1, <2>2, <2>3, DivUnique
  <2>5. (d + 2 * t) % 2 = d % 2
    BY <2>1, <2>2
  <2>6. ((x - 2 ^ k) \div (2 ^ m)) % 2 = (x \div (2 ^ m)) % 2
    BY <2>4, <2>5 DEF d, u, s, y
  <2> QED BY <1>3, <1>7, <2>6 DEF s, y
<1> QED BY <1>5, <1>6, <1>7

LEMMA BitsFinite ==
  ASSUME NEW x
  PROVE  /\ BitSet(x) \in SUBSET Nat /\ IsFiniteSet(BitSet(x))
         /\ Cardinality(BitSet(x)) \in Nat
<1>1. BitSet(x) \in SUBSET (0 .. WordBits - 1) /\ 0 .. WordBits - 1 \subseteq Nat
  BY DEF BitSet
<1>2. IsFiniteSet(0 .. WordBits - 1)
  BY Sizes, FS_Interval
<1> QED BY <1>1, <1>2, FS_Subset, FS_CardinalityType

\* One bit fewer.
LEMMA BitDropped ==
  ASSUME NEW x \in Nat, NEW k \in BitSet(x)
  PROVE  /\ x - 2 ^ k \in Nat
         /\ BitSet(x - 2 ^ k) = BitSet(x) \ {k}
         /\ Cardinality(BitSet(x - 2 ^ k)) = Cardinality(BitSet(x)) - 1
<1>1. k \in Nat /\ (x \div (2 ^ k)) % 2 = 1
  BY DEF BitSet
<1>2. x - 2 ^ k \in Nat
  BY <1>1, BitGone
<1>3. BitSet(x - 2 ^ k) = BitSet(x) \ {k}
  <2>1. ASSUME NEW m
        PROVE  m \in BitSet(x - 2 ^ k) <=> m \in BitSet(x) \ {k}
    <3>1. CASE m \in 0 .. WordBits - 1
      <4>1. m \in Nat
        BY <3>1, Sizes
      <4>2. ((x - 2 ^ k) \div (2 ^ m)) % 2 = IF m = k THEN 0 ELSE (x \div (2 ^ m)) % 2
        BY <1>1, <4>1, BitGone
      <4> QED BY <3>1, <4>2 DEF BitSet
    <3>2. CASE m \notin 0 .. WordBits - 1
      BY <3>2 DEF BitSet
    <3> QED BY <3>1, <3>2
  <2> QED BY <2>1
<1>4. Cardinality(BitSet(x) \ {k}) = Cardinality(BitSet(x)) - 1
  BY BitsFinite, FS_RemoveElement
<1> QED BY <1>2, <1>3, <1>4

\* A word with no bit set is 0.
LEMMA SomeBit ==
  ASSUME NEW x \in 0 .. Top - 1
  PROVE  BitSet(x) = {} <=> x = 0
<1>1. ASSUME x = 0 PROVE BitSet(x) = {}
  <2>1. \A k \in Nat : 0 \div (2 ^ k) = 0
    BY PowPositive, DivUnique
  <2> QED BY <1>1, <2>1 DEF BitSet
<1>2. ASSUME BitSet(x) = {} PROVE x = 0
  <2> DEFINE S == {k \in Nat : k <= WordBits => x % (2 ^ k) = 0}
  <2>0. x \in Nat
    BY Sizes
  <2>1. 0 \in S
    BY <2>0, Pow0
  <2>2. ASSUME NEW k \in S PROVE k + 1 \in S
    <3> SUFFICES ASSUME k + 1 <= WordBits PROVE x % (2 ^ (k + 1)) = 0
      BY <2>2
    <3> DEFINE s == 2 ^ k
               q == x \div s
               p == q \div 2
    <3>1. k \in 0 .. WordBits - 1 /\ x % (2 ^ k) = 0
      BY Sizes
    <3>2. q % 2 # 1
      BY <1>2, <3>1 DEF BitSet
    <3>3. s \in Nat \ {0} /\ 2 ^ (k + 1) = 2 * s
      BY PowPositive, PowStep
    <3>4. x % s = 0
      BY <3>1
    <3> HIDE DEF s
    <3>5. q \in Nat /\ x = s * q + 0
      BY <2>0, <3>3, <3>4, DivMod
    <3> HIDE DEF q
    <3>6. p \in Nat /\ q = 2 * p
      BY <3>2, <3>5
    <3> HIDE DEF p
    <3>7. x = (2 * s) * p + 0
      BY <3>3, <3>5, <3>6
    <3>8. 2 * s \in Nat \ {0} /\ 0 \in 0 .. 2 * s - 1
      BY <3>3
    <3>9. x % (2 * s) = 0
      BY <2>0, <3>6, <3>7, <3>8, DivUnique
    <3> QED BY <3>3, <3>9
  <2> HIDE DEF S
  <2>3. S = Nat
    <3>1. S \in SUBSET Nat
      BY DEF S
    <3> QED BY <2>1, <2>2, <3>1, SetInduction
  <2>4. x % Top = 0
    <3>1. WordBits \in S
      BY <2>3, Sizes
    <3>2. x % (2 ^ WordBits) = 0
      BY <3>1, Sizes DEF S
    <3> QED BY <3>2, Sizes
  <2>5. x % Top = x
    BY <2>0, Sizes, DivUnique
  <2> QED BY <2>4, <2>5
<1> QED BY <1>1, <1>2

\* x & (x - 1) has one bit fewer than x.
LEMMA LowBitDropped ==
  ASSUME NEW x \in 0 .. Top - 1, x # 0
  PROVE  /\ DropLowBit(x) \in 0 .. Top - 1
         /\ Cardinality(BitSet(DropLowBit(x))) = Cardinality(BitSet(x)) - 1
<1> DEFINE low == CHOOSE k \in BitSet(x) : \A m \in BitSet(x) : k <= m
<1>1. low \in BitSet(x)
  <2>1. \E k \in BitSet(x) : \A m \in BitSet(x) : k <= m
    BY SomeBit, BitsFinite, Least
  <2> QED BY <2>1
<1>2. DropLowBit(x) = x - 2 ^ low
  BY DEF DropLowBit
<1> HIDE DEF low
<1>3. x \in Nat /\ 2 ^ low \in Nat
  BY <1>1, Sizes, BitsFinite, PowNat
<1> QED BY <1>1, <1>2, <1>3, Sizes, BitDropped

\* One bit is set exactly in the powers of two.
LEMMA OneBit ==
  ASSUME NEW x \in 0 .. Top - 1
  PROVE  Cardinality(BitSet(x)) = 1 <=> \E k \in 0 .. WordBits - 1 : x = 2 ^ k
<1>0. x \in Nat
  BY Sizes
<1>1. ASSUME Cardinality(BitSet(x)) = 1 PROVE \E k \in 0 .. WordBits - 1 : x = 2 ^ k
  <2>1. PICK k : BitSet(x) = {k}
    BY <1>1, BitsFinite, FS_Singleton
  <2>2. k \in 0 .. WordBits - 1
    BY <2>1 DEF BitSet
  <2>3. x - 2 ^ k \in Nat /\ BitSet(x - 2 ^ k) = {}
    BY <1>0, <2>1, BitDropped
  <2>4. 2 ^ k \in Nat
    BY <2>2, PowNat
  <2>5. x - 2 ^ k = 0
    BY <2>3, <2>4, Sizes, SomeBit
  <2> QED BY <1>0, <2>2, <2>4, <2>5
<1>2. ASSUME NEW k \in 0 .. WordBits - 1, x = 2 ^ k PROVE Cardinality(BitSet(x)) = 1
  <2>1. 2 ^ k \in Nat \ {0}
    BY PowPositive
  <2>2. x \div (2 ^ k) = 1
    BY <1>2, <2>1, DivUnique
  <2>3. k \in BitSet(x)
    <3>1. (x \div (2 ^ k)) % 2 = 1
      BY <2>2, 1 % 2 = 1, Zenon
    <3> QED BY <3>1 DEF BitSet
  <2>4. x - 2 ^ k = 0 /\ 0 \in 0 .. Top - 1
    BY <1>0, <1>2, <2>1, Sizes
  <2>5. BitSet(x) \ {k} = {}
    BY <1>0, <2>3, <2>4, BitDropped, SomeBit
  <2>6. BitSet(x) = {k}
    BY <2>3, <2>5
  <2> QED BY <2>6, FS_Singleton
<1> QED BY <1>1, <1>2

-----------------------------------------------------------------------------
(* Bytes *)

LEMMA Places ==
  /\ Place[0] = 1 /\ Place[1] = Base
  /\ Place[2] = Base * Base /\ Place[3] = Base * Base * Base
BY DEF Place

\* A word is made of its four digits.
LEMMA Digits ==
  ASSUME NEW x \in 0 .. Top - 1
  PROVE  /\ \A k \in 0 .. 3 : Digit(x, k) \in Byte
         /\ x = Digit(x, 0) + Base * (Digit(x, 1) + Base * (Digit(x, 2) + Base * Digit(x, 3)))
<1> DEFINE q1 == x \div Base
           q2 == q1 \div Base
           q3 == q2 \div Base
<1>1. x \in Nat /\ Base \in Nat \ {0}
  BY Sizes
<1>2. q1 \in Nat /\ x % Base \in Byte /\ x = Base * q1 + (x % Base)
  BY <1>1, DivMod DEF Byte
<1>3. x \div (Base * Base) = q2 /\ Base * Base \in Nat \ {0}
  BY <1>1, DivTwice
<1>4. x \div (Base * Base * Base) = q3
  <2>1. (x \div (Base * Base)) \div Base = x \div ((Base * Base) * Base)
    BY <1>1, <1>3, DivTwice
  <2> QED BY <1>3, <2>1
<1>5. Digit(x, 0) = x % Base /\ Digit(x, 1) = q1 % Base /\ Digit(x, 2) = q2 % Base
      /\ Digit(x, 3) = q3 % Base
  <2>1. x \div 1 = x
    BY <1>1
  <2> QED BY <1>3, <1>4, <2>1, Places DEF Digit
<1> HIDE DEF q1
<1>6. q2 \in Nat /\ q1 % Base \in Byte /\ q1 = Base * q2 + (q1 % Base)
  BY <1>1, <1>2, DivMod DEF Byte
<1> HIDE DEF q2
<1>7. q3 \in Nat /\ q2 % Base \in Byte /\ q2 = Base * q3 + (q2 % Base)
  BY <1>1, <1>6, DivMod DEF Byte
<1> HIDE DEF q3
<1>8. q3 < Base
  <2> SUFFICES ASSUME q3 >= Base PROVE FALSE
    BY <1>1, <1>7
  <2> DEFINE r1 == x % Base
             r2 == q1 % Base
             r3 == q2 % Base
  <2>1. q2 >= Base * Base
    <3>1. Base * q3 >= Base * Base
      BY <1>1, <1>7
    <3> HIDE DEF r3
    <3> QED BY <1>1, <1>7, <3>1 DEF r3, Byte
  <2>2. q1 >= Base * (Base * Base)
    <3>1. Base * q2 >= Base * (Base * Base)
      BY <1>1, <1>6, <2>1
    <3> QED BY <1>1, <1>6, <3>1 DEF Byte
  <2>3. x >= Base * (Base * (Base * Base))
    <3>1. Base * q1 >= Base * (Base * (Base * Base))
      BY <1>1, <1>2, <2>2
    <3> QED BY <1>1, <1>2, <3>1 DEF Byte
  <2>4. Base * (Base * (Base * Base)) = Top
    BY <1>1 DEF Top
  <2> QED BY <1>1, <2>3, <2>4, Sizes
<1>9. q3 % Base = q3 /\ q3 \in Byte
  BY <1>1, <1>7, <1>8 DEF Byte
<1>10. x = (x % Base) + Base * ((q1 % Base) + Base * ((q2 % Base) + Base * q3))
  <2>1. q2 = (q2 % Base) + Base * q3
    BY <1>1, <1>7 DEF Byte
  <2>2. q1 = (q1 % Base) + Base * q2
    BY <1>1, <1>6 DEF Byte
  <2>3. x = (x % Base) + Base * q1
    BY <1>1, <1>2 DEF Byte
  <2> QED BY <2>1, <2>2, <2>3
<1> QED
  <2>1. \A k \in 0 .. 3 : k = 0 \/ k = 1 \/ k = 2 \/ k = 3
    OBVIOUS
  <2> QED BY <1>2, <1>5, <1>6, <1>7, <1>9, <1>10, <2>1

\* A digit above or below a number that fits.
LEMMA OneMore ==
  ASSUME NEW p \in Nat \ {0}, NEW x \in 0 .. p - 1, NEW d \in Byte
  PROVE  x + d * p \in 0 .. p * Base - 1 /\ x * Base + d \in 0 .. p * Base - 1
<1>0. d \in Nat /\ d <= Base - 1 /\ x \in Nat /\ x <= p - 1 /\ Base \in Nat
  BY Sizes DEF Byte
<1>1. d * p \in Nat /\ d * p <= (Base - 1) * p
  BY <1>0
<1>2. x * Base \in Nat /\ x * Base <= (p - 1) * Base
  BY <1>0
<1>3. (Base - 1) * p = p * Base - p /\ (p - 1) * Base = p * Base - Base /\ p * Base \in Nat
  BY <1>0
<1> QED BY <1>0, <1>1, <1>2, <1>3

\* However many of four bytes have been summed up, in either order, the sum fits.
LEMMA FourBytes ==
  ASSUME NEW a \in Byte, NEW b \in Byte, NEW c \in Byte, NEW d \in Byte
  PROVE  /\ a \in 0 .. Top - 1
         /\ a + b * Place[1] \in 0 .. Top - 1
         /\ a + b * Place[1] + c * Place[2] \in 0 .. Top - 1
         /\ a + b * Place[1] + c * Place[2] + d * Place[3] \in 0 .. Top - 1
         /\ a * Base + b \in 0 .. Top - 1
         /\ (a * Base + b) * Base + c \in 0 .. Top - 1
         /\ ((a * Base + b) * Base + c) * Base + d \in 0 .. Top - 1
<1> DEFINE B2 == Base * Base
           B3 == Base * Base * Base
<1>0. /\ a \in 0 .. Base - 1 /\ b \in 0 .. Base - 1 /\ c \in 0 .. Base - 1
      /\ d \in 0 .. Base - 1 /\ Base \in Nat \ {0}
  BY Sizes DEF Byte
<1>1. B2 \in Nat \ {0} /\ B2 >= Base
  BY <1>0
<1>2. B3 \in Nat \ {0} /\ B3 = B2 * Base /\ B3 >= B2
  <2> HIDE DEF B2
  <2>1. B2 * Base \in Nat \ {0} /\ B2 * Base >= B2
    BY <1>0, <1>1
  <2> QED BY <2>1 DEF B2
<1>3. Top = B3 * Base /\ Top \in Nat /\ Top >= B3
  <2> HIDE DEF B3
  <2>1. B3 * Base >= B3
    BY <1>0, <1>2
  <2> QED BY <2>1, Sizes DEF Top, B3
<1>4. Place[1] = Base /\ Place[2] = B2 /\ Place[3] = B3
  BY Places
<1> HIDE DEF B2, B3
<1>5. a + b * Base \in 0 .. B2 - 1 /\ a * Base + b \in 0 .. B2 - 1
  BY <1>0, OneMore DEF B2
<1>6. a + b * Base + c * B2 \in 0 .. B3 - 1 /\ (a * Base + b) * Base + c \in 0 .. B3 - 1
  BY <1>1, <1>2, <1>5, OneMore
<1>7. /\ a + b * Base + c * B2 + d * B3 \in 0 .. Top - 1
      /\ ((a * Base + b) * Base + c) * Base + d \in 0 .. Top - 1
  BY <1>2, <1>3, <1>6, OneMore
<1>8. /\ a \in 0 .. Top - 1 /\ a + b * Base \in 0 .. Top - 1 /\ a * Base + b \in 0 .. Top - 1
       /\ a + b * Base + c * B2 \in 0 .. Top - 1 /\ (a * Base + b) * Base + c \in 0 .. Top - 1
  <2>1. B2 <= Top /\ B3 <= Top /\ Base <= Top
    BY <1>0, <1>1, <1>2, <1>3
  <2> QED BY <1>0, <1>1, <1>2, <1>3, <1>5, <1>6, <2>1
<1> QED BY <1>4, <1>7, <1>8

\* The sums the code makes of four bytes, by shifts or one after another.
LEMMA LittleSum ==
  ASSUME NEW b, b[0] \in Byte, b[1] \in Byte, b[2] \in Byte, b[3] \in Byte
  PROVE  b[0] + b[1] * Place[1] + b[2] * Place[2] + b[3] * Place[3] = BytesLE(b)
<1>1. \A x, y, z, w \in Int :
        x + y * Base + z * (Base * Base) + w * (Base * Base * Base)
          = x + Base * (y + Base * (z + Base * w))
  BY Sizes
<1>2. b[0] \in Int /\ b[1] \in Int /\ b[2] \in Int /\ b[3] \in Int
  BY Sizes DEF Byte
<1> QED BY <1>1, <1>2, Places DEF BytesLE

LEMMA BigSum ==
  ASSUME NEW b, b[0] \in Byte, b[1] \in Byte, b[2] \in Byte, b[3] \in Byte
  PROVE  /\ b[0] * Place[3] + b[1] * Place[2] + b[2] * Base + b[3] = BytesBE(b)
         /\ ((b[0] * Base + b[1]) * Base + b[2]) * Base + b[3] = BytesBE(b)
<1>1. \A x, y, z, w \in Int :
        /\ x * (Base * Base * Base) + y * (Base * Base) + z * Base + w
             = w + Base * (z + Base * (y + Base * x))
        /\ ((x * Base + y) * Base + z) * Base + w = w + Base * (z + Base * (y + Base * x))
  BY Sizes
<1>2. b[0] \in Int /\ b[1] \in Int /\ b[2] \in Int /\ b[3] \in Int
  BY Sizes DEF Byte
<1> QED BY <1>1, <1>2, Places DEF BytesBE

-----------------------------------------------------------------------------
(* The calls on words, and their loops *)

BytesGiven == {"u32_from_bytes_le", "u32_from_bytes_be", "pack_rgba", "load_u32_le"}
IntsGiven  == {"checked_add_i32", "checked_mul_i32", "avg_no_overflow"}

WordsCalled ==
  /\ fn \in BitsFn \cup StructsFn \cup UbFn
  /\ old \in [Cell(4) -> Int] /\ dst \in [Cell(4) -> Int]
  /\ fn \in BytesGiven => src \in [Cell(4) -> Byte]
  /\ fn \in IntsGiven => n \in IntMin .. IntMax /\ arg \in IntMin .. IntMax
  /\ fn \notin IntsGiven => n \in 0 .. Top - 1
  /\ fn = "safe_lshift" => arg \in Nat
  /\ fn = "unpack_rgba" => f \in SUBSET Cell(4)
  /\ ub => fn = "pack_rgba" /\ 2 * src[0] >= Base

Bits(x) == Cardinality(BitSet(x))

CountInv ==
  /\ pc \in {"entry", "bits", "ret"}
  /\ pc = "entry" => i = 0
  /\ pc = "bits" => j \in 0 .. Top - 1 /\ i \in Nat /\ i + Bits(j) = Bits(n)
  /\ pc = "ret" => ret = IF fn = "is_power_of_two" THEN Truth(Bits(n) = 1) ELSE Bits(n)

LittleInv ==
  /\ pc \in {"entry", "ret"} /\ i \in 0 .. 4
  /\ \A k \in Cell(i) : dst[k] = Digit(n, k)
  /\ pc = "ret" => i = 4

BigInv ==
  /\ pc \in {"entry", "ret"} /\ i \in 0 .. 4
  /\ \A k \in Cell(i) : dst[3 - k] = Digit(n, k)
  /\ pc = "ret" => i = 4

FromLittleInv ==
  /\ pc \in {"entry", "ret"} /\ i \in 0 .. 4
  /\ i = 0 => ret = 0
  /\ i = 1 => ret = src[0]
  /\ i = 2 => ret = src[0] + src[1] * Place[1]
  /\ i = 3 => ret = src[0] + src[1] * Place[1] + src[2] * Place[2]
  /\ i = 4 => ret = src[0] + src[1] * Place[1] + src[2] * Place[2] + src[3] * Place[3]
  /\ pc = "ret" => i = 4

FromBigInv ==
  /\ pc \in {"entry", "ret"} /\ i \in 0 .. 4
  /\ i = 0 => ret = 0
  /\ i = 1 => ret = src[0]
  /\ i = 2 => ret = src[0] * Base + src[1]
  /\ i = 3 => ret = (src[0] * Base + src[1]) * Base + src[2]
  /\ i = 4 => ret = ((src[0] * Base + src[1]) * Base + src[2]) * Base + src[3]
  /\ pc = "ret" => i = 4

\* The rest have one step.
AtOnceInv ==
  /\ pc \in {"entry", "ret"}
  /\ pc = "entry" => dst = old
  /\ pc = "ret" => WordsResult

WordsInv ==
  /\ WordsCalled
  /\ CASE fn \in {"count_set_bits", "is_power_of_two"} -> CountInv
       [] fn = "u32_to_bytes_le" -> LittleInv
       [] fn = "u32_to_bytes_be" -> BigInv
       [] fn = "u32_from_bytes_le" -> FromLittleInv
       [] fn = "u32_from_bytes_be" -> FromBigInv
       [] OTHER -> AtOnceInv

-----------------------------------------------------------------------------
LEMMA WordsStart == WordsInit => WordsInv
<1> SUFFICES ASSUME WordsInit PROVE WordsInv
  OBVIOUS
<1>1. WordsCalled
  <2>1. dst \in [Cell(4) -> Int] /\ old = dst /\ ub = FALSE
    BY DEF WordsInit, Call
  <2>2. fn \in BytesGiven => src \in [Cell(4) -> Byte]
    BY DEF WordsInit, BytesGiven
  <2>3. fn \in IntsGiven => n \in IntArg /\ arg \in IntArg
    BY DEF WordsInit, IntsGiven
  <2>4. fn \notin IntsGiven => n \in 0 .. Top - 1
    BY Sizes DEF WordsInit, IntsGiven
  <2>5. fn = "safe_lshift" => arg \in Nat
    BY Sizes DEF WordsInit
  <2>6. fn = "unpack_rgba" => f \in SUBSET Cell(4)
    BY DEF WordsInit
  <2>7. fn \in BitsFn \cup StructsFn \cup UbFn
    BY DEF WordsInit
  <2> QED BY <2>1, <2>2, <2>3, <2>4, <2>5, <2>6, <2>7, Sizes DEF WordsCalled
<1>2. pc = "entry" /\ i = 0 /\ ret = 0 /\ dst = old
  BY DEF WordsInit, Call
<1> QED BY <1>1, <1>2 DEF WordsInv, CountInv, LittleInv, BigInv, FromLittleInv, FromBigInv,
                           AtOnceInv, Cell

LEMMA WordsStill ==
  ASSUME WordsCalled, UNCHANGED args, UNCHANGED ub, dst' \in [Cell(4) -> Int]
  PROVE  WordsCalled'
BY DEF WordsCalled, args, Cell

LEMMA CountStep ==
  ASSUME WordsCalled, CountInv, count_set_bits, UNCHANGED args, UNCHANGED ub
  PROVE  WordsCalled' /\ CountInv'
<1> USE DEF args, local
<1>1. n \in 0 .. Top - 1 /\ dst' = dst
  BY DEF WordsCalled, count_set_bits, IntsGiven, Return
<1>2. WordsCalled'
  BY <1>1, WordsStill DEF WordsCalled
<1>3. CASE pc = "entry"
  <2>1. pc' = "bits" /\ j' = n /\ i' = 0
    BY <1>3 DEF count_set_bits, CountInv
  <2>2. Bits(n) \in Nat /\ Bits(j)' = Bits(n) /\ Bits(n)' = Bits(n)
    BY <2>1, BitsFinite DEF Bits, BitSet
  <2> QED BY <1>1, <1>2, <2>1, <2>2 DEF CountInv
<1>4. CASE pc = "bits" /\ j # 0
  <2>1. pc' = "bits" /\ j' = DropLowBit(j) /\ i' = i + 1
    BY <1>4 DEF count_set_bits
  <2>2. j \in 0 .. Top - 1 /\ i \in Nat /\ i + Bits(j) = Bits(n)
    BY <1>4 DEF CountInv
  <2>3. j' \in 0 .. Top - 1 /\ Bits(j)' = Bits(j) - 1 /\ Bits(n)' = Bits(n) /\ Bits(j) \in Nat
    BY <1>4, <2>1, <2>2, LowBitDropped, BitsFinite DEF Bits, BitSet
  <2> QED BY <1>2, <2>1, <2>2, <2>3 DEF CountInv
<1>5. CASE pc = "bits" /\ j = 0
  <2>1. pc' = "ret" /\ ret' = IF fn = "is_power_of_two" THEN Truth(i = 1) ELSE i
    BY <1>5 DEF count_set_bits, Return
  <2>2. Bits(j) = 0
    <3>1. 0 \in 0 .. Top - 1
      BY Sizes
    <3>2. BitSet(j) = {}
      BY <1>5, <3>1, SomeBit
    <3> QED BY <3>2, FS_EmptySet DEF Bits
  <2>3. i = Bits(n) /\ Bits(n)' = Bits(n)
    BY <1>5, <2>2 DEF CountInv, Bits, BitSet
  <2> QED BY <1>2, <2>1, <2>3 DEF CountInv, Truth
<1> QED BY <1>3, <1>4, <1>5 DEF count_set_bits

LEMMA LittleStep ==
  ASSUME WordsCalled, LittleInv, fn = "u32_to_bytes_le", u32_bytes, UNCHANGED args, UNCHANGED ub
  PROVE  WordsCalled' /\ LittleInv'
<1> USE DEF args, Cell
<1>1. n \in 0 .. Top - 1 /\ n' = n /\ dst \in [0 .. 3 -> Int]
  BY DEF WordsCalled, IntsGiven
<1>2. CASE ToBytes(i)
  <2>1. i \in 0 .. 3 /\ i' = i + 1 /\ pc' = "entry" /\ dst' = [dst EXCEPT ![i] = Digit(n, i)]
    BY <1>1, <1>2 DEF ToBytes, Store, LittleInv
  <2>2. Digit(n, i) \in Int
    BY <1>1, <2>1, Digits, Sizes DEF Byte
  <2>3. WordsCalled'
    BY <1>1, <2>1, <2>2, WordsStill
  <2>4. \A k \in 0 .. 3 : Digit(n, k)' = Digit(n, k)
    BY <1>1 DEF Digit
  <2>5. \A k \in 0 .. i : dst'[k] = Digit(n, k)
    BY <1>1, <2>1 DEF LittleInv
  <2> QED BY <2>1, <2>3, <2>4, <2>5 DEF LittleInv
<1>3. CASE BytesEnd
  <2>1. WordsCalled'
    BY <1>1, <1>3, WordsStill DEF BytesEnd, Return
  <2> QED BY <1>1, <1>3, <2>1 DEF BytesEnd, Return, LittleInv, Digit
<1> QED BY <1>2, <1>3 DEF u32_bytes

LEMMA BigStep ==
  ASSUME WordsCalled, BigInv, fn = "u32_to_bytes_be", u32_bytes, UNCHANGED args, UNCHANGED ub
  PROVE  WordsCalled' /\ BigInv'
<1> USE DEF args, Cell
<1>1. n \in 0 .. Top - 1 /\ n' = n /\ dst \in [0 .. 3 -> Int]
  BY DEF WordsCalled, IntsGiven
<1>2. CASE ToBytes(3 - i)
  <2>1. i \in 0 .. 3 /\ i' = i + 1 /\ pc' = "entry" /\ dst' = [dst EXCEPT ![3 - i] = Digit(n, i)]
    BY <1>1, <1>2 DEF ToBytes, Store, BigInv
  <2>2. Digit(n, i) \in Int
    BY <1>1, <2>1, Digits, Sizes DEF Byte
  <2>3. WordsCalled'
    BY <1>1, <2>1, <2>2, WordsStill
  <2>4. \A k \in 0 .. 3 : Digit(n, k)' = Digit(n, k)
    BY <1>1 DEF Digit
  <2>5. \A k \in 0 .. i : dst'[3 - k] = Digit(n, k)
    BY <1>1, <2>1 DEF BigInv
  <2> QED BY <2>1, <2>3, <2>4, <2>5 DEF BigInv
<1>3. CASE BytesEnd
  <2>1. WordsCalled'
    BY <1>1, <1>3, WordsStill DEF BytesEnd, Return
  <2> QED BY <1>1, <1>3, <2>1 DEF BytesEnd, Return, BigInv, Digit
<1> QED BY <1>2, <1>3 DEF u32_bytes

LEMMA InRange ==
  ASSUME NEW x \in 0 .. Top - 1
  PROVE  x % Top = x
<1>1. x \in Nat /\ Top \in Nat \ {0} /\ x = Top * 0 + x
  BY Sizes
<1> QED BY <1>1, DivUnique

LEMMA FromLittleStep ==
  ASSUME WordsCalled, FromLittleInv, fn = "u32_from_bytes_le", u32_bytes,
         UNCHANGED args, UNCHANGED ub
  PROVE  WordsCalled' /\ FromLittleInv'
<1> USE DEF args
<1>1. src \in [0 .. 3 -> Byte] /\ src' = src /\ dst' = dst
  BY DEF WordsCalled, BytesGiven, Cell, u32_bytes, FromBytes, BytesEnd, Return
<1>2. WordsCalled'
  BY <1>1, WordsStill DEF WordsCalled
<1>3. CASE FromBytes(ret + src[i] * Place[i])
  <2>1. i \in 0 .. 3 /\ i' = i + 1 /\ pc' = "entry" /\ ret' = (ret + src[i] * Place[i]) % Top
    BY <1>3 DEF FromBytes, FromLittleInv
  <2>2. /\ src[0] \in Byte /\ src[1] \in Byte /\ src[2] \in Byte /\ src[3] \in Byte
        /\ src[0] \in Nat
    BY <1>1, Sizes DEF Byte
  <2>3. CASE i = 0
    <3>1. 0 + src[0] * Place[0] = src[0]
      BY <2>2, Places
    <3>2. src[0] \in 0 .. Top - 1
      BY <2>2, FourBytes
    <3>3. ret' = src[0]
      BY <2>1, <2>3, <3>1, <3>2, InRange DEF FromLittleInv
    <3> QED BY <1>1, <1>2, <2>1, <2>3, <3>3 DEF FromLittleInv
  <2>4. CASE i = 1
    <3>1. src[0] + src[1] * Place[1] \in 0 .. Top - 1
      BY <2>2, FourBytes
    <3>2. ret' = src[0] + src[1] * Place[1]
      BY <2>1, <2>4, <3>1, InRange DEF FromLittleInv
    <3> QED BY <1>1, <1>2, <2>1, <2>4, <3>2 DEF FromLittleInv, Place
  <2>5. CASE i = 2
    <3>1. src[0] + src[1] * Place[1] + src[2] * Place[2] \in 0 .. Top - 1
      BY <2>2, FourBytes
    <3>2. ret' = src[0] + src[1] * Place[1] + src[2] * Place[2]
      BY <2>1, <2>5, <3>1, InRange DEF FromLittleInv
    <3> QED BY <1>1, <1>2, <2>1, <2>5, <3>2 DEF FromLittleInv, Place
  <2>6. CASE i = 3
    <3>1. src[0] + src[1] * Place[1] + src[2] * Place[2] + src[3] * Place[3] \in 0 .. Top - 1
      BY <2>2, FourBytes
    <3>2. ret' = src[0] + src[1] * Place[1] + src[2] * Place[2] + src[3] * Place[3]
      BY <2>1, <2>6, <3>1, InRange DEF FromLittleInv
    <3> QED BY <1>1, <1>2, <2>1, <2>6, <3>2 DEF FromLittleInv, Place
  <2> QED BY <2>1, <2>3, <2>4, <2>5, <2>6
<1>4. CASE BytesEnd
  BY <1>1, <1>2, <1>4 DEF BytesEnd, Return, FromLittleInv, Place
<1> QED BY <1>3, <1>4 DEF u32_bytes

LEMMA FromBigStep ==
  ASSUME WordsCalled, FromBigInv, fn = "u32_from_bytes_be", u32_bytes,
         UNCHANGED args, UNCHANGED ub
  PROVE  WordsCalled' /\ FromBigInv'
<1> USE DEF args
<1>1. src \in [0 .. 3 -> Byte] /\ src' = src /\ dst' = dst
  BY DEF WordsCalled, BytesGiven, Cell, u32_bytes, FromBytes, BytesEnd, Return
<1>2. WordsCalled'
  BY <1>1, WordsStill DEF WordsCalled
<1>3. CASE FromBytes(ret * Base + src[i])
  <2>1. i \in 0 .. 3 /\ i' = i + 1 /\ pc' = "entry" /\ ret' = (ret * Base + src[i]) % Top
    BY <1>3 DEF FromBytes, FromBigInv
  <2>2. /\ src[0] \in Byte /\ src[1] \in Byte /\ src[2] \in Byte /\ src[3] \in Byte
        /\ src[0] \in Nat
    BY <1>1, Sizes DEF Byte
  <2>3. CASE i = 0
    <3>1. 0 * Base + src[0] = src[0]
      BY <2>2, Sizes
    <3>2. src[0] \in 0 .. Top - 1
      BY <2>2, FourBytes
    <3>3. ret' = src[0]
      BY <2>1, <2>3, <3>1, <3>2, InRange DEF FromBigInv
    <3> QED BY <1>1, <1>2, <2>1, <2>3, <3>3 DEF FromBigInv
  <2>4. CASE i = 1
    <3>1. src[0] * Base + src[1] \in 0 .. Top - 1
      BY <2>2, FourBytes
    <3>2. ret' = src[0] * Base + src[1]
      BY <2>1, <2>4, <3>1, InRange DEF FromBigInv
    <3> QED BY <1>1, <1>2, <2>1, <2>4, <3>2 DEF FromBigInv
  <2>5. CASE i = 2
    <3>1. (src[0] * Base + src[1]) * Base + src[2] \in 0 .. Top - 1
      BY <2>2, FourBytes
    <3>2. ret' = (src[0] * Base + src[1]) * Base + src[2]
      BY <2>1, <2>5, <3>1, InRange DEF FromBigInv
    <3> QED BY <1>1, <1>2, <2>1, <2>5, <3>2 DEF FromBigInv
  <2>6. CASE i = 3
    <3>1. ((src[0] * Base + src[1]) * Base + src[2]) * Base + src[3] \in 0 .. Top - 1
      BY <2>2, FourBytes
    <3>2. ret' = ((src[0] * Base + src[1]) * Base + src[2]) * Base + src[3]
      BY <2>1, <2>6, <3>1, InRange DEF FromBigInv
    <3> QED BY <1>1, <1>2, <2>1, <2>6, <3>2 DEF FromBigInv
  <2> QED BY <2>1, <2>3, <2>4, <2>5, <2>6
<1>4. CASE BytesEnd
  BY <1>1, <1>2, <1>4 DEF BytesEnd, Return, FromBigInv
<1> QED BY <1>3, <1>4 DEF u32_bytes

-----------------------------------------------------------------------------
(* The routines of one step *)

AtOnce == (BitsFn \cup StructsFn \cup UbFn)
            \ {"count_set_bits", "is_power_of_two", "u32_to_bytes_le", "u32_to_bytes_be",
               "u32_from_bytes_le", "u32_from_bytes_be"}

\* Such a step, in terms of what it leaves behind.
LEMMA OneStep ==
  ASSUME WordsCalled, UNCHANGED args, dst' \in [Cell(4) -> Int], pc' = "ret",
         WordsResult', ub' => fn = "pack_rgba" /\ 2 * src[0] >= Base
  PROVE  WordsCalled' /\ AtOnceInv'
BY DEF WordsCalled, AtOnceInv, args, Cell

\* A shift by the width or more leaves nothing of the word.
LEMMA ShiftedOut ==
  ASSUME NEW x \in 0 .. Top - 1, NEW s \in Nat, s >= WordBits
  PROVE  (x * 2 ^ s) % Top = 0
<1> DEFINE t == 2 ^ (s - WordBits)
<1>1. t \in Nat /\ 2 ^ s = Top * t
  <2>1. s - WordBits \in Nat /\ s = WordBits + (s - WordBits)
    BY Sizes
  <2> QED BY <2>1, Sizes, PowAdd, PowNat
<1> HIDE DEF t
<1>2. x * t \in Nat /\ x * (Top * t) = Top * (x * t) + 0 /\ 0 \in 0 .. Top - 1
  BY <1>1, Sizes
<1>3. Top * (x * t) + 0 \in Nat
  BY <1>2, Sizes
<1>4. (Top * (x * t) + 0) % Top = 0
  BY <1>2, <1>3, Sizes, DivUnique
<1>5. x * 2 ^ s = Top * (x * t) + 0
  BY <1>1, <1>2
<1> QED BY <1>4, <1>5

\* The product overflows an int exactly when the top bit of the byte is set.
LEMMA TopByte ==
  ASSUME NEW a \in Byte
  PROVE  a * Place[3] > IntMax <=> 2 * a >= Base
<1> DEFINE B3 == Base * Base * Base
           b  == Base \div 2
<1>1. b \in Nat /\ Base = 2 * b /\ b >= 1 /\ a \in Nat
  BY Sizes DEF Byte
<1>2. B3 \in Nat /\ B3 >= 1
  <2>1. Base * Base \in Nat /\ Base * Base >= 1
    BY Sizes
  <2> QED BY <2>1, Sizes
<1>3. Place[3] = B3 /\ Top = B3 * Base
  BY Places, Sizes DEF Top
<1> HIDE DEF B3, b
<1>4. Top = 2 * (B3 * b) /\ B3 * b \in Nat
  BY <1>1, <1>2, <1>3
<1>5. IntMax = B3 * b - 1
  BY <1>4, Sizes
<1>6. a >= b => a * B3 >= B3 * b
  BY <1>1, <1>2
<1>7. a <= b - 1 => a * B3 <= B3 * b - B3
  <2> SUFFICES ASSUME a <= b - 1 PROVE a * B3 <= B3 * b - B3
    OBVIOUS
  <2>1. a * B3 <= (b - 1) * B3
    BY <1>1, <1>2
  <2> QED BY <1>1, <1>2, <2>1
<1>8. a * B3 \in Nat
  BY <1>1, <1>2
<1> QED BY <1>1, <1>2, <1>3, <1>4, <1>5, <1>6, <1>7, <1>8

LEMMA StubsStep ==
  ASSUME WordsCalled, AtOnceInv, BitStubs, UNCHANGED args, UNCHANGED ub
  PROVE  WordsCalled' /\ AtOnceInv'
<1>1. pc' = "ret" /\ dst' = dst /\ fn' = fn
  BY DEF BitStubs, Return, args
<1>2. WordsResult'
  BY <1>1 DEF WordsResult, BitStubs, BitsFn
<1> QED BY <1>1, <1>2, OneStep DEF WordsCalled

LEMMA UnpackStep ==
  ASSUME WordsCalled, AtOnceInv, unpack_rgba, UNCHANGED args, UNCHANGED ub
  PROVE  WordsCalled' /\ AtOnceInv'
<1> USE DEF args, Cell
<1>1. fn = "unpack_rgba" /\ pc' = "ret" /\ dst = old
  BY DEF unpack_rgba, AtOnceInv
<1>2. n \in 0 .. Top - 1 /\ f \in SUBSET (0 .. 3) /\ dst \in [0 .. 3 -> Int]
  BY <1>1 DEF WordsCalled, IntsGiven
<1>3. \A k \in 0 .. 3 : Digit(n, 3 - k) \in Int
  <2>1. \A k \in 0 .. 3 : 3 - k \in 0 .. 3
    OBVIOUS
  <2> QED BY <1>2, <2>1, Digits, Sizes DEF Byte
<1>4. dst' = [k \in 0 .. 3 |-> IF k \in f THEN Digit(n, 3 - k) ELSE dst[k]]
  BY <1>2 DEF unpack_rgba
<1>5. WordsResult'
  <2>1. \A k \in Cell(4) : dst'[k] = IF k \in f THEN Digit(n, 3 - k) ELSE old[k]
    BY <1>1, <1>4
  <2> QED BY <1>1, <2>1 DEF WordsResult, Digit
<1>6. dst' \in [0 .. 3 -> Int]
  BY <1>2, <1>3, <1>4
<1> QED BY <1>1, <1>5, <1>6, OneStep DEF unpack_rgba, WordsCalled

LEMMA PackStep ==
  ASSUME WordsCalled, AtOnceInv, pack_rgba, UNCHANGED args
  PROVE  WordsCalled' /\ AtOnceInv'
<1> USE DEF args, Cell
<1>1. fn = "pack_rgba" /\ pc' = "ret" /\ dst' = dst
  BY DEF pack_rgba, Return
<1>2. src[0] \in Byte /\ src[1] \in Byte /\ src[2] \in Byte /\ src[3] \in Byte
  BY <1>1 DEF WordsCalled, BytesGiven
<1>3. ub' => 2 * src[0] >= Base
  BY <1>2, TopByte DEF pack_rgba
<1>4. ret' = BytesBE(src)
  <2>1. src[0] * Place[3] + src[1] * Place[2] + src[2] * Base + src[3] = BytesBE(src)
    BY <1>2, BigSum
  <2>2. ret' = src[0] * Place[3] + src[1] * Place[2] + src[2] * Base + src[3]
    BY DEF pack_rgba, Return
  <2> QED BY <2>1, <2>2
<1>5. WordsResult'
  BY <1>1, <1>4 DEF WordsResult, BytesBE
<1> QED BY <1>1, <1>3, <1>5, OneStep DEF WordsCalled

LEMMA AddStep ==
  ASSUME WordsCalled, AtOnceInv, checked_add_i32, UNCHANGED args
  PROVE  WordsCalled' /\ AtOnceInv'
<1> USE DEF args, Cell
<1>1. fn = "checked_add_i32" /\ pc' = "ret" /\ dst = old
  BY DEF checked_add_i32, AtOnceInv, Answer
<1>2. n \in IntMin .. IntMax /\ arg \in IntMin .. IntMax /\ dst \in [0 .. 3 -> Int]
  BY <1>1 DEF WordsCalled, IntsGiven
<1>3. IntMax \in Nat /\ IntMin = -IntMax - 1
  BY Sizes
<1> DEFINE high == arg > 0 /\ n > IntMax - arg
           low  == arg < 0 /\ n < IntMin - arg
<1>4. IsInt(n + arg) <=> ~high /\ ~low
  BY <1>2, <1>3 DEF IsInt
<1>5. arg > 0 => IsInt(IntMax - arg)
  BY <1>2, <1>3 DEF IsInt
<1>6. arg < 0 => IsInt(IntMin - arg)
  BY <1>2, <1>3 DEF IsInt
<1>7. ub' = FALSE
  <2> HIDE DEF high, low
  <2>1. ub' = \/ arg > 0 /\ ~IsInt(IntMax - arg)
              \/ ~high /\ arg < 0 /\ ~IsInt(IntMin - arg)
              \/ ~high /\ ~low /\ ~IsInt(n + arg)
    BY DEF checked_add_i32, high, low
  <2> QED BY <1>4, <1>5, <1>6, <2>1
<1>8. IF IsInt(n + arg) THEN ret' = 1 /\ dst' = [dst EXCEPT ![0] = n + arg]
                        ELSE ret' = 0 /\ dst' = dst
  <2>1. Answer(~high /\ ~low, n + arg)
    BY DEF checked_add_i32
  <2> QED BY <1>4, <2>1 DEF Answer, Truth
<1>9. dst' \in [0 .. 3 -> Int] /\ (IsInt(n + arg) => dst'[0] = n + arg)
  <2>1. n + arg \in Int
    BY <1>2, <1>3
  <2> QED BY <1>2, <1>8, <2>1
<1>10. WordsResult'
  BY <1>1, <1>8, <1>9 DEF WordsResult, IsInt
<1> QED BY <1>1, <1>7, <1>9, <1>10, OneStep

LEMMA MulStep ==
  ASSUME WordsCalled, AtOnceInv, checked_mul_i32, UNCHANGED args
  PROVE  WordsCalled' /\ AtOnceInv'
<1> USE DEF args, Cell
<1>1. fn = "checked_mul_i32" /\ pc' = "ret" /\ dst = old /\ ub' = ub
  BY DEF checked_mul_i32, AtOnceInv, Answer
<1>2. n \in Int /\ arg \in Int /\ dst \in [0 .. 3 -> Int]
  BY <1>1, Sizes DEF WordsCalled, IntsGiven
<1> DEFINE product == n * arg
<1>3. product \in Int
  BY <1>2
<1>4. IF IsInt(product) THEN ret' = 1 /\ dst' = [dst EXCEPT ![0] = product]
                        ELSE ret' = 0 /\ dst' = dst
  BY DEF checked_mul_i32, Answer, Truth
<1>5. product' = product /\ IsInt(product)' = IsInt(product)
  BY DEF IsInt
<1> HIDE DEF product
<1>6. dst' \in [0 .. 3 -> Int] /\ (IsInt(product) => dst'[0] = product)
  BY <1>2, <1>3, <1>4
<1>7. WordsResult'
  BY <1>1, <1>4, <1>5, <1>6 DEF WordsResult, product, IsInt
<1> QED BY <1>1, <1>6, <1>7, OneStep DEF WordsCalled

LEMMA AverageStep ==
  ASSUME WordsCalled, AtOnceInv, avg_no_overflow, UNCHANGED args
  PROVE  WordsCalled' /\ AtOnceInv'
<1> USE DEF args
<1>1. fn = "avg_no_overflow" /\ pc' = "ret" /\ dst' = dst /\ ub' = ub /\ ret' = Half(n + arg)
  BY DEF avg_no_overflow, Return
<1>2. n \in Int /\ arg \in Int
  BY <1>1, Sizes DEF WordsCalled, IntsGiven
<1>3. \A x \in Int : /\ 2 * Half(x) - x \in {-1, 0, 1}
                     /\ x > 0 => 2 * Half(x) <= x
                     /\ x < 0 => 2 * Half(x) >= x
  BY DEF Half
<1>4. WordsResult'
  BY <1>1, <1>2, <1>3 DEF WordsResult
<1> QED BY <1>1, <1>4, OneStep DEF WordsCalled

LEMMA ShiftStep ==
  ASSUME WordsCalled, AtOnceInv, safe_lshift, UNCHANGED args
  PROVE  WordsCalled' /\ AtOnceInv'
<1> USE DEF args
<1>1. fn = "safe_lshift" /\ pc' = "ret" /\ dst' = dst /\ ub' = ub
      /\ ret' = IF arg >= WordBits THEN 0 ELSE (n * 2 ^ arg) % Top
  BY DEF safe_lshift, Return
<1>2. n \in 0 .. Top - 1 /\ arg \in Nat
  BY <1>1 DEF WordsCalled, IntsGiven
<1>3. ret' = (n * 2 ^ arg) % Top
  BY <1>1, <1>2, ShiftedOut
<1>4. WordsResult'
  BY <1>1, <1>3 DEF WordsResult
<1> QED BY <1>1, <1>4, OneStep DEF WordsCalled

LEMMA LoadStep ==
  ASSUME WordsCalled, AtOnceInv, load_u32_le, UNCHANGED args
  PROVE  WordsCalled' /\ AtOnceInv'
<1> USE DEF args, Cell
<1>1. fn = "load_u32_le" /\ pc' = "ret" /\ dst' = dst /\ ub' = ub
  BY DEF load_u32_le, Return
<1>2. src[0] \in Byte /\ src[1] \in Byte /\ src[2] \in Byte /\ src[3] \in Byte
  BY <1>1 DEF WordsCalled, BytesGiven
<1>3. ret' = src[0] + src[1] * Place[1] + src[2] * Place[2] + src[3] * Place[3]
  BY Places DEF load_u32_le, Return
<1>4. ret' = BytesLE(src)
  BY <1>2, <1>3, LittleSum
<1>5. WordsResult'
  BY <1>1, <1>4 DEF WordsResult, BytesLE
<1> QED BY <1>1, <1>5, OneStep DEF WordsCalled

-----------------------------------------------------------------------------
(* Every step, and what the invariant gives *)

LEMMA WordsStep == WordsInv /\ [WordsNext]_frame => WordsInv'
<1> SUFFICES ASSUME WordsInv, [WordsNext]_frame PROVE WordsInv'
  OBVIOUS
<1>0. WordsCalled
  BY DEF WordsInv
<1>1. CASE UNCHANGED frame
  BY <1>1 DEF WordsInv, WordsCalled, CountInv, LittleInv, BigInv, FromLittleInv, FromBigInv,
              AtOnceInv, WordsResult, frame, args, local, Bits, BitSet, Digit, BytesLE, BytesBE,
              IsInt
<1>2. CASE WordsNext
  <2>0. UNCHANGED args /\ fn' = fn
    BY <1>2 DEF WordsNext, args
  <2>1. CASE fn \in {"count_set_bits", "is_power_of_two"}
    <3>1. count_set_bits /\ UNCHANGED ub
      BY <1>2, <2>1 DEF WordsNext, BitStubs, u32_bytes, unpack_rgba, pack_rgba, checked_add_i32,
                        checked_mul_i32, avg_no_overflow, safe_lshift, load_u32_le
    <3>2. CountInv
      BY <2>1 DEF WordsInv
    <3> QED BY <1>0, <2>0, <2>1, <3>1, <3>2, CountStep DEF WordsInv
  <2>2. CASE fn = "u32_to_bytes_le"
    <3>1. u32_bytes /\ UNCHANGED ub
      BY <1>2, <2>2 DEF WordsNext, BitStubs, BitsFn, count_set_bits, unpack_rgba, pack_rgba,
                        checked_add_i32, checked_mul_i32, avg_no_overflow, safe_lshift, load_u32_le
    <3> QED BY <1>0, <2>0, <2>2, <3>1, LittleStep DEF WordsInv
  <2>3. CASE fn = "u32_to_bytes_be"
    <3>1. u32_bytes /\ UNCHANGED ub
      BY <1>2, <2>3 DEF WordsNext, BitStubs, BitsFn, count_set_bits, unpack_rgba, pack_rgba,
                        checked_add_i32, checked_mul_i32, avg_no_overflow, safe_lshift, load_u32_le
    <3> QED BY <1>0, <2>0, <2>3, <3>1, BigStep DEF WordsInv
  <2>4. CASE fn = "u32_from_bytes_le"
    <3>1. u32_bytes /\ UNCHANGED ub
      BY <1>2, <2>4 DEF WordsNext, BitStubs, BitsFn, count_set_bits, unpack_rgba, pack_rgba,
                        checked_add_i32, checked_mul_i32, avg_no_overflow, safe_lshift, load_u32_le
    <3> QED BY <1>0, <2>0, <2>4, <3>1, FromLittleStep DEF WordsInv
  <2>5. CASE fn = "u32_from_bytes_be"
    <3>1. u32_bytes /\ UNCHANGED ub
      BY <1>2, <2>5 DEF WordsNext, BitStubs, BitsFn, count_set_bits, unpack_rgba, pack_rgba,
                        checked_add_i32, checked_mul_i32, avg_no_overflow, safe_lshift, load_u32_le
    <3> QED BY <1>0, <2>0, <2>5, <3>1, FromBigStep DEF WordsInv
  <2>6. CASE fn \in AtOnce
    <3>1. AtOnceInv
      BY <2>6 DEF WordsInv, AtOnce
    <3>2. \/ (BitStubs \/ unpack_rgba) /\ UNCHANGED ub
          \/ pack_rgba \/ checked_add_i32 \/ checked_mul_i32 \/ avg_no_overflow
          \/ safe_lshift \/ load_u32_le
      BY <1>2, <2>6 DEF WordsNext, AtOnce, count_set_bits, u32_bytes
    <3>3. WordsCalled' /\ AtOnceInv'
      BY <1>0, <2>0, <3>1, <3>2, StubsStep, UnpackStep, PackStep, AddStep, MulStep, AverageStep,
         ShiftStep, LoadStep
    <3> QED BY <2>0, <2>6, <3>3 DEF WordsInv, AtOnce
  <2> QED BY <1>0, <2>1, <2>2, <2>3, <2>4, <2>5, <2>6 DEF WordsCalled, AtOnce
<1> QED BY <1>1, <1>2

LEMMA WordsDone == WordsInv => WordsResult
<1> SUFFICES ASSUME WordsInv, pc = "ret" PROVE WordsResult
  BY DEF WordsResult
<1>0. WordsCalled
  BY DEF WordsInv
<1>1. CASE fn \in {"count_set_bits", "is_power_of_two"}
  <2>1. n \in 0 .. Top - 1
    BY <1>0, <1>1 DEF WordsCalled, IntsGiven
  <2>2. CountInv
    BY <1>1 DEF WordsInv
  <2>3. fn = "is_power_of_two" => (ret = 1 <=> \E k \in 0 .. WordBits - 1 : n = 2 ^ k)
    BY <2>1, <2>2, OneBit DEF CountInv, Bits, Truth
  <2> QED BY <1>1, <2>2, <2>3 DEF WordsResult, CountInv, Bits
<1>2. CASE fn = "u32_to_bytes_le"
  <2>1. n \in 0 .. Top - 1
    BY <1>0, <1>2 DEF WordsCalled, IntsGiven
  <2>2. \A k \in 0 .. 3 : dst[k] = Digit(n, k)
    BY <1>2 DEF WordsInv, LittleInv, Cell
  <2>3. BytesLE(dst) = n
    BY <2>1, <2>2, Digits DEF BytesLE
  <2> QED BY <1>2, <2>3 DEF WordsResult
<1>3. CASE fn = "u32_to_bytes_be"
  <2>1. n \in 0 .. Top - 1
    BY <1>0, <1>3 DEF WordsCalled, IntsGiven
  <2>2. \A k \in 0 .. 3 : dst[3 - k] = Digit(n, k)
    BY <1>3 DEF WordsInv, BigInv, Cell
  <2>3. dst[3] = Digit(n, 0) /\ dst[2] = Digit(n, 1) /\ dst[1] = Digit(n, 2) /\ dst[0] = Digit(n, 3)
    BY <2>2, 3 - 0 = 3, 3 - 1 = 2, 3 - 2 = 1, 3 - 3 = 0
  <2>4. BytesBE(dst) = n
    BY <2>1, <2>3, Digits DEF BytesBE
  <2> QED BY <1>3, <2>4 DEF WordsResult
<1>4. CASE fn = "u32_from_bytes_le"
  <2>1. src[0] \in Byte /\ src[1] \in Byte /\ src[2] \in Byte /\ src[3] \in Byte
    BY <1>0, <1>4 DEF WordsCalled, BytesGiven, Cell
  <2>2. ret = src[0] + src[1] * Place[1] + src[2] * Place[2] + src[3] * Place[3]
    BY <1>4 DEF WordsInv, FromLittleInv
  <2>3. ret = BytesLE(src)
    BY <2>1, <2>2, LittleSum
  <2> QED BY <1>4, <2>3 DEF WordsResult
<1>5. CASE fn = "u32_from_bytes_be"
  <2>1. src[0] \in Byte /\ src[1] \in Byte /\ src[2] \in Byte /\ src[3] \in Byte
    BY <1>0, <1>5 DEF WordsCalled, BytesGiven, Cell
  <2>2. ret = ((src[0] * Base + src[1]) * Base + src[2]) * Base + src[3]
    BY <1>5 DEF WordsInv, FromBigInv
  <2>3. ret = BytesBE(src)
    BY <2>1, <2>2, BigSum
  <2> QED BY <1>5, <2>3 DEF WordsResult
<1>6. CASE fn \in AtOnce
  BY <1>6 DEF WordsInv, AtOnce, AtOnceInv
<1> QED BY <1>0, <1>1, <1>2, <1>3, <1>4, <1>5, <1>6 DEF WordsCalled, AtOnce

LEMMA WordsBounded == WordsInv => pc # "abort" /\ (ub => fn = "pack_rgba" /\ 2 * src[0] >= Base)
BY DEF WordsInv, WordsCalled, CountInv, LittleInv, BigInv, FromLittleInv, FromBigInv, AtOnceInv

-----------------------------------------------------------------------------
(* Arrays or words *)

\* No routine on arrays has undefined behaviour.
RoutineInv == (ArraysInv /\ ub = FALSE) \/ WordsInv

LEMMA RoutineStep == RoutineInv /\ [ArraysNext \/ WordsNext]_frame => RoutineInv'
<1> SUFFICES ASSUME RoutineInv, [ArraysNext \/ WordsNext]_frame PROVE RoutineInv'
  OBVIOUS
<1>1. fn \in PointersFn \cup FuncPtrFn \cup SafetyFn => ~WordsNext
  BY DEF PointersFn, FuncPtrFn, SafetyFn, BitsFn, WordsNext, count_set_bits, BitStubs, u32_bytes,
         unpack_rgba, pack_rgba, checked_add_i32, checked_mul_i32, avg_no_overflow, safe_lshift,
         load_u32_le
<1>2. fn \in BitsFn \cup StructsFn \cup UbFn => ~ArraysNext
  BY DEF BitsFn, StructsFn, UbFn, ArraysNext, PointersNext, FuncPtrNext, SafetyNext, swap_int,
         reverse_array, my_memcpy, my_memmove, rotate_left, int_map, int_filter, int_reduce,
         sort_ints, safe_strcpy, safe_strcat, copy_n_safe
<1>3. CASE ArraysInv /\ ub = FALSE
  <2>1. [ArraysNext]_frame
    BY <1>1, <1>3 DEF ArraysInv, Called
  <2>2. ub' = ub
    BY <2>1 DEF ArraysNext, PointersNext, FuncPtrNext, SafetyNext, frame
  <2> QED BY <1>3, <2>1, <2>2, ArraysStep DEF RoutineInv
<1>4. CASE WordsInv
  BY <1>2, <1>4, WordsStep DEF RoutineInv, WordsInv, WordsCalled
<1> QED BY <1>3, <1>4 DEF RoutineInv
=============================================================================
