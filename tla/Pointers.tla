------------------------------ MODULE Pointers ------------------------------
(***************************************************************************)
(* ProperC/src/pointers.c as it stands, three of its five routines not yet *)
(* what pointers.h asks for.                                               *)
(***************************************************************************)
EXTENDS CRoutine

PointersFn == {"swap_int", "reverse_array", "my_memcpy", "my_memmove", "rotate_left"}

\* a is dst[0] and b is dst[1]; a = b repoints the parameter and stores nothing.
swap_int == /\ fn = "swap_int" /\ pc = "entry"
            /\ Store({0, 1} \subseteq DOMAIN dst, [dst EXCEPT ![1] = dst[0]], "ret")
            /\ UNCHANGED local

ReverseEntry == /\ pc = "entry"
                /\ IF n = 0 THEN Return(0)
                   ELSE i' = 0 /\ j' = n - 1 /\ pc' = "swap" /\ UNCHANGED <<dst, ret>>

ReverseSwap == /\ pc = "swap" /\ i < j
               /\ Store({i, j} \subseteq DOMAIN dst, Swap(dst, i, j), "swap")
               /\ i' = i + 1 /\ j' = j - 1
               /\ UNCHANGED ret

ReverseEnd == pc = "swap" /\ i >= j /\ Return(0)

reverse_array == fn = "reverse_array" /\ (ReverseEntry \/ ReverseSwap \/ ReverseEnd)

\* It ends with NULL (0), whatever it copied.
my_memcpy == /\ fn = "my_memcpy" /\ pc = "entry"
             /\ IF i < n
                THEN /\ Store(i \in DOMAIN dst /\ i \in DOMAIN src,
                              [dst EXCEPT ![i] = src[i]], "entry")
                     /\ i' = i + 1
                     /\ UNCHANGED <<j, ret>>
                ELSE Return(0)

\* The bodies that do nothing yet.
my_memmove  == fn = "my_memmove" /\ pc = "entry" /\ Return(1)
rotate_left == fn = "rotate_left" /\ pc = "entry" /\ Return(0)

\* Two ints to swap, n cells to reverse or rotate, n bytes in both regions.
PointersInit == /\ fn \in PointersFn
                /\ n \in Length /\ arg = 0 /\ f = <<>>
                /\ fn = "swap_int" => n = 2
                /\ dst \in Array(n) /\ src \in Array(n) /\ Call

PointersNext == /\ swap_int \/ reverse_array \/ my_memcpy \/ my_memmove \/ rotate_left
                /\ UNCHANGED <<args, ub>>

-----------------------------------------------------------------------------
\* `Reverse arr[0..n) in place' and the cells of `Copy n bytes from src to dst'
\* (pointers.h:9 and :13), for arrays of every length, the empty one and the odd ones
\* included.  The rest of pointers.h is not kept, and nothing is asserted of it: what
\* my_memcpy returns is NULL and not dst (pointers.c:28), swap_int stores in b alone
\* (:6), my_memmove and rotate_left (:31 to :41) do not touch the array.
PointersResult ==
  pc = "ret" =>
    /\ fn = "reverse_array" => \A k \in Cell(n) : dst[k] = old[n - 1 - k]
    /\ fn = "my_memcpy" => \A k \in Cell(n) : dst[k] = src[k]
=============================================================================
