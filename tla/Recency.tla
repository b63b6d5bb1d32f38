------------------------------ MODULE Recency ------------------------------
(***************************************************************************)
(* Lists of keys in order of use, oldest first, without repetition: what a *)
(* Python dict is to a cache that pops and re-inserts the key it touches.  *)
(***************************************************************************)
EXTENDS Integers, Sequences

Keys(s) == {s[i] : i \in DOMAIN s}

NoRepeats(s) == \A i, j \in DOMAIN s : s[i] = s[j] => i = j

Position(s, k) == CHOOSE i \in DOMAIN s : s[i] = k

\* dict.pop(k): the other keys keep their order.
Pop(s, k) == LET p == Position(s, k)
             IN  [i \in 1..(Len(s) - 1) |-> IF i < p THEN s[i] ELSE s[i + 1]]

\* k becomes the most recently used.
Touch(s, k) == Append(IF k \in Keys(s) THEN Pop(s, k) ELSE s, k)

\* The c most recently used keys.
Newest(s, c) == IF Len(s) <= c THEN s
                ELSE [i \in 1..c |-> s[Len(s) - c + i]]
=============================================================================
