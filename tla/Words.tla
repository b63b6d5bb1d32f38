------------------------------- MODULE Words -------------------------------
(***************************************************************************)
(* ProperC/src/bits.c, structs.c and ub.c: integers of fixed width.  A     *)
(* byte has Base values and a word four bytes (256 and 32 bits in C), so   *)
(* that TLC can try every word of a small machine.  Words are naturals,    *)
(* ints are in IntMin .. IntMax; out is dst[0].                            *)
(***************************************************************************)
EXTENDS CRoutine, FiniteSets

CONSTANTS Base, WordBits,
          IntArg   \* the ints the callers of ub.c pass

Byte   == 0 .. Base - 1
Top    == Base * Base * Base * Base
IntMax == Top \div 2 - 1
IntMin == -IntMax - 1

ASSUME BaseAssumption == Base \in Nat /\ Base >= 2 /\ Base % 2 = 0
ASSUME WordAssumption == /\ WordBits \in Nat /\ 2 ^ WordBits = Top
                         /\ IntArg \subseteq IntMin .. IntMax

BitsFn    == {"count_set_bits", "is_power_of_two", "reverse_bits", "set_bit",
              "clear_bit", "toggle_bit", "count_trailing_zeros"}
StructsFn == {"u32_to_bytes_le", "u32_to_bytes_be", "u32_from_bytes_le",
              "u32_from_bytes_be", "pack_rgba", "unpack_rgba"}
UbFn      == {"checked_add_i32", "checked_mul_i32", "avg_no_overflow",
              "safe_lshift", "load_u32_le"}

Place        == [k \in 0 .. 3 |-> CASE k = 0 -> 1 [] k = 1 -> Base [] k = 2 -> Base * Base
                                     [] k = 3 -> Base * Base * Base]
Digit(x, k)  == (x \div Place[k]) % Base
BytesLE(b)   == b[0] + Base * (b[1] + Base * (b[2] + Base * b[3]))
BytesBE(b)   == b[3] + Base * (b[2] + Base * (b[1] + Base * b[0]))
BitSet(x)    == {k \in 0 .. WordBits - 1 : (x \div (2 ^ k)) % 2 = 1}
IsInt(x)     == x \in IntMin .. IntMax
Truth(b)     == IF b THEN 1 ELSE 0
\* x / 2 on an int64_t
Half(x)      == IF x < 0 THEN -((-x) \div 2) ELSE x \div 2

-----------------------------------------------------------------------------
(* bits.c *)

\* x & (x - 1): the lowest bit that is set goes.
DropLowBit(x) == x - 2 ^ (CHOOSE k \in BitSet(x) : \A m \in BitSet(x) : k <= m)

\* j is x, i is count; is_power_of_two makes the same loop through its call.
count_set_bits == /\ fn \in {"count_set_bits", "is_power_of_two"}
                  /\ \/ pc = "entry" /\ j' = n /\ pc' = "bits" /\ UNCHANGED <<dst, i, ret>>
                     \/ /\ pc = "bits" /\ j # 0
                        /\ j' = DropLowBit(j) /\ i' = i + 1
                        /\ UNCHANGED <<pc, dst, ret>>
                     \/ /\ pc = "bits" /\ j = 0
                        /\ Return(IF fn = "is_power_of_two" THEN Truth(i = 1) ELSE i)

\* The five that are not written yet return 5.
BitStubs == /\ fn \in BitsFn \ {"count_set_bits", "is_power_of_two"}
            /\ pc = "entry" /\ Return(5)

-----------------------------------------------------------------------------
(* structs.c *)

\* A bug: the big-endian writer fills the array from the front.
BugToBytes(at) == /\ pc = "entry" /\ i < 4
                  /\ Store(at \in DOMAIN dst, [dst EXCEPT ![i] = Digit(n, i)], "entry")
                  /\ i' = i + 1
                  /\ UNCHANGED <<j, ret>>

ToBytes(at) == /\ pc = "entry" /\ i < 4
               /\ Store(at \in DOMAIN dst, [dst EXCEPT ![at] = Digit(n, i)], "entry")
               /\ i' = i + 1
               /\ UNCHANGED <<j, ret>>

\* The masks of the two orders never meet, so | is +; << drops what leaves the word.
FromBytes(next) == /\ pc = "entry" /\ i < 4
                   /\ ret' = next % Top /\ i' = i + 1
                   /\ UNCHANGED <<pc, dst, j>>

BytesEnd == pc = "entry" /\ i = 4 /\ Return(ret)

u32_bytes ==
  \/ fn = "u32_to_bytes_le" /\ (ToBytes(i) \/ BytesEnd)
  \/ fn = "u32_to_bytes_be" /\ (ToBytes(3 - i) \/ BytesEnd)
  \/ fn = "u32_from_bytes_le" /\ (FromBytes(ret + src[i] * Place[i]) \/ BytesEnd)
  \/ fn = "u32_from_bytes_be" /\ (FromBytes(ret * Base + src[i]) \/ BytesEnd)

\* r is promoted to int: r << 24 overflows it from 0x80 on, which UBSan reports.
\* The value both compilers give is the one the cast of r would have given.
pack_rgba == /\ fn = "pack_rgba" /\ pc = "entry"
             /\ ub' = (src[0] * Place[3] > IntMax)
             /\ Return(src[0] * Place[3] + src[1] * Place[2] + src[2] * Base + src[3])

\* f is the set of out pointers that are not NULL.
unpack_rgba == /\ fn = "unpack_rgba" /\ pc = "entry"
               /\ dst' = [k \in DOMAIN dst |-> IF k \in f THEN Digit(n, 3 - k) ELSE dst[k]]
               /\ pc' = "ret" /\ UNCHANGED local

-----------------------------------------------------------------------------
(* ub.c *)

\* *out = result, return true; or return false.
Answer(ok, result) == /\ dst' = IF ok THEN [dst EXCEPT ![0] = result] ELSE dst
                      /\ ret' = Truth(ok) /\ pc' = "ret"
                      /\ UNCHANGED <<i, j>>

\* The three int expressions the guards let through.
checked_add_i32 ==
  /\ fn = "checked_add_i32" /\ pc = "entry"
  /\ LET high == arg > 0 /\ n > IntMax - arg
         low  == arg < 0 /\ n < IntMin - arg
     IN  /\ ub' = \/ arg > 0 /\ ~IsInt(IntMax - arg)
                  \/ ~high /\ arg < 0 /\ ~IsInt(IntMin - arg)
                  \/ ~high /\ ~low /\ ~IsInt(n + arg)
         /\ Answer(~high /\ ~low, n + arg)

\* In 64 bits, where the product always fits.
checked_mul_i32 == /\ fn = "checked_mul_i32" /\ pc = "entry"
                   /\ Answer(IsInt(n * arg), n * arg)
                   /\ UNCHANGED ub

avg_no_overflow == /\ fn = "avg_no_overflow" /\ pc = "entry"
                   /\ Return(Half(n + arg)) /\ UNCHANGED ub

safe_lshift == /\ fn = "safe_lshift" /\ pc = "entry"
               /\ Return(IF arg >= WordBits THEN 0 ELSE (n * 2 ^ arg) % Top)
               /\ UNCHANGED ub

load_u32_le == /\ fn = "load_u32_le" /\ pc = "entry"
               /\ Return(src[0] + src[1] * Base + src[2] * Place[2] + src[3] * Place[3])
               /\ UNCHANGED ub

-----------------------------------------------------------------------------
\* What the callers pass: a word, four bytes, two ints, a word and a shift.
WordsInit == /\ fn \in BitsFn \cup StructsFn \cup UbFn
             /\ dst = [k \in Cell(4) |-> -1] /\ Call
             /\ src \in IF fn \in {"u32_from_bytes_le", "u32_from_bytes_be",
                                   "pack_rgba", "load_u32_le"}
                        THEN [Cell(4) -> Byte] ELSE {<<>>}
             /\ n \in CASE fn \in {"checked_add_i32", "checked_mul_i32", "avg_no_overflow"}
                             -> IntArg
                        [] src # <<>> -> {0}
                        [] OTHER -> 0 .. Top - 1
             /\ arg \in CASE fn \in {"checked_add_i32", "checked_mul_i32", "avg_no_overflow"}
                               -> IntArg
                          [] fn = "safe_lshift" -> 0 .. WordBits + 1
                          [] OTHER -> {0}
             /\ f \in IF fn = "unpack_rgba" THEN SUBSET Cell(4) ELSE {{}}

WordsNext == /\ \/ (count_set_bits \/ BitStubs \/ u32_bytes \/ unpack_rgba) /\ UNCHANGED ub
                \/ pack_rgba
                \/ checked_add_i32 \/ checked_mul_i32 \/ avg_no_overflow
                \/ safe_lshift \/ load_u32_le
             /\ UNCHANGED args

-----------------------------------------------------------------------------
\* The answers, against definitions that take no loop, no shift and no narrower
\* type: bits.h:7 and :10, structs.h:17 to :30, ub.h:14 to :39.  The other five routines
\* of bits.h are not written, they return 5 (bits.c:17 to :43), and have no conjunct.
WordsResult ==
  pc = "ret" =>
    /\ fn = "count_set_bits" => ret = Cardinality(BitSet(n))
    /\ fn = "is_power_of_two" => (ret = 1 <=> \E k \in 0 .. WordBits - 1 : n = 2 ^ k)
    /\ fn = "u32_to_bytes_le" => BytesLE(dst) = n
    /\ fn = "u32_to_bytes_be" => BytesBE(dst) = n
    /\ fn \in {"u32_from_bytes_le", "load_u32_le"} => ret = BytesLE(src)
    /\ fn \in {"u32_from_bytes_be", "pack_rgba"} => ret = BytesBE(src)
    /\ fn = "unpack_rgba" => \A k \in Cell(4) :
         dst[k] = IF k \in f THEN Digit(n, 3 - k) ELSE old[k]
    /\ fn = "checked_add_i32" => IF IsInt(n + arg) THEN ret = 1 /\ dst[0] = n + arg
                                                   ELSE ret = 0 /\ dst = old
    /\ fn = "checked_mul_i32" => IF IsInt(n * arg) THEN ret = 1 /\ dst[0] = n * arg
                                                   ELSE ret = 0 /\ dst = old
    /\ fn = "avg_no_overflow" => /\ 2 * ret - (n + arg) \in {-1, 0, 1}
                                 /\ n + arg > 0 => 2 * ret <= n + arg
                                 /\ n + arg < 0 => 2 * ret >= n + arg
    /\ fn = "safe_lshift" => ret = (n * 2 ^ arg) % Top
=============================================================================
