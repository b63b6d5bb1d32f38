------------------------------- MODULE Safety -------------------------------
(***************************************************************************)
(* ProperC/src/safety.c.  arg is dstsize or dstcap; the array dst may be   *)
(* larger than the size the caller admits to, never smaller.               *)
(***************************************************************************)
EXTENDS CRoutine

SafetyFn == {"safe_strcpy", "safe_strcat", "copy_n_safe"}

\* The first NUL of a is at k.
EndsAt(a, k) == k \in DOMAIN a /\ a[k] = 0 /\ \A m \in 0 .. k - 1 : a[m] # 0

IsString(a) == \E k \in DOMAIN a : EndsAt(a, k)

\* strlen of a terminated string
Strlen(a) == CHOOSE k \in DOMAIN a : EndsAt(a, k)

\* The loop that finds the NUL of src; j is srcSize.
CopyLength == /\ pc = "entry"
              /\ IF j \notin DOMAIN src
                 THEN pc' = "abort" /\ UNCHANGED <<dst, local>>
                 ELSE IF src[j] # 0
                 THEN j' = j + 1 /\ UNCHANGED <<pc, dst, i, ret>>
                 ELSE IF arg = 0 THEN Return(j)
                 ELSE pc' = "copy" /\ UNCHANGED <<dst, local>>

\* A bug: the loop goes on to dstsize.
BugCopyChar == /\ pc = "copy" /\ i <= arg
               /\ Store(i \in DOMAIN dst,
                        [dst EXCEPT ![i] = IF i < j THEN src[i] ELSE 0], "copy")
               /\ i' = i + 1 /\ UNCHANGED <<j, ret>>

CopyChar == /\ pc = "copy" /\ i < arg - 1
            /\ Store(i \in DOMAIN dst,
                     [dst EXCEPT ![i] = IF i < j THEN src[i] ELSE 0], "copy")
            /\ i' = i + 1 /\ UNCHANGED <<j, ret>>

CopyEnd == /\ pc = "copy" /\ i >= arg - 1
           /\ Store(arg - 1 \in DOMAIN dst, [dst EXCEPT ![arg - 1] = 0], "ret")
           /\ ret' = j /\ UNCHANGED <<i, j>>

safe_strcpy == fn = "safe_strcpy" /\ (CopyLength \/ CopyChar \/ CopyEnd)

\* j is dstLen.
CatEntry == /\ pc = "entry"
            /\ j' = Strlen(dst) /\ i' = j' /\ pc' = "cat"
            /\ UNCHANGED <<dst, ret>>

\* dstsize - 1 is the largest size_t when dstsize is 0.
CatChar == /\ pc = "cat" /\ i < Pred(arg)
           /\ Store(i \in DOMAIN dst,
                    [dst EXCEPT ![i] = IF i - j < Strlen(src) THEN src[i - j] ELSE 0], "cat")
           /\ i' = i + 1 /\ UNCHANGED <<j, ret>>

CatEnd == /\ pc = "cat" /\ i >= Pred(arg)
          /\ Store(Pred(arg) \in DOMAIN dst, [dst EXCEPT ![Pred(arg)] = 0], "ret")
          /\ ret' = Smaller(Strlen(src) + j, arg)
          /\ UNCHANGED <<i, j>>

safe_strcat == fn = "safe_strcat" /\ (CatEntry \/ CatChar \/ CatEnd)

copy_n_safe == /\ fn = "copy_n_safe" /\ pc = "entry"
               /\ IF n > arg THEN Return(0)
                  ELSE IF i < n
                  THEN /\ Store(i \in DOMAIN dst /\ i \in DOMAIN src,
                                [dst EXCEPT ![i] = src[i]], "entry")
                       /\ i' = i + 1
                       /\ UNCHANGED <<j, ret>>
                  ELSE Return(1)

\* The C strings are terminated, src has the n bytes that are asked for.
SafetyInit == /\ fn \in SafetyFn
              /\ f = <<>>
              /\ \E cap, len \in Length : /\ dst \in Array(cap) /\ arg \in 0 .. cap
                                          /\ src \in Array(len) /\ n = len
              /\ Call
              /\ fn # "copy_n_safe" => IsString(src)
              /\ fn = "safe_strcat" => IsString(dst)

SafetyNext == (safe_strcpy \/ safe_strcat \/ copy_n_safe) /\ UNCHANGED <<args, ub>>

-----------------------------------------------------------------------------
\* dst holds the string old[0..from) ++ src, cut so that its NUL is inside dstsize.
Holds(from) == LET end == Smaller(from + Strlen(src), arg - 1)
               IN  /\ \A k \in 0 .. end - 1 : dst[k] = IF k < from THEN old[k] ELSE src[k - from]
                   /\ dst[end] = 0

\* The length that safety.h:25 has safe_strcat return.
TriedLength == Smaller(arg, Strlen(old)) + Strlen(src)

\* The result is terminated, cut at the right place and nothing behind dstsize is
\* touched, whatever the two lengths are (safety.h:13, :22 and :29); a string in dst that
\* is longer than dstsize admits is cut as well.  safe_strcpy returns the length it tried
\* to make, and so does safe_strcat up to dstsize; above that safety.h:25 is not kept
\* (safety.c:36), the caller only learns that the string was cut.
SafetyResult ==
  pc = "ret" /\ fn \in SafetyFn =>
    /\ \A k \in DOMAIN dst : k >= arg => dst[k] = old[k]
    /\ fn = "safe_strcpy" => ret = Strlen(src) /\ (arg > 0 => Holds(0))
    /\ fn = "safe_strcat" => /\ Holds(Smaller(Strlen(old), arg - 1))
                             /\ ret = Smaller(TriedLength, arg)
    /\ fn = "copy_n_safe" => /\ ret = 1 <=> n <= arg
                             /\ IF ret = 1 THEN \A k \in Cell(n) : dst[k] = src[k]
                                           ELSE dst = old
=============================================================================
