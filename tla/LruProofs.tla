----------------------------- MODULE LruProofs -----------------------------
(***************************************************************************)
(* Theorems about LruCache, for every set of keys and values and every     *)
(* capacity.  The first part is about lists in order of use (Recency); its *)
(* last lemma, NewestTouch, is why LRU eviction is right: the newest c     *)
(* keys after a use are computed from the newest c keys before it, so what *)
(* was evicted need not be remembered.                                     *)
(***************************************************************************)
EXTENDS LruCache, SequenceTheorems, FiniteSetTheorems, TLAPS

\* A list in order of use, over some set of keys.
IsOrder(s, K) == s \in Seq(K) /\ NoRepeats(s)

\* A key of a list has one position in it.
LEMMA PositionFacts ==
  ASSUME NEW K, NEW s, IsOrder(s, K), NEW k \in Keys(s)
  PROVE  /\ Position(s, k) \in 1..Len(s)
         /\ s[Position(s, k)] = k
         /\ \A i \in 1..Len(s) : s[i] = k => i = Position(s, k)
  BY DEF IsOrder, Keys, Position, NoRepeats

\* Popping a key takes it out and keeps the order of the others.
LEMMA PopFacts ==
  ASSUME NEW K, NEW s, IsOrder(s, K), NEW k \in Keys(s)
  PROVE  /\ IsOrder(Pop(s, k), K)
         /\ Len(Pop(s, k)) = Len(s) - 1
         /\ \A i \in 1..(Len(s) - 1) :
              Pop(s, k)[i] = IF i < Position(s, k) THEN s[i] ELSE s[i + 1]
         /\ Keys(Pop(s, k)) = Keys(s) \ {k}
<1> DEFINE p == Position(s, k)
           t == Pop(s, k)
<1>1. s \in Seq(K) /\ Len(s) \in Nat /\ DOMAIN s = 1..Len(s) /\ p \in 1..Len(s)
      /\ \A i \in 1..Len(s) : s[i] \in K
  BY PositionFacts DEF IsOrder
<1>2. t = [i \in 1..(Len(s) - 1) |-> IF i < p THEN s[i] ELSE s[i + 1]]
  BY DEF Pop
<1>3. t \in [1..(Len(s) - 1) -> K] /\ Len(s) - 1 \in Nat
  BY <1>1, <1>2
<1>4. t \in Seq(K) /\ Len(t) = Len(s) - 1 /\ DOMAIN t = 1..(Len(s) - 1)
  BY <1>3, SeqDef
<1> HIDE DEF p, t
<1>5. \A i \in 1..(Len(s) - 1) : t[i] = IF i < p THEN s[i] ELSE s[i + 1]
  BY <1>2
<1>6. NoRepeats(t)
  <2> SUFFICES ASSUME NEW i \in 1..(Len(s) - 1), NEW j \in 1..(Len(s) - 1), t[i] = t[j]
               PROVE  i = j
    BY <1>4 DEF NoRepeats
  <2> DEFINE old(n) == IF n < p THEN n ELSE n + 1
  <2>1. old(i) \in 1..Len(s) /\ old(j) \in 1..Len(s)
    BY <1>1
  <2>2. s[old(i)] = s[old(j)]
    BY <1>5
  <2>3. old(i) = old(j)
    BY <1>1, <2>1, <2>2 DEF NoRepeats, IsOrder
  <2> QED
    BY <1>1, <2>3
<1>7. Keys(t) = Keys(s) \ {k}
  <2>1. ASSUME NEW x \in Keys(t) PROVE x \in Keys(s) \ {k}
    <3>1. PICK i \in 1..(Len(s) - 1) : x = t[i]
      BY <1>4 DEF Keys
    <3>2. PICK j \in 1..Len(s) : x = s[j] /\ j # p
      BY <1>1, <1>5, <3>1
    <3> QED
      BY <1>1, <3>2, PositionFacts DEF p, Keys
  <2>2. ASSUME NEW x \in Keys(s) \ {k} PROVE x \in Keys(t)
    <3>1. PICK j \in 1..Len(s) : x = s[j] /\ j # p
      BY <1>1, PositionFacts DEF p, Keys
    <3>2. CASE j < p
      <4>1. j \in 1..(Len(s) - 1) /\ t[j] = x
        BY <1>1, <1>5, <3>1, <3>2
      <4> QED
        BY <4>1, <1>4 DEF Keys
    <3>3. CASE j > p
      <4>1. j - 1 \in 1..(Len(s) - 1) /\ t[j - 1] = x
        BY <1>1, <1>5, <3>1, <3>3
      <4> QED
        BY <4>1, <1>4 DEF Keys
    <3> QED
      BY <1>1, <3>1, <3>2, <3>3
  <2> QED
    BY <2>1, <2>2
<1> QED
  BY <1>4, <1>5, <1>6, <1>7 DEF IsOrder, t, p

\* Appending a key that is not there.
LEMMA AppendFacts ==
  ASSUME NEW K, NEW s, IsOrder(s, K), NEW k \in K, k \notin Keys(s)
  PROVE  /\ IsOrder(Append(s, k), K)
         /\ Len(Append(s, k)) = Len(s) + 1
         /\ \A i \in 1..(Len(s) + 1) :
              Append(s, k)[i] = IF i <= Len(s) THEN s[i] ELSE k
         /\ Keys(Append(s, k)) = Keys(s) \cup {k}
<1> DEFINE t == Append(s, k)
<1>1. s \in Seq(K) /\ Len(s) \in Nat /\ DOMAIN s = 1..Len(s)
  BY DEF IsOrder
<1>2. t \in Seq(K) /\ Len(t) = Len(s) + 1 /\ DOMAIN t = 1..(Len(s) + 1)
  BY <1>1
<1>3. \A i \in 1..(Len(s) + 1) : t[i] = IF i <= Len(s) THEN s[i] ELSE k
  BY <1>1
<1> HIDE DEF t
<1>4. \A i \in 1..Len(s) : s[i] # k
  BY <1>1 DEF Keys
<1>5. NoRepeats(t)
  BY <1>1, <1>2, <1>3, <1>4 DEF NoRepeats, IsOrder
<1>6. Keys(t) = Keys(s) \cup {k}
  <2>1. ASSUME NEW x \in Keys(t) PROVE x \in Keys(s) \cup {k}
    BY <1>1, <1>2, <1>3 DEF Keys
  <2>2. ASSUME NEW x \in Keys(s) PROVE x \in Keys(t)
    <3>1. PICK i \in 1..Len(s) : x = s[i]
      BY <1>1 DEF Keys
    <3>2. i \in 1..(Len(s) + 1) /\ t[i] = x
      BY <1>1, <1>3, <3>1
    <3> QED
      BY <1>2, <3>2 DEF Keys
  <2>3. k \in Keys(t)
    <3>1. Len(s) + 1 \in 1..(Len(s) + 1) /\ t[Len(s) + 1] = k
      BY <1>1, <1>3
    <3> QED
      BY <1>2, <3>1 DEF Keys
  <2> QED
    BY <2>1, <2>2, <2>3
<1> QED
  BY <1>2, <1>3, <1>5, <1>6 DEF IsOrder, t

\* A use of k puts it last, once.
LEMMA TouchFacts ==
  ASSUME NEW K, NEW s, IsOrder(s, K), NEW k \in K
  PROVE  /\ IsOrder(Touch(s, k), K)
         /\ Keys(Touch(s, k)) = Keys(s) \cup {k}
         /\ Len(Touch(s, k)) = IF k \in Keys(s) THEN Len(s) ELSE Len(s) + 1
         /\ \A i \in 1..Len(Touch(s, k)) :
              Touch(s, k)[i] = IF i = Len(Touch(s, k)) THEN k
                               ELSE IF k \in Keys(s) /\ i >= Position(s, k) THEN s[i + 1]
                               ELSE s[i]
<1>0. Len(s) \in Nat
  BY DEF IsOrder
<1>1. CASE k \in Keys(s)
  <2>1. /\ IsOrder(Pop(s, k), K) /\ k \notin Keys(Pop(s, k))
        /\ Keys(Pop(s, k)) = Keys(s) \ {k} /\ Len(Pop(s, k)) = Len(s) - 1
    BY <1>1, PopFacts
  <2>2. Len(Pop(s, k)) \in Nat
    BY <2>1 DEF IsOrder
  <2>3. Touch(s, k) = Append(Pop(s, k), k)
    BY <1>1 DEF Touch
  <2>4. /\ IsOrder(Touch(s, k), K) /\ Keys(Touch(s, k)) = Keys(s) \cup {k}
        /\ Len(Touch(s, k)) = Len(s)
    BY <1>0, <1>1, <2>1, <2>3, AppendFacts
  <2>5. /\ Position(s, k) \in 1..Len(s)
        /\ \A i \in 1..(Len(s) - 1) :
             Pop(s, k)[i] = IF i < Position(s, k) THEN s[i] ELSE s[i + 1]
        /\ \A i \in 1..Len(s) : Touch(s, k)[i] = IF i < Len(s) THEN Pop(s, k)[i] ELSE k
    BY <1>0, <1>1, <2>1, <2>2, <2>3, PopFacts, PositionFacts, AppendFacts
  <2>6. \A i \in 1..Len(s) : Touch(s, k)[i] = IF i = Len(s) THEN k
                               ELSE IF i >= Position(s, k) THEN s[i + 1] ELSE s[i]
    BY <1>0, <2>5
  <2> QED
    BY <1>1, <2>4, <2>6
<1>2. CASE k \notin Keys(s)
  <2>1. Touch(s, k) = Append(s, k)
    BY <1>2 DEF Touch
  <2>2. /\ IsOrder(Touch(s, k), K) /\ Keys(Touch(s, k)) = Keys(s) \cup {k}
        /\ Len(Touch(s, k)) = Len(s) + 1
        /\ \A i \in 1..(Len(s) + 1) : Touch(s, k)[i] = IF i <= Len(s) THEN s[i] ELSE k
    BY <1>2, <2>1, AppendFacts
  <2>3. \A i \in 1..(Len(s) + 1) : Touch(s, k)[i] = IF i = Len(s) + 1 THEN k ELSE s[i]
    BY <1>0, <2>2
  <2> QED
    BY <1>2, <2>2, <2>3
<1> QED
  BY <1>1, <1>2

\* The c newest of an order are an order again.
LEMMA NewestFacts ==
  ASSUME NEW K, NEW s, IsOrder(s, K), NEW c \in Nat
  PROVE  /\ IsOrder(Newest(s, c), K)
         /\ Len(Newest(s, c)) = IF Len(s) <= c THEN Len(s) ELSE c
         /\ \A i \in 1..Len(Newest(s, c)) :
              Newest(s, c)[i] = s[Len(s) - Len(Newest(s, c)) + i]
         /\ Keys(Newest(s, c)) \subseteq Keys(s)
<1> DEFINE t == Newest(s, c)
<1>1. s \in Seq(K) /\ Len(s) \in Nat /\ DOMAIN s = 1..Len(s)
      /\ \A i \in 1..Len(s) : s[i] \in K
  BY DEF IsOrder
<1>2. CASE Len(s) <= c
  BY <1>1, <1>2 DEF Newest
<1>3. CASE Len(s) > c
  <2>1. t = [i \in 1..c |-> s[Len(s) - c + i]]
    BY <1>1, <1>3 DEF Newest
  <2>2. t \in [1..c -> K]
    BY <1>1, <1>3, <2>1
  <2>3. t \in Seq(K) /\ Len(t) = c /\ DOMAIN t = 1..c
    BY <2>2, SeqDef
  <2> HIDE DEF t
  <2>4. \A i \in 1..c : t[i] = s[Len(s) - c + i] /\ Len(s) - c + i \in 1..Len(s)
    BY <1>1, <1>3, <2>1
  <2>5. NoRepeats(t)
    <3> SUFFICES ASSUME NEW i \in 1..c, NEW j \in 1..c, t[i] = t[j] PROVE i = j
      BY <2>3 DEF NoRepeats
    <3>1. Len(s) - c + i = Len(s) - c + j
      BY <1>1, <2>4 DEF NoRepeats, IsOrder
    <3> QED
      BY <1>1, <3>1
  <2>6. Keys(t) \subseteq Keys(s)
    <3> SUFFICES ASSUME NEW x \in Keys(t) PROVE x \in Keys(s)
      OBVIOUS
    <3>1. PICK i \in 1..c : x = t[i]
      BY <2>3 DEF Keys
    <3>2. x = s[Len(s) - c + i] /\ Len(s) - c + i \in DOMAIN s
      BY <1>1, <2>4, <3>1
    <3> QED
      BY <3>2 DEF Keys
  <2>7. IsOrder(t, K)
    BY <2>3, <2>5 DEF IsOrder
  <2>8. Len(t) = IF Len(s) <= c THEN Len(s) ELSE c
    <3>1. ~(Len(s) <= c)
      BY <1>1, <1>3
    <3> QED
      BY <2>3, <3>1, Zenon
  <2>9. \A i \in 1..Len(t) : t[i] = s[Len(s) - Len(t) + i]
    BY <2>3, <2>4
  <2> QED
    BY <2>6, <2>7, <2>8, <2>9 DEF t
<1> QED
  BY <1>1, <1>2, <1>3

\* The newest c keys after a use, from the newest c keys before it: what a
\* bounded cache must do on a hit, on an insertion that evicts, and on one
\* that does not.
LEMMA NewestTouch ==
  ASSUME NEW K, NEW s, IsOrder(s, K), NEW k \in K, NEW c \in Nat \ {0}
  PROVE  LET n == Newest(s, c)
             u == Newest(Touch(s, k), c)
         IN  /\ k \in Keys(n) => u = Append(Pop(n, k), k)
             /\ (k \notin Keys(n) /\ Len(n) = c) => u = Append(Tail(n), k)
             /\ (k \notin Keys(n) /\ Len(n) # c) => u = Append(n, k)
<1> DEFINE n == Newest(s, c)
           t == Touch(s, k)
           u == Newest(t, c)
           p == Position(s, k)
           N == Len(s)
           L == Len(n)
<1>1. /\ N \in Nat /\ s \in Seq(K) /\ IsOrder(n, K) /\ n \in Seq(K) /\ L \in Nat
      /\ L = IF N <= c THEN N ELSE c
      /\ Keys(n) \subseteq Keys(s)
  BY NewestFacts DEF IsOrder
<1>2. \A i \in 1..L : n[i] = s[N - L + i]
  BY NewestFacts
<1>3. /\ IsOrder(t, K) /\ t \in Seq(K) /\ Len(t) = IF k \in Keys(s) THEN N ELSE N + 1
      /\ \A i \in 1..Len(t) :
           t[i] = IF i = Len(t) THEN k
                  ELSE IF k \in Keys(s) /\ i >= p THEN s[i + 1] ELSE s[i]
  BY TouchFacts DEF IsOrder
<1>4. /\ u \in Seq(K) /\ Len(u) = IF Len(t) <= c THEN Len(t) ELSE c
      /\ \A i \in 1..Len(u) : u[i] = t[Len(t) - Len(u) + i]
  BY <1>3, NewestFacts DEF IsOrder
<1> HIDE DEF n, t, u, p, N, L
<1>5. ASSUME k \in Keys(n) PROVE u = Append(Pop(n, k), k)
  <2> DEFINE q == Position(n, k)
             v == Append(Pop(n, k), k)
  <2>1. /\ k \in Keys(s) /\ p \in 1..N /\ \A i \in 1..N : s[i] = k => i = p
        /\ q \in 1..L /\ n[q] = k
    BY <1>1, <1>5, PositionFacts DEF p, L, N
  <2> HIDE DEF q
  <2>2. p = N - L + q
    <3>1. s[N - L + q] = k /\ N - L + q \in 1..N
      BY <1>1, <1>2, <2>1
    <3> QED
      BY <2>1, <3>1
  <2>3. /\ IsOrder(Pop(n, k), K) /\ Len(Pop(n, k)) = L - 1 /\ k \notin Keys(Pop(n, k))
        /\ \A i \in 1..(L - 1) : Pop(n, k)[i] = IF i < q THEN n[i] ELSE n[i + 1]
    BY <1>1, <1>5, PopFacts DEF L, q
  <2>4. /\ v \in Seq(K) /\ Len(v) = L
        /\ \A i \in 1..L : v[i] = IF i <= L - 1 THEN Pop(n, k)[i] ELSE k
    <3>1. /\ IsOrder(v, K) /\ Len(v) = L - 1 + 1
          /\ \A i \in 1..(L - 1 + 1) : v[i] = IF i <= L - 1 THEN Pop(n, k)[i] ELSE k
      BY <2>3, AppendFacts
    <3> QED
      BY <1>1, <3>1 DEF IsOrder
  <2>5. Len(u) = L /\ Len(t) = N
    BY <1>1, <1>3, <1>4, <2>1
  <2> HIDE DEF v
  <2>6. ASSUME NEW i \in 1..L PROVE u[i] = v[i]
    <3>1. u[i] = t[N - L + i] /\ N - L + i \in 1..N
      BY <1>1, <1>4, <2>5
    <3> DEFINE j == N - L + i
    <3> HIDE DEF j
    <3>0. /\ j \in 1..N /\ u[i] = t[j] /\ (i = L <=> j = N) /\ (i < q <=> j < p)
          /\ q \in Int /\ p \in Int
      BY <1>1, <2>1, <2>2, <3>1 DEF j
    <3>2. CASE i = L
      BY <1>1, <1>3, <2>4, <2>5, <3>0, <3>2
    <3>3. CASE i < q
      <4>1. u[i] = s[j]
        <5>1. j < p /\ j # N
          BY <1>1, <2>1, <3>0, <3>3
        <5> QED
          BY <1>1, <1>3, <2>5, <3>0, <5>1
      <4>2. v[i] = n[i]
        <5>1. i \in 1..(L - 1)
          BY <1>1, <2>1, <3>3
        <5> QED
          BY <2>3, <2>4, <3>3, <5>1
      <4> QED
        BY <1>2, <4>1, <4>2 DEF j
    <3>4. CASE i # L /\ i >= q
      <4>1. u[i] = s[j + 1]
        BY <1>1, <1>3, <2>1, <2>5, <3>0, <3>4
      <4>2. v[i] = n[i + 1] /\ i + 1 \in 1..L
        <5>1. i \in 1..(L - 1) /\ ~(i < q)
          BY <1>1, <2>1, <3>4
        <5> QED
          BY <1>1, <2>3, <2>4, <5>1
      <4>3. n[i + 1] = s[N - L + (i + 1)]
        BY <1>2, <4>2
      <4>4. N - L + (i + 1) = j + 1
        BY <1>1 DEF j
      <4> QED
        BY <4>1, <4>2, <4>3, <4>4
    <3> QED
      BY <1>1, <2>1, <3>2, <3>3, <3>4
  <2> QED
    BY <1>4, <2>4, <2>5, <2>6, SeqEqual DEF v
<1>6. ASSUME k \notin Keys(n), L = c PROVE u = Append(Tail(n), k)
  <2> DEFINE v == Append(Tail(n), k)
  <2>1. /\ Tail(n) \in Seq(K) /\ Len(Tail(n)) = L - 1
        /\ \A i \in 1..(L - 1) : Tail(n)[i] = n[i + 1]
    BY <1>1, <1>6, HeadTailProperties DEF L
  <2>2. /\ v \in Seq(K) /\ Len(v) = L
        /\ \A i \in 1..L : v[i] = IF i <= L - 1 THEN n[i + 1] ELSE k
    BY <1>1, <2>1 DEF L
  <2>3. Len(u) = L
    BY <1>1, <1>3, <1>4, <1>6
  <2>4. k \in Keys(s) => p \in 1..(N - L)
    <3> SUFFICES ASSUME k \in Keys(s), p > N - L PROVE FALSE
      BY <1>1, PositionFacts DEF p, N
    <3>1. p \in 1..N /\ s[p] = k
      BY PositionFacts DEF p, N
    <3>2. p - (N - L) \in 1..L /\ n[p - (N - L)] = k
      <4> DEFINE i == p - (N - L)
      <4>1. i \in 1..L /\ N - L + i = p
        BY <1>1, <3>1
      <4> HIDE DEF i
      <4>2. n[i] = s[p]
        BY <1>2, <4>1
      <4> QED
        BY <3>1, <4>1, <4>2 DEF i
    <3>3. DOMAIN n = 1..L
      BY <1>1 DEF L
    <3> QED
      BY <1>6, <3>2, <3>3 DEF Keys
  <2> HIDE DEF v
  <2>5. ASSUME NEW i \in 1..L PROVE u[i] = v[i]
    <3>1. u[i] = t[Len(t) - L + i] /\ Len(t) - L + i \in 1..Len(t)
      <4>1. Len(t) \in {N, N + 1} /\ L <= N
        BY <1>1, <1>3
      <4>2. u[i] = t[Len(t) - L + i]
        BY <1>4, <2>3
      <4>3. Len(t) - L + i \in 1..Len(t)
        BY <1>1, <4>1
      <4> QED
        BY <4>2, <4>3
    <3>2. CASE i = L
      <4>1. Len(t) - L + i = Len(t) /\ Len(t) \in 1..Len(t) /\ i \in 1..L /\ ~(i <= L - 1)
        BY <1>1, <1>3, <3>1, <3>2
      <4>2. u[i] = k
        BY <1>3, <3>1, <4>1
      <4> QED
        BY <2>2, <4>1, <4>2
    <3>3. CASE i # L
      <4>1. i + 1 \in 1..L /\ v[i] = n[i + 1]
        BY <1>1, <2>2, <3>3
      <4>2. n[i + 1] = s[N - L + (i + 1)]
        BY <1>2, <4>1
      <4>3. CASE k \in Keys(s)
        <5>1. Len(t) = N /\ Len(t) - L + i # Len(t) /\ Len(t) - L + i >= p
          BY <1>1, <1>3, <2>4, <3>3, <4>3
        <5>2. u[i] = s[Len(t) - L + i + 1]
          BY <1>3, <3>1, <4>3, <5>1
        <5> QED
          BY <1>1, <4>1, <4>2, <5>1, <5>2
      <4>4. CASE k \notin Keys(s)
        <5>1. Len(t) = N + 1 /\ Len(t) - L + i # Len(t)
          BY <1>1, <1>3, <3>3, <4>4
        <5>2. u[i] = s[Len(t) - L + i]
          BY <1>3, <3>1, <4>4, <5>1
        <5>3. Len(t) - L + i = N - L + (i + 1)
          BY <1>1, <5>1
        <5> QED
          BY <4>1, <4>2, <5>2, <5>3
      <4> QED
        BY <4>3, <4>4
    <3> QED
      BY <3>2, <3>3
  <2> QED
    BY <1>4, <2>2, <2>3, <2>5, SeqEqual DEF v
<1>7. ASSUME k \notin Keys(n), L # c PROVE u = Append(n, k)
  <2>1. N < c /\ n = s
    BY <1>1, <1>7 DEF Newest, n, N, L
  <2>2. t = Append(s, k) /\ Len(t) <= c
    BY <1>1, <1>3, <1>7, <2>1 DEF Touch, t
  <2> QED
    BY <2>1, <2>2 DEF Newest, u
<1> QED
  BY <1>5, <1>6, <1>7 DEF n, t, u, L

-----------------------------------------------------------------------------
(***************************************************************************)
(* The cache.  Dict says that the dict and the length agree, Memory that   *)
(* the history is well formed, and HoldsTheMostRecent ties one to the      *)
(* other.                                                                  *)
(***************************************************************************)
Dict == /\ capacity \in Nat \ {0}
        /\ IsOrder(order, Key)
        /\ DOMAIN value = Keys(order)
        /\ \A k \in DOMAIN value : value[k] \in Val
        /\ length = Len(order)
        /\ IsFiniteSet(DOMAIN value)
        /\ length = Cardinality(DOMAIN value)
        /\ length <= capacity

Memory == /\ IsOrder(recent, Key)
          /\ DOMAIN stored = Keys(recent)

IInv == TypeOK /\ Dict /\ Memory /\ HoldsTheMostRecent

\* A new cache.
LEMMA InitIInv == Init => IInv
<1> SUFFICES ASSUME Init PROVE IInv
  OBVIOUS
<1>1. capacity \in Nat \ {0}
  BY CacheAssumption DEF Init
<1>2. /\ <<>> \in Seq(Key) /\ Len(<<>>) = 0 /\ DOMAIN <<>> = {}
      /\ IsOrder(<<>>, Key) /\ Keys(<<>>) = {} /\ NoRepeats(<<>>)
  BY DEF IsOrder, NoRepeats, Keys
<1>3. TypeOK
  BY <1>2 DEF Init, TypeOK, Answer
<1>4. IsFiniteSet({}) /\ Cardinality({}) = 0
  BY FS_EmptySet
<1>5. Dict
  BY <1>1, <1>2, <1>4 DEF Init, Dict
<1>6. Memory /\ HoldsTheMostRecent
  BY <1>1, <1>2 DEF Init, Memory, HoldsTheMostRecent, Newest
<1> QED
  BY <1>3, <1>5, <1>6 DEF IInv

\* What each put leaves of the history.
LEMMA RecordFacts ==
  ASSUME IInv, NEW k \in Key, NEW v \in Val, Record(k, v)
  PROVE  /\ Memory'
         /\ recent' = Touch(recent, k)
         /\ \A i \in Keys(recent) \cup {k} :
              stored'[i] = IF i = k THEN v ELSE stored[i]
  BY TouchFacts DEF Record, With, IInv, Memory

\* A key that is popped and appended: the same keys, in another order.
LEMMA PromoteFacts ==
  ASSUME Dict, NEW k \in Keys(order)
  PROVE  LET o == Append(Pop(order, k), k)
         IN  /\ IsOrder(o, Key) /\ Keys(o) = Keys(order) /\ Len(o) = Len(order)
             /\ o[Len(o)] = k
<1>1. IsOrder(order, Key) /\ k \in Key /\ Len(order) \in Nat
  <2>1. order \in Seq(Key) /\ IsOrder(order, Key)
    BY DEF Dict, IsOrder
  <2> QED
    BY <2>1 DEF Keys
<1>2. /\ IsOrder(Pop(order, k), Key) /\ Len(Pop(order, k)) = Len(order) - 1
      /\ Keys(Pop(order, k)) = Keys(order) \ {k} /\ Len(order) - 1 \in Nat
  <2>1. IsOrder(Pop(order, k), Key) /\ Len(Pop(order, k)) = Len(order) - 1
        /\ Keys(Pop(order, k)) = Keys(order) \ {k}
    BY <1>1, PopFacts
  <2> QED
    BY <2>1 DEF IsOrder
<1>4. /\ IsOrder(Append(Pop(order, k), k), Key)
      /\ Len(Append(Pop(order, k), k)) = Len(order) - 1 + 1
      /\ \A i \in 1..(Len(order) - 1 + 1) :
           Append(Pop(order, k), k)[i] =
             IF i <= Len(order) - 1 THEN Pop(order, k)[i] ELSE k
      /\ Keys(Append(Pop(order, k), k)) = (Keys(order) \ {k}) \cup {k}
  <2>1. k \notin Keys(Pop(order, k))
    BY <1>2
  <2> QED
    BY <1>1, <1>2, <2>1, AppendFacts
<1>5. Len(order) \in 1..Len(order)
  <2>1. Position(order, k) \in 1..Len(order)
    BY <1>1, PositionFacts
  <2> QED
    BY <1>1, <2>1
<1>6. Append(Pop(order, k), k)[Len(order)] = k
  BY <1>1, <1>4, <1>5
<1>7. Keys(Append(Pop(order, k), k)) = Keys(order)
  BY <1>4
<1>8. Len(Append(Pop(order, k), k)) = Len(order)
  BY <1>1, <1>4
<1> QED
  BY <1>4, <1>6, <1>7, <1>8

\* An absent key that is appended, and one whose insertion evicts the oldest.
LEMMA InsertFacts ==
  ASSUME Dict, NEW k \in Key, k \notin Keys(order)
  PROVE  /\ length # capacity =>
              LET o == Append(order, k)
              IN  /\ IsOrder(o, Key) /\ Len(o) = length + 1
                  /\ Keys(o) = Keys(order) \cup {k}
         /\ length = capacity =>
              LET o == Append(Tail(order), k)
              IN  /\ IsOrder(o, Key) /\ Len(o) = length
                  /\ Head(order) \in Keys(order)
                  /\ Keys(o) = (Keys(order) \ {Head(order)}) \cup {k}
<1>1. /\ capacity \in Nat \ {0} /\ Len(order) = length /\ IsOrder(order, Key)
      /\ order \in Seq(Key) /\ length \in Nat
  <2>1. /\ capacity \in Nat \ {0} /\ Len(order) = length /\ IsOrder(order, Key)
    BY DEF Dict
  <2> QED
    BY <2>1 DEF IsOrder
<1>2. ASSUME length # capacity
      PROVE  LET o == Append(order, k)
             IN  /\ IsOrder(o, Key) /\ Len(o) = length + 1
                 /\ Keys(o) = Keys(order) \cup {k}
  BY <1>1, <1>2, AppendFacts
<1>3. ASSUME length = capacity
      PROVE  LET o == Append(Tail(order), k)
             IN  /\ IsOrder(o, Key) /\ Len(o) = length
                 /\ Head(order) \in Keys(order)
                 /\ Keys(o) = (Keys(order) \ {Head(order)}) \cup {k}
  <2>1. 1 \in 1..Len(order) /\ order # <<>> /\ Head(order) = order[1]
    BY <1>1, <1>3
  <2>2. Tail(order) = Pop(order, order[1])
    <3>1. order[1] \in Keys(order) /\ Position(order, order[1]) = 1
      BY <1>1, <2>1, PositionFacts DEF Keys
    <3>2. /\ IsOrder(Pop(order, order[1]), Key)
          /\ Len(Pop(order, order[1])) = Len(order) - 1
          /\ \A i \in 1..(Len(order) - 1) : Pop(order, order[1])[i] = order[i + 1]
      BY <1>1, <3>1, PopFacts
    <3>3. /\ Tail(order) \in Seq(Key) /\ Len(Tail(order)) = Len(order) - 1
          /\ \A i \in 1..(Len(order) - 1) : Tail(order)[i] = order[i + 1]
      BY <1>1, <2>1, HeadTailProperties
    <3> QED
      BY <3>2, <3>3, SeqEqual DEF IsOrder
  <2>3. /\ IsOrder(Tail(order), Key) /\ Len(Tail(order)) = length - 1
        /\ Keys(Tail(order)) = Keys(order) \ {Head(order)}
        /\ Head(order) \in Keys(order)
    <3>1. order[1] \in Keys(order)
      BY <1>1, <2>1 DEF Keys
    <3>2. /\ IsOrder(Pop(order, order[1]), Key)
          /\ Len(Pop(order, order[1])) = Len(order) - 1
          /\ Keys(Pop(order, order[1])) = Keys(order) \ {order[1]}
      BY <1>1, <3>1, PopFacts
    <3> QED
      BY <1>1, <2>1, <2>2, <3>1, <3>2
  <2> QED
    BY <1>1, <2>3, AppendFacts
<1> QED
  BY <1>2, <1>3

\* In each of the three ways a use changes `order', it stays the most recent
\* part of the history.
LEMMA StaysNewest ==
  ASSUME Dict, Memory, order = Newest(recent, capacity), NEW k \in Key
  PROVE  LET r == Newest(Touch(recent, k), capacity)
         IN  /\ k \in Keys(order) => r = Append(Pop(order, k), k)
             /\ (k \notin Keys(order) /\ length # capacity) => r = Append(order, k)
             /\ (k \notin Keys(order) /\ length = capacity) => r = Append(Tail(order), k)
<1>1. capacity \in Nat \ {0} /\ IsOrder(recent, Key) /\ length = Len(order)
  BY DEF Dict, Memory
<1>2. LET r == Newest(Touch(recent, k), capacity)
      IN  /\ k \in Keys(order) => r = Append(Pop(order, k), k)
          /\ (k \notin Keys(order) /\ Len(order) = capacity) => r = Append(Tail(order), k)
          /\ (k \notin Keys(order) /\ Len(order) # capacity) => r = Append(order, k)
  BY <1>1, NewestTouch
<1> QED
  BY <1>1, <1>2

\* Every call keeps the types, and the counter equal to the entries.
LEMMA StepDict == TypeOK /\ Dict /\ [Next]_vars => TypeOK' /\ Dict'
<1> SUFFICES ASSUME TypeOK, Dict, [Next]_vars PROVE TypeOK' /\ Dict'
  OBVIOUS
<1>0. ASSUME Dict', capacity' = capacity,
             reply' \in [call : {"init", "get", "put"}, out : Val \cup {0, -1}]
      PROVE  TypeOK' /\ Dict'
  <2>1. /\ order' \in Seq(Key) /\ NoRepeats(order') /\ length' = Len(order')
        /\ DOMAIN value' = Keys(order')
        /\ \A k \in DOMAIN value' : value'[k] \in Val
    BY <1>0 DEF Dict, IsOrder
  <2>2. length' \in Nat /\ NoRepeats(order)'
    BY <2>1 DEF NoRepeats
  <2>3. capacity' \in Capacities /\ capacity' >= 1
    BY <1>0 DEF TypeOK
  <2> QED
    BY <1>0, <2>1, <2>2, <2>3 DEF TypeOK
<1>1. ASSUME NEW k \in Key, GetHit(k) PROVE TypeOK' /\ Dict'
  <2>1. k \in Keys(order) /\ value[k] \in Val
    BY <1>1 DEF GetHit, Found, Truthy, Dict
  <2>2. Dict'
    BY <1>1, <2>1, PromoteFacts DEF GetHit, Found, Dict
  <2> QED
    BY <1>0, <1>1, <2>1, <2>2 DEF GetHit, Found, Answer
<1>2. ASSUME NEW k \in Key, GetMiss(k) PROVE TypeOK' /\ Dict'
  <2>1. Dict'
    BY <1>2 DEF GetMiss, dict, Dict
  <2> QED
    BY <1>0, <1>2, <2>1 DEF GetMiss, Answer
<1>3. ASSUME NEW k \in Key, NEW v \in Val, PutNew(k, v) PROVE TypeOK' /\ Dict'
  <2>1. /\ k \notin Keys(order) /\ IsOrder(order', Key) /\ Len(order') = length'
        /\ Keys(order') = Keys(order) \cup {k}
    BY <1>3, InsertFacts DEF PutNew, Dict
  <2>2. /\ DOMAIN value' = DOMAIN value \cup {k}
        /\ \A i \in DOMAIN value' : value'[i] \in Val
    BY <1>3 DEF PutNew, With, Dict
  <2>3. /\ IsFiniteSet(DOMAIN value')
        /\ Cardinality(DOMAIN value') = Cardinality(DOMAIN value) + 1
    BY <1>3, <2>2, FS_AddElement DEF PutNew, Dict
  <2>4. length' <= capacity' /\ capacity' = capacity
    BY <1>3 DEF PutNew, Record, Dict, TypeOK
  <2>5. Dict'
    BY <1>3, <2>1, <2>2, <2>3, <2>4 DEF PutNew, Dict
  <2> QED
    BY <1>0, <1>3, <2>5 DEF PutNew, Record, Answer
<1>4. ASSUME NEW k \in Key, NEW v \in Val, PutEvict(k, v) PROVE TypeOK' /\ Dict'
  <2> DEFINE h == Head(order)
  <2>1. /\ k \notin Keys(order) /\ IsOrder(order', Key) /\ Len(order') = length
        /\ h \in Keys(order) /\ Keys(order') = (Keys(order) \ {h}) \cup {k}
    BY <1>4, InsertFacts DEF PutEvict, Evict, Dict
  <2>2. /\ DOMAIN value' = (DOMAIN value \ {h}) \cup {k}
        /\ \A i \in DOMAIN value' : value'[i] \in Val
    BY <1>4 DEF PutEvict, Evict, With, Without, Dict
  <2>3. /\ IsFiniteSet(DOMAIN value \ {h})
        /\ Cardinality(DOMAIN value \ {h}) = Cardinality(DOMAIN value) - 1
    BY <2>1, FS_RemoveElement DEF Dict
  <2>4. k \notin DOMAIN value \ {h}
    BY <2>1 DEF Dict
  <2>5. /\ IsFiniteSet(DOMAIN value')
        /\ Cardinality(DOMAIN value') = Cardinality(DOMAIN value \ {h}) + 1
    <3> DEFINE D == DOMAIN value \ {h}
    <3>1. IsFiniteSet(D) /\ k \notin D /\ DOMAIN value' = D \cup {k}
      BY <2>2, <2>3, <2>4
    <3> HIDE DEF D
    <3>2. IsFiniteSet(D \cup {k}) /\ Cardinality(D \cup {k}) = Cardinality(D) + 1
      BY <3>1, FS_AddElement
    <3> QED
      BY <3>1, <3>2 DEF D
  <2>6. Cardinality(DOMAIN value') = length
    <3>1. Cardinality(DOMAIN value) = length /\ length \in Nat
      BY DEF Dict, TypeOK
    <3> QED
      BY <2>3, <2>5, <3>1
  <2>7. UNCHANGED <<capacity, length>>
    BY <1>4 DEF PutEvict, Evict, Record
  <2>8. DOMAIN value' = Keys(order')
    BY <2>1, <2>2 DEF Dict
  <2>9. Dict'
    BY <2>1, <2>2, <2>5, <2>6, <2>7, <2>8 DEF Dict
  <2> QED
    BY <1>0, <1>4, <2>9 DEF PutEvict, Evict, Record, Answer
<1>5. ASSUME NEW k \in Key, NEW v \in Val, PutUpdate(k, v) PROVE TypeOK' /\ Dict'
  <2>1. /\ DOMAIN value' = DOMAIN value
        /\ \A i \in DOMAIN value' : value'[i] \in Val
    BY <1>5 DEF PutUpdate, Update, With, Dict
  <2>2. Dict'
    BY <1>5, <2>1, PromoteFacts DEF PutUpdate, Update, Record, Dict
  <2> QED
    BY <1>0, <1>5, <2>2 DEF PutUpdate, Update, Record, Answer
<1>6. CASE UNCHANGED vars
  BY <1>6 DEF vars, TypeOK, Dict
<1> QED
  BY <1>1, <1>2, <1>3, <1>4, <1>5, <1>6 DEF Next

\* With no zero among the values, a get of a present key is a hit.
LEMMA StepIInv ==
  ASSUME 0 \notin Val
  PROVE  IInv /\ [Next]_vars => IInv'
<1> SUFFICES ASSUME IInv, [Next]_vars PROVE Memory' /\ HoldsTheMostRecent'
  BY StepDict DEF IInv
<1>0. /\ order = Newest(recent, capacity) /\ Dict /\ Memory /\ IsOrder(recent, Key)
      /\ Keys(order) \subseteq Keys(recent) /\ capacity \in Nat
      /\ \A k \in Keys(order) : value[k] = stored[k]
  <2>1. /\ order = Newest(recent, capacity) /\ Dict /\ Memory /\ IsOrder(recent, Key)
        /\ capacity \in Nat /\ \A k \in Keys(order) : value[k] = stored[k]
    BY DEF IInv, HoldsTheMostRecent, Dict, Memory
  <2> QED
    BY <2>1, NewestFacts
<1>1. ASSUME NEW k \in Key, GetHit(k) PROVE Memory' /\ HoldsTheMostRecent'
  <2>1. k \in Keys(order)
    BY <1>0, <1>1 DEF GetHit, Found, Truthy, Dict
  <2>2. order' = Newest(recent', capacity') /\ Keys(order') = Keys(order)
    BY <1>0, <1>1, <2>1, StaysNewest, PromoteFacts DEF GetHit, Found
  <2>3. IsOrder(recent', Key) /\ Keys(recent') = Keys(recent)
    <3>1. k \in Keys(recent) /\ recent' = Touch(recent, k)
      BY <1>0, <1>1, <2>1 DEF GetHit, Found
    <3>2. /\ IsOrder(Touch(recent, k), Key)
          /\ Keys(Touch(recent, k)) = Keys(recent) \cup {k}
      BY <1>0, TouchFacts
    <3> QED
      BY <3>1, <3>2
  <2> QED
    BY <1>0, <1>1, <2>2, <2>3 DEF GetHit, Found, HoldsTheMostRecent, Memory
<1>2. ASSUME NEW k \in Key, GetMiss(k) PROVE Memory' /\ HoldsTheMostRecent'
  <2>1. k \notin DOMAIN value
    BY <1>0, <1>2 DEF GetMiss, Truthy, Dict
  <2> QED
    BY <1>0, <1>2, <2>1 DEF GetMiss, dict, HoldsTheMostRecent, Memory
<1>3. ASSUME NEW k \in Key, NEW v \in Val, PutNew(k, v)
      PROVE  Memory' /\ HoldsTheMostRecent'
  <2>1. k \notin Keys(order) /\ length # capacity /\ Record(k, v)
    BY <1>0, <1>3 DEF PutNew, Dict
  <2>2. order' = Newest(recent', capacity') /\ Keys(order') = Keys(order) \cup {k}
    BY <1>0, <1>3, <2>1, StaysNewest, InsertFacts DEF PutNew, Record
  <2>3. \A i \in Keys(order') : value'[i] = stored'[i]
    BY <1>0, <1>3, <2>1, <2>2, RecordFacts DEF PutNew, With, Dict
  <2> QED
    BY <2>1, <2>2, <2>3, RecordFacts DEF HoldsTheMostRecent
<1>4. ASSUME NEW k \in Key, NEW v \in Val, PutEvict(k, v)
      PROVE  Memory' /\ HoldsTheMostRecent'
  <2>1. k \notin Keys(order) /\ length = capacity /\ Record(k, v)
    BY <1>0, <1>4 DEF PutEvict, Evict, Dict
  <2>2. /\ order' = Newest(recent', capacity')
        /\ Keys(order') = (Keys(order) \ {Head(order)}) \cup {k}
    BY <1>0, <1>4, <2>1, StaysNewest, InsertFacts DEF PutEvict, Evict, Record
  <2>3. \A i \in Keys(order') : value'[i] = stored'[i]
    BY <1>0, <1>4, <2>1, <2>2, RecordFacts DEF PutEvict, Evict, With, Without, Dict
  <2> QED
    BY <2>1, <2>2, <2>3, RecordFacts DEF HoldsTheMostRecent
<1>5. ASSUME NEW k \in Key, NEW v \in Val, PutUpdate(k, v)
      PROVE  Memory' /\ HoldsTheMostRecent'
  <2>1. k \in Keys(order) /\ Record(k, v)
    BY <1>0, <1>5 DEF PutUpdate, Update, Dict
  <2>2. order' = Newest(recent', capacity') /\ Keys(order') = Keys(order)
    BY <1>0, <1>5, <2>1, StaysNewest, PromoteFacts DEF PutUpdate, Update, Record
  <2>3. \A i \in Keys(order') : value'[i] = stored'[i]
    BY <1>0, <1>5, <2>1, <2>2, RecordFacts DEF PutUpdate, Update, With, Dict
  <2> QED
    BY <2>1, <2>2, <2>3, RecordFacts DEF HoldsTheMostRecent
<1>6. CASE UNCHANGED vars
  BY <1>6 DEF vars, IInv, Memory, HoldsTheMostRecent
<1> QED
  BY <1>1, <1>2, <1>3, <1>4, <1>5, <1>6 DEF Next

-----------------------------------------------------------------------------
\* Types, and a dict whose key list has no repetition.
THEOREM TypeCorrect == Spec => []TypeOK
<1>1. Init => TypeOK /\ Dict
  BY InitIInv DEF IInv
<1>2. TypeOK /\ Dict /\ [Next]_vars => (TypeOK /\ Dict)'
  BY StepDict
<1> QED
  BY <1>1, <1>2, PTL DEF Spec

\* The hand-kept length is exact and within the capacity, for all values.
THEOREM LengthCorrect == Spec => []LengthExact
<1>1. Init => TypeOK /\ Dict
  BY InitIInv DEF IInv
<1>2. TypeOK /\ Dict /\ [Next]_vars => (TypeOK /\ Dict)'
  BY StepDict
<1>3. Dict => LengthExact
  BY DEF Dict, LengthExact
<1> QED
  BY <1>1, <1>2, <1>3, PTL DEF Spec

\* The strengthened invariant, for caches without a falsy value.
LEMMA Invariance ==
  ASSUME 0 \notin Val
  PROVE  Spec => []IInv
<1>1. Init => IInv
  BY InitIInv
<1>2. IInv /\ [Next]_vars => IInv'
  BY StepIInv
<1> QED
  BY <1>1, <1>2, PTL DEF Spec

\* If no caller stores a zero, the cache holds the `capacity' most recently
\* used of all the keys ever put.
THEOREM Recent ==
  ASSUME 0 \notin Val
  PROVE  Spec => []HoldsTheMostRecent
<1>1. IInv => HoldsTheMostRecent
  BY DEF IInv
<1> QED
  BY <1>1, Invariance, PTL

\* lru.py's docstring: if no caller stores a zero, a key that is present is promoted and
\* its value returned, by whichever branch of get answers.
THEOREM Returned ==
  ASSUME 0 \notin Val
  PROVE  Spec => PresentIsReturned
<1> DEFINE Good(k) == reply' = Answer("get", value[k]) /\ order'[Len(order')] = k
<1>1. ASSUME IInv, NEW k \in Key, GetHit(k) \/ GetMiss(k), k \in DOMAIN value
      PROVE  Good(k)
  <2>1. value[k] # 0 /\ k \in Keys(order)
    BY <1>1 DEF IInv, Dict, TypeOK
  <2>2. GetHit(k)
    BY <1>1, <2>1 DEF GetMiss, Truthy
  <2>3. reply' = Answer("get", value[k]) /\ order' = Append(Pop(order, k), k)
    BY <2>2 DEF GetHit, Found
  <2> QED
    BY <1>1, <2>1, <2>3, PromoteFacts DEF IInv
<1>2. IInv => [\A k \in Key : (GetHit(k) \/ GetMiss(k)) /\ k \in DOMAIN value => Good(k)]_vars
  BY <1>1
<1> QED
  BY <1>2, Invariance, PTL DEF PresentIsReturned

\* The contract's lists are this module's.
LEMMA SameLists ==
  /\ \A s : Contract!Keys(s) = Keys(s)
  /\ \A s, c : Contract!Newest(s, c) = Newest(s, c)
  /\ \A s, k : Contract!Touch(s, k) = Touch(s, k)
  BY DEF Contract!Keys, Keys, Contract!Newest, Newest, Contract!Touch, Touch,
         Contract!Pop, Pop, Contract!Position, Position

\* If no caller stores a zero, every behaviour of the cache is one of the
\* contract, in which nothing is ever evicted.
THEOREM Refinement ==
  ASSUME 0 \notin Val
  PROVE  Spec => ContractSpec
<1>1. Init => Contract!Init
  BY DEF Init, Contract!Init, Answer, Contract!Answer
<1>2. IInv /\ [Next]_vars => [Contract!Next]_(Contract!contractVars)
  <2> SUFFICES ASSUME IInv, [Next]_vars
               PROVE  Contract!Next \/ UNCHANGED Contract!contractVars
    OBVIOUS
  <2>0. /\ Contract!Present = DOMAIN value
        /\ \A k \in DOMAIN value : value[k] = stored[k]
    BY SameLists DEF IInv, Dict, HoldsTheMostRecent, Contract!Present
  <2>1. ASSUME NEW k \in Key, GetHit(k) PROVE Contract!Hit(k)
    BY <2>0, <2>1, SameLists DEF GetHit, Found, Truthy, Contract!Hit, Answer, Contract!Answer
  <2>2. ASSUME NEW k \in Key, GetMiss(k) PROVE Contract!Miss(k)
    <3>1. k \notin DOMAIN value
      BY <2>2 DEF GetMiss, Truthy, IInv, Dict
    <3> QED
      BY <2>0, <2>2, <3>1 DEF GetMiss, Contract!Miss, Answer, Contract!Answer
  <2>3. ASSUME NEW k \in Key, NEW v \in Val, Record(k, v) PROVE Contract!Put(k, v)
    BY <2>3, SameLists DEF Record, With, Contract!Put, Answer, Contract!Answer
  <2>4. CASE UNCHANGED vars
    BY <2>4 DEF vars, Contract!contractVars
  <2> QED
    BY <2>1, <2>2, <2>3, <2>4 DEF Next, PutNew, PutEvict, Evict, PutUpdate, Update, Contract!Next
<1> QED
  BY <1>1, <1>2, Invariance, PTL DEF Spec, ContractSpec, Contract!Spec

=============================================================================
