--------------------------- MODULE ProperCProofs ---------------------------
(***************************************************************************)
(* The linked list, for any number of nodes and calls, and then the        *)
(* program of MCProperC as a whole, whose theorems are at the end: its     *)
(* inductive invariant puts the ones of RoutineProofs, of the list and of  *)
(* BenchProofs together.  The invariant of the list says where each loop's *)
(* pointers stand in the client's list after k iterations.                 *)
(***************************************************************************)
EXTENDS MCProperC, RoutineProofs, BenchProofs

-----------------------------------------------------------------------------
(* The invariant *)

ListTyped == /\ next \in [Node -> Node \cup {NULL}] /\ alive \subseteq Node
             /\ list \in Seq(Node) /\ tied \in BOOLEAN
             /\ op \in {"idle", "length", "reverse", "middle", "has_cycle", "free", "abort"}
             /\ p \in Node \cup {NULL} /\ q \in Node \cup {NULL}
             /\ k \in Nat

\* A node stands in the list once.
Distinct == \A x, y \in 1 .. Len(list) : list[x] = list[y] => x = y

\* The pointers, but for those list_reverse has already turned round.
Turned == IF op = "reverse" THEN k ELSE 0
Linked == \A x \in 1 .. Len(list) :
            next[list[x]] = IF x <= Turned THEN At(list, x - 1)
                            ELSE IF x = Len(list) /\ tied THEN head
                            ELSE At(list, x + 1)

\* The nodes, but for those list_free has already freed.
Freed == IF op = "free" THEN k ELSE 0
Owned == alive = {list[x] : x \in Freed + 1 .. Len(list)}

Counting  == op \in {"length", "free"} => ~tied /\ k <= Len(list) /\ p = At(list, k + 1)
Reversing == op = "reverse" => /\ ~tied /\ k <= Len(list)
                               /\ p = At(list, k) /\ q = At(list, k + 1)
Hopping   == op \in {"middle", "has_cycle"} /\ ~tied /\ list # <<>> =>
               /\ p = At(list, k + 1) /\ q = At(list, 2 * k + 1)
               /\ 2 * k + 1 <= Len(list)
Circling  == /\ op = "middle" => ~tied
             /\ op = "has_cycle" /\ tied => p \in Nodes(list) /\ q \in Nodes(list)

Answered == /\ ListAnswers
            /\ NoOverrun
            /\ op \notin {"idle", "abort"} => asked = "nothing"

ListInv == /\ ListTyped /\ Distinct /\ head = At(list, 1) /\ (tied => list # <<>>)
           /\ Linked /\ Owned
           /\ Counting /\ Reversing /\ Hopping /\ Circling /\ Answered

-----------------------------------------------------------------------------
(* Lists *)

LEMMA ListFacts ==
  ASSUME ListTyped
  PROVE  /\ Len(list) \in Nat /\ DOMAIN list = 1 .. Len(list)
         /\ \A x \in 1 .. Len(list) : list[x] \in Node /\ list[x] # NULL
         /\ \A x \in Int : At(list, x) = IF 1 <= x /\ x <= Len(list) THEN list[x] ELSE NULL
         /\ list = <<>> <=> Len(list) = 0
BY NodeAssumption DEF ListTyped, At

LEMMA PushFacts ==
  ASSUME NEW s \in Seq(Node), NEW x \in Node, NEW t, t = <<x>> \o s
  PROVE  /\ t \in Seq(Node) /\ Len(t) = Len(s) + 1 /\ t # <<>>
         /\ t[1] = x
         /\ \A y \in 1 .. Len(s) : t[y + 1] = s[y]
         /\ \A y \in 2 .. Len(t) : t[y] = s[y - 1]
OBVIOUS

LEMMA ReverseFacts ==
  ASSUME NEW s \in Seq(Node), NEW t, t = Reversed(s)
  PROVE  /\ t \in Seq(Node) /\ Len(t) = Len(s)
         /\ \A x \in 1 .. Len(s) : t[x] = s[Len(s) + 1 - x] /\ s[x] = t[Len(s) + 1 - x]
<1>1. Len(s) \in Nat /\ DOMAIN s = 1 .. Len(s)
  OBVIOUS
<1>2. t = [x \in 1 .. Len(s) |-> s[Len(s) + 1 - x]]
  BY <1>1 DEF Reversed
<1>3. \A x \in 1 .. Len(s) : Len(s) + 1 - x \in 1 .. Len(s) /\ s[x] \in Node
  BY <1>1
<1>4. t \in [1 .. Len(s) -> Node]
  BY <1>2, <1>3
<1>5. t \in Seq(Node) /\ Len(t) = Len(s)
  BY <1>1, <1>4
<1>6. \A x \in 1 .. Len(s) : t[x] = s[Len(s) + 1 - x]
  BY <1>2
<1>7. ASSUME NEW x \in 1 .. Len(s)
      PROVE  s[x] = t[Len(s) + 1 - x]
  <2>1. Len(s) + 1 - x \in 1 .. Len(s) /\ Len(s) + 1 - (Len(s) + 1 - x) = x
    BY <1>1
  <2> QED BY <1>6, <2>1
<1> QED BY <1>5, <1>6, <1>7

\* A node of the list may be read, unless list_free has come past it.
LEMMA MayRead ==
  ASSUME ListInv, NEW x \in Int, 1 <= x, x <= Len(list), op = "free" => x > k
  PROVE  list[x] \in alive /\ At(list, x) = list[x] /\ list[x] \in Nodes(list)
<1>1. Len(list) \in Nat /\ DOMAIN list = 1 .. Len(list) /\ k \in Nat
  BY ListFacts DEF ListInv, ListTyped
<1>2. x \in Freed + 1 .. Len(list)
  BY <1>1 DEF Freed
<1> QED BY <1>1, <1>2 DEF ListInv, Owned, At, Nodes

LEMMA ListStart == ListInit => ListInv
<1> SUFFICES ASSUME ListInit PROVE ListInv
  OBVIOUS
<1>1. ListTyped /\ Len(list) = 0
  <2>1. next \in [Node -> Node \cup {NULL}]
    BY DEF ListInit
  <2>2. list \in Seq(Node) /\ Len(list) = 0
    BY DEF ListInit
  <2> QED BY <2>1, <2>2 DEF ListInit, ListTyped
<1>2. Distinct /\ Linked /\ Owned /\ head = At(list, 1)
  BY <1>1, ListFacts DEF ListInit, Distinct, Linked, Owned, At, Freed
<1>3. op = "idle" /\ list = <<>> /\ tied = FALSE /\ asked = "nothing"
  BY DEF ListInit
<1> QED BY <1>1, <1>2, <1>3
        DEF ListInv, Counting, Reversing, Hopping, Circling, Answered, ListAnswers, NoOverrun

-----------------------------------------------------------------------------
(* The client *)

LEMMA PushStep == ListInv /\ list_push_front => ListInv'
<1> SUFFICES ASSUME ListInv, list_push_front PROVE ListInv'
  OBVIOUS
<1>1. /\ op = "idle" /\ ~tied /\ tied' = tied /\ UNCHANGED <<k, p, q>>
  BY DEF list_push_front, Push, client
<1>2. CASE /\ op' = "abort" /\ asked' = "push_front"
           /\ UNCHANGED <<heap, client, k, p, q, answer>>
  BY <1>1, <1>2 DEF ListInv, heap, client, ListTyped, Distinct, Linked, Turned, Owned, Freed,
                    Counting, Reversing, Hopping, Circling, Answered, ListAnswers, NoOverrun,
                    At, Nodes
<1>3. ASSUME NEW x \in Node \ alive, Push(x)
      PROVE  ListInv'
  <2>1. /\ alive' = alive \cup {x} /\ next' = [next EXCEPT ![x] = head]
        /\ head' = x /\ list' = <<x>> \o list /\ op' = "idle" /\ asked' = "nothing"
    BY <1>1, <1>3 DEF Push
  <2>2. ListTyped /\ list \in Seq(Node)
    BY DEF ListInv, ListTyped
  <2>3. /\ list' \in Seq(Node) /\ Len(list') = Len(list) + 1 /\ list' # <<>>
        /\ list'[1] = x
        /\ \A y \in 1 .. Len(list) : list'[y + 1] = list[y]
        /\ \A y \in 2 .. Len(list') : list'[y] = list[y - 1]
    BY <2>1, <2>2, PushFacts
  <2>4. /\ Len(list) \in Nat /\ DOMAIN list = 1 .. Len(list)
        /\ \A y \in 1 .. Len(list) : list[y] \in Node /\ list[y] \in alive /\ list[y] # x
        /\ \A y \in Int : At(list, y) = IF 1 <= y /\ y <= Len(list) THEN list[y] ELSE NULL
    BY <1>1, <2>2, MayRead, ListFacts
  <2>5. ListTyped'
    <3>1. head \in Node \cup {NULL}
      BY <2>2, <2>4 DEF ListInv
    <3> QED BY <1>1, <2>1, <2>3, <3>1 DEF ListInv, ListTyped
  <2>6. /\ DOMAIN list' = 1 .. Len(list')
        /\ \A y \in Int : At(list', y) = IF 1 <= y /\ y <= Len(list') THEN list'[y] ELSE NULL
    BY <2>3 DEF At
  <2>7. Distinct'
    <3> SUFFICES ASSUME NEW y \in 1 .. Len(list'), NEW z \in 1 .. Len(list'), list'[y] = list'[z]
                 PROVE  y = z
      BY DEF Distinct
    <3>1. CASE y = 1 \/ z = 1
      BY <2>3, <2>4, <3>1
    <3>2. CASE y # 1 /\ z # 1
      <4>1. /\ y - 1 \in 1 .. Len(list) /\ z - 1 \in 1 .. Len(list)
            /\ list[y - 1] = list[z - 1]
        BY <2>3, <2>4, <3>2
      <4> QED BY <4>1 DEF ListInv, Distinct
    <3> QED BY <3>1, <3>2
  <2>8. Linked'
    <3> SUFFICES ASSUME NEW y \in 1 .. Len(list')
                 PROVE  next'[list'[y]] = At(list', y + 1)
      BY <1>1, <2>1, <2>3, <2>4 DEF Linked, Turned
    <3>1. CASE y = 1
      <4>1. next'[x] = head /\ head = At(list, 1)
        BY <1>3, <2>1, <2>2 DEF ListInv, ListTyped
      <4>2. At(list', 2) = At(list, 1)
        BY <2>3, <2>4, <2>6
      <4> QED BY <2>3, <3>1, <4>1, <4>2
    <3>2. CASE y # 1
      <4>1. y - 1 \in 1 .. Len(list) /\ list'[y] = list[y - 1]
        BY <2>3, <2>4, <3>2
      <4>2. next'[list'[y]] = next[list[y - 1]]
        BY <2>1, <2>2, <2>4, <4>1 DEF ListTyped
      <4>3. next[list[y - 1]] = At(list, y)
        BY <1>1, <2>4, <4>1 DEF ListInv, Linked, Turned
      <4>4. At(list, y) = At(list', y + 1)
        BY <2>3, <2>4, <2>6, <4>1
      <4> QED BY <4>2, <4>3, <4>4
    <3> QED BY <3>1, <3>2
  <2>9. Owned'
    <3>1. alive = {list[y] : y \in 1 .. Len(list)}
      BY <1>1 DEF ListInv, Owned, Freed
    <3>2. \A y \in 1 .. Len(list') : list'[y] \in alive'
      BY <2>1, <2>3, <2>4
    <3>3. \A z \in alive' : \E y \in 1 .. Len(list') : z = list'[y]
      <4>1. \A y \in 1 .. Len(list) : y + 1 \in 1 .. Len(list') /\ list[y] = list'[y + 1]
        BY <2>3, <2>4
      <4>2. 1 \in 1 .. Len(list') /\ x = list'[1]
        BY <2>3, <2>4
      <4> QED BY <2>1, <3>1, <4>1, <4>2
    <3>4. alive' = {list'[y] : y \in 1 .. Len(list')}
      BY <3>2, <3>3
    <3> QED BY <2>1, <3>4 DEF Owned, Freed
  <2> QED BY <1>1, <2>1, <2>3, <2>4, <2>5, <2>6, <2>7, <2>8, <2>9
          DEF ListInv, Counting, Reversing, Hopping, Circling, Answered, ListAnswers, NoOverrun
<1> QED BY <1>2, <1>3 DEF list_push_front

LEMMA TieStep == ListInv /\ Tie => ListInv'
<1> SUFFICES ASSUME ListInv, Tie PROVE ListInv'
  OBVIOUS
<1>1. /\ op = "idle" /\ list # <<>> /\ tied' = ~tied /\ UNCHANGED <<k, p, q, alive, head, list, op>>
      /\ asked' = "nothing"
      /\ next' = [next EXCEPT ![list[Len(list)]] = IF tied THEN NULL ELSE head]
  BY DEF Tie
<1>2. ListTyped /\ Len(list) \in Nat /\ Len(list) > 0 /\ list[Len(list)] \in Node /\ head \in Node
  <2>1. ListTyped
    BY DEF ListInv
  <2>2. Len(list) \in Nat /\ Len(list) > 0
    BY <1>1, <2>1, ListFacts
  <2>3. list[Len(list)] \in Node /\ list[1] \in Node /\ At(list, 1) = list[1]
    BY <2>1, <2>2, ListFacts
  <2> QED BY <2>1, <2>2, <2>3 DEF ListInv
<1>3. ListTyped'
  BY <1>1, <1>2 DEF ListTyped
<1>4. Linked'
  <2> SUFFICES ASSUME NEW x \in 1 .. Len(list)
               PROVE  next'[list[x]] = IF x = Len(list) /\ tied' THEN head ELSE At(list, x + 1)
    BY <1>1, <1>2 DEF Linked, Turned
  <2>1. CASE x = Len(list)
    <3>1. next'[list[x]] = IF tied THEN NULL ELSE head
      BY <1>1, <1>2, <2>1 DEF ListTyped
    <3>2. At(list, x + 1) = NULL
      BY <1>2, <2>1, ListFacts
    <3> QED BY <1>1, <2>1, <3>1, <3>2
  <2>2. CASE x # Len(list)
    <3>1. list[x] # list[Len(list)] /\ list[x] \in Node
      <4>1. Len(list) \in 1 .. Len(list) /\ list[x] \in Node
        BY <1>2, ListFacts
      <4> QED BY <2>2, <4>1 DEF ListInv, Distinct
    <3>2. next'[list[x]] = next[list[x]]
      BY <1>1, <3>1, <1>2 DEF ListTyped
    <3>3. next[list[x]] = At(list, x + 1)
      BY <1>1, <1>2, <2>2 DEF ListInv, Linked, Turned
    <3> QED BY <2>2, <3>2, <3>3
  <2> QED BY <2>1, <2>2
<1>5. Distinct' /\ Owned' /\ head' = At(list', 1)
  BY <1>1 DEF ListInv, Distinct, Owned, Freed, At
<1> QED BY <1>1, <1>3, <1>4, <1>5
        DEF ListInv, Counting, Reversing, Hopping, Circling, Answered, ListAnswers, NoOverrun

LEMMA CallStep == ListInv /\ CallRoutine => ListInv'
<1> SUFFICES ASSUME ListInv, CallRoutine PROVE ListInv'
  OBVIOUS
<1>1. /\ op = "idle" /\ k' = 0 /\ UNCHANGED <<next, alive, head, list, tied>> /\ asked' = "nothing"
      /\ \/ ~tied /\ op' \in {"length", "free"} /\ p' = head /\ q' = NULL
         \/ ~tied /\ op' = "reverse" /\ p' = NULL /\ q' = head
         \/ ~tied /\ op' = "middle" /\ p' = head /\ q' = head
         \/ op' = "has_cycle" /\ p' = head /\ q' = head
  BY DEF CallRoutine, Calls, heap, client
<1>2. /\ ListTyped /\ Len(list) \in Nat /\ head = At(list, 1) /\ head \in Node \cup {NULL}
      /\ At(list, 0) = NULL /\ DOMAIN list = 1 .. Len(list)
      /\ list # <<>> => Len(list) >= 1 /\ head = list[1]
  BY ListFacts DEF ListInv
<1>3. ListTyped'
  BY <1>1, <1>2 DEF ListTyped
<1>4. Distinct' /\ head' = At(list', 1) /\ (tied' => list' # <<>>)
  BY <1>1 DEF ListInv, Distinct, At
<1>5. Linked' /\ Owned'
  BY <1>1, <1>2 DEF ListInv, Linked, Turned, Owned, Freed, At
<1>6. Counting' /\ Reversing'
  BY <1>1, <1>2 DEF Counting, Reversing, At
<1>7. Hopping' /\ Circling'
  <2>1. Hopping'
    BY <1>1, <1>2 DEF Hopping, At
  <2>2. Circling'
    BY <1>1, <1>2 DEF ListInv, Circling, Nodes
  <2> QED BY <2>1, <2>2
<1> QED BY <1>1, <1>3, <1>4, <1>5, <1>6, <1>7 DEF ListInv, Answered, ListAnswers, NoOverrun

-----------------------------------------------------------------------------
(* The loops *)

\* A routine that reads the list only, still running or just done.
Quiet == /\ UNCHANGED <<next, alive, head, list, tied>>
         /\ op \notin {"idle", "abort", "reverse", "free"}
         /\ p' \in Node \cup {NULL} /\ q' \in Node \cup {NULL} /\ k' \in Nat
         /\ \/ op' = op /\ asked' = asked
            \/ op' = "idle"

LEMMA QuietStep ==
  ASSUME ListInv, Quiet, Counting', Hopping', Circling', Answered'
  PROVE  ListInv'
<1>1. op \in {"length", "middle", "has_cycle"} /\ op' \in {"length", "middle", "has_cycle", "idle"}
  BY DEF ListInv, ListTyped, Quiet
<1>2. ListTyped' /\ Distinct' /\ head' = At(list', 1) /\ (tied' => list' # <<>>)
  BY <1>1 DEF ListInv, Quiet, ListTyped, Distinct, At
<1>3. Linked'
  BY <1>1 DEF ListInv, Quiet, Linked, Turned, At
<1>4. Owned'
  BY <1>1 DEF ListInv, Quiet, Owned, Freed
<1>5. Reversing'
  BY <1>1 DEF Reversing
<1> QED BY <1>2, <1>3, <1>4, <1>5 DEF ListInv

LEMMA LengthStep == ListInv /\ list_length => ListInv'
<1> SUFFICES ASSUME ListInv, list_length PROVE ListInv'
  OBVIOUS
<1>1. /\ op = "length" /\ ~tied /\ k \in Nat /\ k <= Len(list) /\ p = At(list, k + 1)
      /\ asked = "nothing" /\ ListTyped /\ Len(list) \in Nat
  BY ListFacts DEF list_length, ListInv, Counting, Answered, ListTyped
<1>2. CASE p # NULL
  <2>1. k < Len(list) /\ p = list[k + 1] /\ p \in alive /\ At(list, k + 1) = p
    BY <1>1, <1>2, ListFacts, MayRead
  <2>2. /\ p' = next[p] /\ k' = k + 1
        /\ UNCHANGED <<next, alive, head, list, tied, op, q, asked, answer>>
    BY <1>2, <2>1 DEF list_length, Deref, heap, client, result
  <2>3. next[p] = At(list, k + 2) /\ p' \in Node \cup {NULL}
    BY <1>1, <2>1, <2>2, ListFacts DEF ListInv, Linked, Turned, ListTyped
  <2>4. Quiet
    BY <1>1, <2>2, <2>3 DEF Quiet, ListTyped
  <2>5. Counting' /\ Hopping' /\ Circling' /\ Answered'
    BY <1>1, <2>1, <2>2, <2>3 DEF Counting, Hopping, Circling, Answered, ListAnswers, NoOverrun, At, ListInv
  <2> QED BY <2>4, <2>5, QuietStep
<1>3. CASE p = NULL
  <2>1. k = Len(list)
    <3>1. k < Len(list) => list[k + 1] # NULL /\ At(list, k + 1) = list[k + 1]
      BY <1>1, ListFacts
    <3> QED BY <1>1, <1>3, <3>1
  <2>2. /\ op' = "idle" /\ asked' = "length" /\ answer' = Len(list)
        /\ p' = NULL /\ q' = NULL /\ k' = 0 /\ UNCHANGED <<next, alive, head, list, tied>>
    BY <1>3, <2>1 DEF list_length, Ends, heap, client
  <2>3. Quiet
    BY <1>1, <2>2 DEF Quiet
  <2>4. Counting' /\ Hopping' /\ Circling' /\ Answered'
    BY <2>2 DEF Counting, Hopping, Circling, Answered, ListAnswers, NoOverrun
  <2> QED BY <2>3, <2>4, QuietStep
<1> QED BY <1>2, <1>3

\* The pointers of list_middle and list_has_cycle, on a list that is not tied.
LEMMA HopFacts ==
  ASSUME ListInv, op \in {"middle", "has_cycle"}, ~tied, list # <<>>
  PROVE  /\ Len(list) \in Nat /\ k \in Nat /\ 2 * k + 1 <= Len(list)
         /\ p = list[k + 1] /\ q = list[2 * k + 1]
         /\ next[p] = At(list, k + 2) /\ next[q] = At(list, 2 * k + 2)
         /\ 2 * k + 2 <= Len(list) => next[next[q]] = At(list, 2 * k + 3)
         /\ Touched \subseteq alive
         /\ TwoAhead <=> 2 * k + 3 <= Len(list)
<1>1. /\ ListTyped /\ Len(list) \in Nat /\ k \in Nat /\ 2 * k + 1 <= Len(list)
      /\ p = At(list, k + 1) /\ q = At(list, 2 * k + 1)
  BY ListFacts DEF ListInv, Hopping, ListTyped
<1>2. p = list[k + 1] /\ q = list[2 * k + 1] /\ p \in alive /\ q \in alive
  BY <1>1, MayRead
<1>3. next[p] = At(list, k + 2) /\ next[q] = At(list, 2 * k + 2)
  BY <1>1, <1>2 DEF ListInv, Linked, Turned
<1>4. CASE 2 * k + 2 <= Len(list)
  <2>1. next[q] = list[2 * k + 2] /\ next[q] \in alive /\ next[q] # NULL
    BY <1>1, <1>3, <1>4, MayRead, ListFacts
  <2>2. next[next[q]] = At(list, 2 * k + 3)
    BY <1>1, <1>4, <2>1 DEF ListInv, Linked, Turned
  <2>3. next[next[q]] # NULL <=> 2 * k + 3 <= Len(list)
    BY <1>1, <2>2, ListFacts
  <2> QED BY <1>1, <1>2, <1>3, <2>1, <2>2, <2>3 DEF Touched, TwoAhead
<1>5. CASE ~(2 * k + 2 <= Len(list))
  <2>1. next[q] = NULL
    BY <1>1, <1>3, <1>5, ListFacts
  <2> QED BY <1>1, <1>2, <1>3, <1>5, <2>1 DEF Touched, TwoAhead
<1> QED BY <1>4, <1>5

\* One more hop keeps the two pointers where they should be.
LEMMA HopStep ==
  ASSUME ListInv, op \in {"middle", "has_cycle"}, ~tied, list # <<>>,
         TwoAhead, Hop, UNCHANGED <<heap, client, op, result>>
  PROVE  ListInv'
<1>1. /\ Len(list) \in Nat /\ k \in Nat /\ 2 * k + 3 <= Len(list)
      /\ next[p] = At(list, k + 2) /\ next[next[q]] = At(list, 2 * k + 3)
  BY HopFacts
<1>2. /\ p' = At(list, k + 2) /\ q' = At(list, 2 * k + 3) /\ k' = k + 1
      /\ UNCHANGED <<next, alive, head, list, tied, op, asked, answer>>
  BY <1>1 DEF Hop, heap, client, result
<1>3. p' \in Node \cup {NULL} /\ q' \in Node \cup {NULL} /\ k' \in Nat
  BY <1>1, <1>2, ListFacts DEF ListInv
<1>4. Quiet
  BY <1>2, <1>3 DEF Quiet
<1>5. Hopping'
  <2>1. k' + 1 = k + 2 /\ 2 * k' + 1 = 2 * k + 3
    BY <1>1, <1>2
  <2> QED BY <1>1, <1>2, <2>1 DEF Hopping, At
<1>6. Counting' /\ Circling' /\ Answered'
  BY <1>2 DEF ListInv, Counting, Circling, Answered, ListAnswers, NoOverrun, At
<1> QED BY <1>4, <1>5, <1>6, QuietStep

\* A read-only routine that ends with the answer it should give.
LEMMA EndsStep ==
  ASSUME ListInv, op \in {"middle", "has_cycle"}, NEW value, Ends(op, value),
         UNCHANGED <<heap, client>>,
         op = "middle" => value = At(list, Len(list) \div 2 + 1),
         op = "has_cycle" => value = tied
  PROVE  ListInv'
<1>1. /\ op' = "idle" /\ asked' = op /\ answer' = value /\ p' = NULL /\ q' = NULL /\ k' = 0
      /\ UNCHANGED <<next, alive, head, list, tied>>
  BY DEF Ends, heap, client
<1>2. Quiet
  BY <1>1 DEF Quiet
<1>3. Counting' /\ Hopping' /\ Circling'
  BY <1>1 DEF Counting, Hopping, Circling
<1>4. Answered'
  BY <1>1 DEF Answered, ListAnswers, NoOverrun, At
<1> QED BY <1>2, <1>3, <1>4, QuietStep

LEMMA EmptyList ==
  ASSUME ListInv
  PROVE  head = NULL <=> list = <<>>
<1>1. ListTyped /\ head = At(list, 1)
  BY DEF ListInv
<1> QED BY <1>1, ListFacts

LEMMA MiddleStep == ListInv /\ list_middle => ListInv'
<1> SUFFICES ASSUME ListInv, list_middle PROVE ListInv'
  OBVIOUS
<1>1. op = "middle" /\ ~tied /\ UNCHANGED <<heap, client>> /\ ListTyped /\ Len(list) \in Nat
  BY ListFacts DEF list_middle, ListInv, Circling
<1>2. CASE head = NULL
  <2>1. Ends("middle", NULL) /\ Len(list) = 0
    BY <1>1, <1>2, EmptyList, ListFacts DEF list_middle
  <2>2. At(list, Len(list) \div 2 + 1) = NULL
    BY <1>1, <2>1, ListFacts
  <2> QED BY <1>1, <2>1, <2>2, EndsStep
<1>3. CASE head # NULL
  <2>1. list # <<>>
    BY <1>3, EmptyList
  <2>2. /\ k \in Nat /\ 2 * k + 1 <= Len(list) /\ p = list[k + 1]
        /\ next[p] = At(list, k + 2) /\ next[q] = At(list, 2 * k + 2)
        /\ Touched \subseteq alive
        /\ TwoAhead <=> 2 * k + 3 <= Len(list)
    BY <1>1, <2>1, HopFacts
  <2>3. CASE TwoAhead
    BY <1>1, <1>3, <2>1, <2>2, <2>3, HopStep DEF list_middle, Deref, result
  <2>4. CASE ~TwoAhead
    <3>1. Ends("middle", Middle)
      BY <1>3, <2>2, <2>4 DEF list_middle, Deref
    <3>2. CASE Len(list) = 2 * k + 1
      <4>1. next[q] = NULL /\ p = At(list, k + 1) /\ Len(list) \div 2 + 1 = k + 1
        BY <1>1, <2>2, <3>2, ListFacts
      <4> QED BY <1>1, <3>1, <4>1, EndsStep DEF Middle
    <3>3. CASE Len(list) = 2 * k + 2
      <4>1. next[q] # NULL /\ Len(list) \div 2 + 1 = k + 2
        BY <1>1, <2>2, <3>3, ListFacts
      <4> QED BY <1>1, <2>2, <3>1, <4>1, EndsStep DEF Middle
    <3>4. Len(list) = 2 * k + 1 \/ Len(list) = 2 * k + 2
      BY <1>1, <2>2, <2>4
    <3> QED BY <3>2, <3>3, <3>4
  <2> QED BY <2>3, <2>4
<1> QED BY <1>2, <1>3

\* On a tied list every pointer leads to a node of the list.
LEMMA TiedLinks ==
  ASSUME ListInv, tied = TRUE, op = "has_cycle", NEW y \in Int, 1 <= y, y <= Len(list)
  PROVE  /\ next[list[y]] \in Nodes(list) /\ next[list[y]] # NULL
         /\ list[y] \in alive
<1>1. /\ ListTyped /\ Len(list) \in Nat /\ Len(list) > 0 /\ Linked
  BY ListFacts DEF ListInv
<1>2. list[y] \in alive /\ head = list[1] /\ list[1] # NULL /\ list[1] \in Nodes(list)
  BY <1>1, ListFacts, MayRead DEF ListInv
<1>3. CASE ~(y < Len(list))
  <2>1. y \in 1 .. Len(list) /\ y = Len(list) /\ ~(y <= 0)
    BY <1>1, <1>3
  <2>2. next[list[y]] = head
    BY <1>1, <2>1 DEF Linked, Turned
  <2> QED BY <1>2, <2>2
<1>4. CASE y < Len(list)
  <2>1. next[list[y]] = At(list, y + 1)
    BY <1>1, <1>4 DEF Linked, Turned
  <2>2. y + 1 \in 1 .. Len(list) /\ At(list, y + 1) = list[y + 1]
    BY <1>1, <1>4, ListFacts
  <2>3. list[y + 1] # NULL /\ list[y + 1] \in Nodes(list)
    BY <1>1, <2>2, ListFacts DEF Nodes
  <2> QED BY <1>2, <2>1, <2>2, <2>3
<1> QED BY <1>3, <1>4

LEMMA TiedStays ==
  ASSUME ListInv, tied = TRUE, op = "has_cycle", NEW node \in Nodes(list)
  PROVE  next[node] \in Nodes(list) /\ next[node] # NULL /\ node \in alive
<1>1. Len(list) \in Nat /\ DOMAIN list = 1 .. Len(list)
  BY ListFacts DEF ListInv
<1>2. PICK y \in DOMAIN list : node = list[y]
  BY DEF Nodes
<1>3. y \in Int /\ 1 <= y /\ y <= Len(list)
  BY <1>1, <1>2
<1> QED BY <1>2, <1>3, TiedLinks

LEMMA CycleStep == ListInv /\ list_has_cycle => ListInv'
<1> SUFFICES ASSUME ListInv, list_has_cycle PROVE ListInv'
  OBVIOUS
<1>1. op = "has_cycle" /\ UNCHANGED <<heap, client>> /\ ListTyped /\ Len(list) \in Nat
  BY ListFacts DEF list_has_cycle, ListInv
<1>2. CASE head = NULL
  <2>1. Ends("has_cycle", FALSE) /\ tied = FALSE
    BY <1>1, <1>2, EmptyList DEF list_has_cycle, ListInv, ListTyped
  <2> QED BY <1>1, <2>1, EndsStep
<1>3. CASE head # NULL /\ ~tied
  <2>1. list # <<>>
    BY <1>3, EmptyList
  <2>2. /\ k \in Nat /\ 2 * k + 1 <= Len(list)
        /\ next[p] = At(list, k + 2)
        /\ 2 * k + 2 <= Len(list) => next[next[q]] = At(list, 2 * k + 3)
        /\ Touched \subseteq alive
        /\ TwoAhead <=> 2 * k + 3 <= Len(list)
    BY <1>1, <1>3, <2>1, HopFacts
  <2>3. CASE TwoAhead
    <3>1. /\ k + 2 \in 1 .. Len(list) /\ 2 * k + 3 \in 1 .. Len(list) /\ k + 2 # 2 * k + 3
      BY <1>1, <2>2, <2>3
    <3>2. next[p] = list[k + 2] /\ next[next[q]] = list[2 * k + 3]
      BY <1>1, <2>2, <3>1, ListFacts
    <3>3. next[p] # next[next[q]]
      BY <3>1, <3>2 DEF ListInv, Distinct
    <3> QED BY <1>1, <1>3, <2>1, <2>2, <2>3, <3>3, HopStep DEF list_has_cycle, Deref
  <2>4. CASE ~TwoAhead
    <3>1. Ends("has_cycle", FALSE)
      BY <1>3, <2>2, <2>4 DEF list_has_cycle, Deref
    <3>2. tied = FALSE
      BY <1>3 DEF ListInv, ListTyped
    <3> QED BY <1>1, <3>1, <3>2, EndsStep
  <2> QED BY <2>3, <2>4
<1>4. CASE head # NULL /\ tied
  <2>1. p \in Nodes(list) /\ q \in Nodes(list) /\ tied = TRUE
    BY <1>1, <1>4 DEF ListInv, Circling, ListTyped
  <2>2. /\ next[p] \in Nodes(list) /\ p \in alive /\ q \in alive
        /\ next[q] \in Nodes(list) /\ next[q] # NULL
    BY <1>1, <1>4, <2>1, TiedStays
  <2>3. next[q] \in alive /\ next[next[q]] \in Nodes(list) /\ next[next[q]] # NULL
    BY <1>1, <1>4, <2>2, TiedStays
  <2>4. TwoAhead /\ Touched \subseteq alive
    BY <2>2, <2>3 DEF TwoAhead, Touched
  <2>5. CASE next[p] = next[next[q]]
    <3>1. Ends("has_cycle", TRUE)
      BY <1>4, <2>4, <2>5 DEF list_has_cycle, Deref
    <3> QED BY <1>1, <2>1, <3>1, EndsStep
  <2>6. CASE next[p] # next[next[q]]
    <3>1. /\ p' = next[p] /\ q' = next[next[q]] /\ k' = k + 1
          /\ UNCHANGED <<next, alive, head, list, tied, op, asked, answer>>
      BY <1>1, <1>4, <2>4, <2>6 DEF list_has_cycle, Deref, Hop, heap, client, result
    <3>2. Nodes(list) \subseteq Node
      BY <1>1, ListFacts DEF Nodes
    <3>3. Quiet
      BY <1>1, <2>2, <2>3, <3>1, <3>2 DEF Quiet, ListTyped
    <3>4. Counting' /\ Hopping' /\ Circling' /\ Answered'
      BY <1>1, <1>4, <2>2, <2>3, <3>1
         DEF ListInv, Counting, Hopping, Circling, Answered, ListAnswers, NoOverrun, Nodes
    <3> QED BY <3>3, <3>4, QuietStep
  <2> QED BY <2>5, <2>6
<1> QED BY <1>2, <1>3, <1>4

\* list_reverse turns the k-th pointer round and goes on.
LEMMA ReverseOn ==
  ASSUME ListInv, op = "reverse", q # NULL, list_reverse
  PROVE  ListInv'
<1>1. /\ ListTyped /\ ~tied /\ k \in Nat /\ k <= Len(list) /\ Len(list) \in Nat
      /\ p = At(list, k) /\ q = At(list, k + 1) /\ asked = "nothing"
  BY ListFacts DEF ListInv, Reversing, Answered, ListTyped
<1>2. k < Len(list) /\ q = list[k + 1] /\ q \in Node
  BY <1>1, ListFacts
<1>3. q \in alive
  BY <1>1, <1>2, MayRead
<1>4. /\ next' = [next EXCEPT ![q] = p] /\ p' = q /\ q' = next[q] /\ k' = k + 1
      /\ UNCHANGED <<alive, head, list, tied, op, asked, answer>>
  BY <1>3 DEF list_reverse, Deref, client, result
<1>5. next[q] = At(list, k + 2)
  <2>1. Linked
    BY DEF ListInv
  <2> QED BY <1>1, <1>2, <2>1 DEF Linked, Turned
<1>6. ListTyped'
  <2>1. next[q] \in Node \cup {NULL} /\ p \in Node \cup {NULL}
    BY <1>1, <1>2 DEF ListTyped
  <2> QED BY <1>1, <1>2, <1>4, <2>1 DEF ListTyped
<1>7. Linked'
  <2> SUFFICES ASSUME NEW x \in 1 .. Len(list)
               PROVE  next'[list[x]] = IF x <= k + 1 THEN At(list, x - 1) ELSE At(list, x + 1)
    BY <1>1, <1>4 DEF Linked, Turned, At
  <2>1. next[list[x]] = IF x <= k THEN At(list, x - 1) ELSE At(list, x + 1)
    BY <1>1 DEF ListInv, Linked, Turned
  <2>2. CASE x = k + 1
    <3>1. next'[list[x]] = p /\ p = At(list, x - 1)
      BY <1>1, <1>2, <1>4, <2>2 DEF ListTyped
    <3> QED BY <1>1, <2>2, <3>1
  <2>3. CASE x # k + 1
    <3>1. k + 1 \in 1 .. Len(list)
      BY <1>1, <1>2
    <3>2. list[x] # q
      BY <1>2, <2>3, <3>1 DEF ListInv, Distinct
    <3>3. list[x] \in Node
      BY <1>1, ListFacts
    <3>4. next'[list[x]] = next[list[x]]
      BY <1>1, <1>4, <3>2, <3>3 DEF ListTyped
    <3>5. x <= k + 1 <=> x <= k
      BY <1>1, <2>3
    <3> QED BY <2>1, <3>4, <3>5
  <2> QED BY <2>2, <2>3
<1>8. Distinct' /\ head' = At(list', 1) /\ Owned' /\ (tied' => list' # <<>>)
  BY <1>1, <1>4 DEF ListInv, Distinct, Owned, Freed, At
<1>9. Reversing'
  BY <1>1, <1>2, <1>4, <1>5 DEF Reversing, At
<1> QED BY <1>1, <1>4, <1>6, <1>7, <1>8, <1>9
        DEF ListInv, Counting, Hopping, Circling, Answered, ListAnswers, NoOverrun

\* When it ends the list is the client's, reversed.
LEMMA ReverseDone ==
  ASSUME ListInv, op = "reverse", q = NULL, list_reverse
  PROVE  ListInv'
<1>1. /\ ListTyped /\ ~tied /\ k \in Nat /\ k <= Len(list) /\ Len(list) \in Nat
      /\ p = At(list, k) /\ q = At(list, k + 1) /\ list \in Seq(Node)
  BY ListFacts DEF ListInv, Reversing, ListTyped
<1>2. k = Len(list)
  <2>1. k < Len(list) => list[k + 1] # NULL /\ At(list, k + 1) = list[k + 1]
    BY <1>1, ListFacts
  <2> QED BY <1>1, <2>1
<1>3. /\ op' = "idle" /\ asked' = "reverse" /\ p' = NULL /\ q' = NULL /\ k' = 0
      /\ head' = At(list, Len(list)) /\ list' = Reversed(list)
      /\ UNCHANGED <<next, alive, tied>>
  BY <1>1, <1>2 DEF list_reverse, Ends, heap
<1>4. /\ list' \in Seq(Node) /\ Len(list') = Len(list)
      /\ \A x \in 1 .. Len(list) : /\ list'[x] = list[Len(list) + 1 - x]
                                   /\ list[x] = list'[Len(list) + 1 - x]
  BY <1>1, <1>3, ReverseFacts
<1>5. ListTyped'
  BY <1>1, <1>3, <1>4 DEF ListTyped
<1>6. Distinct'
  <2> SUFFICES ASSUME NEW x \in 1 .. Len(list), NEW y \in 1 .. Len(list), list'[x] = list'[y]
               PROVE  x = y
    BY <1>4 DEF Distinct
  <2>1. Len(list) + 1 - x \in 1 .. Len(list) /\ Len(list) + 1 - y \in 1 .. Len(list)
    BY <1>1
  <2>2. list[Len(list) + 1 - x] = list[Len(list) + 1 - y]
    BY <1>4
  <2>3. Len(list) + 1 - x = Len(list) + 1 - y
    BY <2>1, <2>2 DEF ListInv, Distinct
  <2> QED BY <1>1, <2>3
<1>7. head' = At(list', 1)
  <2>1. CASE Len(list) = 0
    BY <1>3, <1>4, <2>1 DEF At
  <2>2. CASE Len(list) > 0
    <3>1. 1 \in 1 .. Len(list) /\ Len(list) \in 1 .. Len(list) /\ Len(list) + 1 - 1 = Len(list)
      BY <1>1, <2>2
    <3>2. list'[1] = list[Len(list)]
      BY <1>4, <3>1
    <3> QED BY <1>3, <1>4, <3>1, <3>2 DEF At
  <2> QED BY <1>1, <2>1, <2>2
<1>8. Linked'
  <2> SUFFICES ASSUME NEW x \in 1 .. Len(list)
               PROVE  next[list'[x]] = At(list', x + 1)
    BY <1>1, <1>3, <1>4 DEF Linked, Turned
  <2> DEFINE y == Len(list) + 1 - x
  <2>1. y \in 1 .. Len(list) /\ list'[x] = list[y]
    BY <1>1, <1>4
  <2>2. next[list[y]] = At(list, y - 1)
    <3>1. Linked /\ y <= k
      BY <1>2, <2>1 DEF ListInv
    <3> QED BY <1>1, <2>1, <3>1 DEF Linked, Turned
  <2>3. CASE x = Len(list)
    <3>1. y = 1
      BY <1>1, <2>3
    <3>2. At(list, y - 1) = NULL /\ At(list', x + 1) = NULL
      BY <1>1, <1>4, <2>3, <3>1 DEF At
    <3> QED BY <2>1, <2>2, <3>2
  <2>4. CASE x # Len(list)
    <3>1. x + 1 \in 1 .. Len(list) /\ y - 1 \in 1 .. Len(list) /\ Len(list) + 1 - (x + 1) = y - 1
      BY <1>1, <2>4
    <3>2. list'[x + 1] = list[y - 1]
      BY <1>4, <3>1
    <3>3. At(list, y - 1) = list[y - 1] /\ At(list', x + 1) = list'[x + 1]
      BY <1>4, <3>1 DEF At
    <3> QED BY <2>1, <2>2, <3>2, <3>3
  <2> QED BY <2>3, <2>4
<1>9. Owned'
  <2>1. alive = {list[x] : x \in 1 .. Len(list)}
    BY <1>1 DEF ListInv, Owned, Freed
  <2>2. \A x \in 1 .. Len(list) : Len(list) + 1 - x \in 1 .. Len(list)
    BY <1>1
  <2>3. \A x \in 1 .. Len(list) : list'[x] \in alive
    BY <1>4, <2>1, <2>2
  <2>4. \A z \in alive : \E x \in 1 .. Len(list) : z = list'[x]
    <3> SUFFICES ASSUME NEW y \in 1 .. Len(list)
                 PROVE  \E x \in 1 .. Len(list) : list[y] = list'[x]
      BY <2>1
    <3> QED BY <1>4, <2>2
  <2>5. alive = {list'[x] : x \in 1 .. Len(list)}
    BY <2>3, <2>4
  <2> QED BY <1>3, <1>4, <2>5 DEF Owned, Freed
<1> QED BY <1>1, <1>3, <1>5, <1>6, <1>7, <1>8, <1>9
        DEF ListInv, Counting, Reversing, Hopping, Circling, Answered, ListAnswers, NoOverrun

LEMMA ReverseNode == ListInv /\ list_reverse => ListInv'
BY ReverseOn, ReverseDone DEF list_reverse

LEMMA FreeStepKeeps == ListInv /\ list_free => ListInv'
<1> SUFFICES ASSUME ListInv, list_free PROVE ListInv'
  OBVIOUS
<1>1. /\ op = "free" /\ ~tied /\ k \in Nat /\ k <= Len(list) /\ p = At(list, k + 1)
      /\ asked = "nothing" /\ ListTyped /\ Len(list) \in Nat
  BY ListFacts DEF list_free, ListInv, Counting, Answered, ListTyped
<1>2. CASE p # NULL
  <2>1. k < Len(list) /\ p = list[k + 1]
    BY <1>1, <1>2, ListFacts
  <2>2. p \in alive
    BY <1>1, <2>1, MayRead
  <2>3. /\ p' = next[p] /\ k' = k + 1 /\ alive' = alive \ {p}
        /\ UNCHANGED <<next, head, list, tied, op, q, asked, answer>>
    BY <1>2, <2>2 DEF list_free, Deref, FreeStep, client, result
  <2>4. next[p] = At(list, k + 2)
    <3>1. Linked
      BY DEF ListInv
    <3> QED BY <1>1, <2>1, <3>1 DEF Linked, Turned
  <2>5. ListTyped'
    <3>1. next[p] \in Node \cup {NULL}
      BY <1>1, <2>2 DEF ListTyped
    <3> QED BY <1>1, <2>3, <3>1 DEF ListTyped
  <2>6. Owned'
    <3>1. alive = {list[x] : x \in k + 1 .. Len(list)}
      BY <1>1 DEF ListInv, Owned, Freed
    <3>2. \A x \in k + 2 .. Len(list) : list[x] # p
      <4>1. \A x \in k + 2 .. Len(list) :
              x \in 1 .. Len(list) /\ k + 1 \in 1 .. Len(list) /\ x # k + 1
        BY <1>1
      <4> QED BY <2>1, <4>1 DEF ListInv, Distinct
    <3>3. \A x \in k + 1 .. Len(list) : x = k + 1 \/ x \in k + 2 .. Len(list)
      BY <1>1
    <3>4. \A x \in k + 2 .. Len(list) : x \in k + 1 .. Len(list)
      BY <1>1
    <3>5. alive \ {p} = {list[x] : x \in k + 2 .. Len(list)}
      BY <2>1, <3>1, <3>2, <3>3, <3>4
    <3>6. Freed' + 1 = k + 2
      BY <1>1, <2>3 DEF Freed
    <3> QED BY <2>3, <3>5, <3>6 DEF Owned
  <2>7. Distinct' /\ head' = At(list', 1) /\ Linked' /\ (tied' => list' # <<>>)
    BY <1>1, <2>3 DEF ListInv, Distinct, Linked, Turned, At
  <2>8. Counting'
    BY <1>1, <2>1, <2>3, <2>4 DEF Counting, At
  <2> QED BY <1>1, <2>3, <2>5, <2>6, <2>7, <2>8
          DEF ListInv, Reversing, Hopping, Circling, Answered, ListAnswers, NoOverrun
<1>3. CASE p = NULL
  <2>1. k = Len(list)
    <3>1. k < Len(list) => list[k + 1] # NULL /\ At(list, k + 1) = list[k + 1]
      BY <1>1, ListFacts
    <3> QED BY <1>1, <1>3, <3>1
  <2>2. alive = {}
    BY <1>1, <2>1 DEF ListInv, Owned, Freed
  <2>3. /\ op' = "idle" /\ asked' = "free" /\ p' = NULL /\ q' = NULL /\ k' = 0
        /\ head' = NULL /\ list' = <<>> /\ UNCHANGED <<next, alive, tied>>
    BY <1>3 DEF list_free, Ends, heap
  <2>4. ListTyped' /\ Len(list') = 0
    <3>1. list' \in Seq(Node) /\ Len(list') = 0
      BY <2>3
    <3> QED BY <1>1, <2>3, <3>1 DEF ListTyped
  <2>5. Distinct' /\ Linked' /\ Owned' /\ head' = At(list', 1)
    BY <2>2, <2>3, <2>4 DEF Distinct, Linked, Owned, Freed, At
  <2> QED BY <1>1, <2>3, <2>4, <2>5
          DEF ListInv, Counting, Reversing, Hopping, Circling, Answered, ListAnswers, NoOverrun
<1> QED BY <1>2, <1>3

LEMMA ListStutter == ListInv /\ UNCHANGED listVars => ListInv'
<1> SUFFICES ASSUME ListInv, UNCHANGED listVars PROVE ListInv'
  OBVIOUS
<1> QED BY DEF ListInv, listVars, heap, client, result, ListTyped, Distinct, Linked, Turned, Owned,
               Freed, Counting, Reversing, Hopping, Circling, Answered, ListAnswers, NoOverrun, At, Nodes

LEMMA ListStep == ListInv /\ [ListNext]_listVars => ListInv'
BY PushStep, TieStep, CallStep, LengthStep, ReverseNode, MiddleStep, CycleStep, FreeStepKeeps,
   ListStutter DEF ListNext, Loop

-----------------------------------------------------------------------------
(* What follows *)

LEMMA Spelled == ListInv => ListMatches
<1> SUFFICES ASSUME ListInv, op = "idle"
             PROVE  /\ head = At(list, 1) /\ alive = Nodes(list)
                    /\ \A x \in DOMAIN list :
                         next[list[x]] = IF x = Len(list) /\ tied THEN head
                                         ELSE At(list, x + 1)
  BY DEF ListMatches
<1>1. DOMAIN list = 1 .. Len(list) /\ Linked /\ Owned /\ head = At(list, 1)
  BY ListFacts DEF ListInv
<1>2. alive = {list[x] : x \in 1 .. Len(list)}
  BY <1>1 DEF Owned, Freed
<1>3. \A x \in 1 .. Len(list) :
        next[list[x]] = IF x = Len(list) /\ tied THEN head ELSE At(list, x + 1)
  BY DEF ListInv, Linked, Turned
<1> QED BY <1>1, <1>2, <1>3 DEF Nodes

LEMMA Answering == ListInv => ListAnswers /\ NoOverrun
BY DEF ListInv, ListTyped, Answered, NoOverrun

-----------------------------------------------------------------------------
(* The program *)

\* While another program runs, no routine is called.
NotCalled == fn = "none" /\ pc = "entry" /\ ub = FALSE

ProperCInv == /\ IF program = "routine" THEN RoutineInv ELSE NotCalled
              /\ ListInv /\ BenchInv

LEMMA ProgramStart == Init => ProperCInv
<1> SUFFICES ASSUME Init PROVE ProperCInv
  OBVIOUS
<1>1. ListInv /\ BenchInv
  BY ListStart, BenchStart DEF Init
<1>2. IF program = "routine" THEN RoutineInv ELSE NotCalled
  BY ArraysStart, WordsStart DEF Init, ArraysInit, PointersInit, FuncPtrInit, SafetyInit,
                                 RoutineInv, NotCalled, NoRoutine, Call
<1> QED BY <1>1, <1>2 DEF ProperCInv

LEMMA ProgramStep == ProperCInv /\ [Next]_vars => ProperCInv'
<1> SUFFICES ASSUME ProperCInv, [Next]_vars PROVE ProperCInv'
  OBVIOUS
<1>1. /\ program' = program
      /\ program = "routine" => [ArraysNext \/ WordsNext]_frame
      /\ program # "routine" => UNCHANGED frame
      /\ [ListNext]_listVars /\ [BenchNext]_benchVars
  <2>1. CASE Routine
    BY <2>1 DEF Routine, others
  <2>2. CASE Client
    BY <2>2 DEF Client, others
  <2>3. CASE Measures
    BY <2>3 DEF Measures, others
  <2>4. CASE UNCHANGED vars
    BY <2>4 DEF vars
  <2> QED BY <2>1, <2>2, <2>3, <2>4 DEF Next
<1>2. ListInv' /\ BenchInv'
  BY <1>1, ListStep, BenchStep DEF ProperCInv
<1>3. IF program' = "routine" THEN RoutineInv' ELSE NotCalled'
  <2>1. CASE program = "routine"
    BY <1>1, <2>1, RoutineStep DEF ProperCInv
  <2>2. CASE program # "routine"
    BY <1>1, <2>2 DEF ProperCInv, NotCalled, frame, args
  <2> QED BY <2>1, <2>2
<1> QED BY <1>2, <1>3 DEF ProperCInv

\* Whichever program runs, its loops stay where their invariants say.
THEOREM ProgramInvariance == Spec => []ProperCInv
BY ProgramStart, ProgramStep, PTL DEF Spec

LEMMA RoutineBounds == RoutineInv => /\ ArrayBounds
                                     /\ ub => fn = "pack_rgba" /\ 2 * src[0] >= Base
<1>1. ArraysInv => ArrayBounds
  BY ArraysBounded
<1>2. WordsInv => ArrayBounds
  <2> SUFFICES ASSUME WordsInv PROVE ArrayBounds
    OBVIOUS
  <2>1. fn # "sort_ints" /\ pc # "abort"
    BY WordsBounded DEF WordsInv, WordsCalled, BitsFn, StructsFn, UbFn
  <2> QED BY <2>1 DEF ArrayBounds
<1> QED BY <1>1, <1>2, WordsBounded DEF RoutineInv

\* WithinBounds, for every length, width, value and function: AddressSanitizer has
\* safe_strcat with size 0 and list_push_front's write through a failed malloc's NULL
\* (linkedlist.c:7) to report and nothing else, UBSan the shift of pack_rgba from the
\* top bit of r on; the benchmark touches no node that is not there.
THEOREM Bounds == Spec => []WithinBounds
<1>1. ProperCInv => WithinBounds
  BY RoutineBounds, Answering, WorkedAlike
     DEF ProperCInv, NotCalled, WithinBounds, ArrayBounds, SameWork, WalksAll
<1> QED BY <1>1, ProgramInvariance, PTL

\* The cells that reverse_array, my_memcpy, int_map, int_filter and sort_ints leave, the
\* count and the fold that int_filter and int_reduce return, and what the routines of
\* safety.c write and return (but for safe_strcat's value above dstsize) are what the
\* headers promise, for arrays of every length up to SIZE_MAX, every value, mapping,
\* predicate and operation, and, of sort_ints, every comparator of -1, 0 and 1.  The rest
\* of pointers.h is not claimed; nor is a call that Bounds has ended by the sanitizer.
THEOREM ArraysRight == Spec => []ArrayResult
<1>1. WordsInv => ArrayResult
  BY DEF WordsInv, WordsCalled, BitsFn, StructsFn, UbFn, ArrayResult, PointersResult,
         FuncPtrResult, SafetyResult, SortResult, SafetyFn
<1>2. NotCalled => ArrayResult
  BY DEF NotCalled, ArrayResult, PointersResult, FuncPtrResult, SafetyResult, SortResult
<1>3. ProperCInv => ArrayResult
  BY <1>1, <1>2, ArraysDone DEF ProperCInv, RoutineInv
<1> QED BY <1>3, ProgramInvariance, PTL

\* What structs.h, ub.h and the two routines of bits.c that are written promise (the
\* other five return 5, and are not claimed), for bytes of any even number of values
\* and words of any width made of four: x & (x - 1) counts the bits, the byte orders
\* are inverse to each other, and the checked arithmetic is exact (bits.c:4,
\* structs.c:10, ub.c:10).
THEOREM WordsRight == Spec => []WordsResult
<1>1. ArraysInv => WordsResult
  BY DEF ArraysInv, Called, PointersFn, FuncPtrFn, SafetyFn, WordsResult
<1>2. NotCalled => WordsResult
  BY DEF NotCalled, WordsResult
<1>3. ProperCInv => WordsResult
  BY <1>1, <1>2, WordsDone DEF ProperCInv, RoutineInv
<1> QED BY <1>3, ProgramInvariance, PTL

\* The C keeps the client's list: between two calls the pointers spell it, nothing
\* of it is freed, nothing else is left allocated (linkedlist.c:22, :65).
THEOREM Matches == Spec => []ListMatches
<1>1. ProperCInv => ListMatches
  BY Spelled DEF ProperCInv
<1> QED BY <1>1, ProgramInvariance, PTL

\* The length, the middle and the cycle are reported right for a list of any length
\* (linkedlist.c:12, :33 and :49).
THEOREM Answers == Spec => []ListAnswers
<1>1. ProperCInv => ListAnswers
  BY Answering DEF ProperCInv
<1> QED BY <1>1, ProgramInvariance, PTL

\* The two experiments of bench.c:6, for every LIST_N, MAT_N and mask and every
\* outcome of the shuffle: each walk meets each node once and ends, the sums that
\* are printed agree, both orders read the whole matrix, and everything that was
\* allocated is freed once.
THEOREM BothTheSame == Spec => []SameWork
<1>1. ProperCInv => SameWork
  BY WorkedAlike DEF ProperCInv
<1> QED BY <1>1, ProgramInvariance, PTL
=============================================================================
