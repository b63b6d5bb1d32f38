----------------------------- MODULE LinkedList -----------------------------
(***************************************************************************)
(* ProperC/src/linkedlist.c and the client its test is: one list, grown,   *)
(* measured, reversed, tied into a cycle and untied, and freed, in any     *)
(* order that linkedlist.h allows (on a tied list list_has_cycle only).  A *)
(* loop takes one step per iteration; a dereference of a pointer that is   *)
(* NULL or freed ends the process (`abort'), as AddressSanitizer does.  A  *)
(* node stands for the value in it.                                        *)
(*                                                                         *)
(* list, tied and k are what the client knows and the code does not: the   *)
(* nodes the list should have, whether the last one points to the first,   *)
(* the iterations of the loop so far.                                      *)
(*                                                                         *)
(* A definition named Bug... is a plausible slip, no part of ListSpec.     *)
(***************************************************************************)
EXTENDS Integers, Sequences

CONSTANTS Node, NULL

ASSUME NodeAssumption == NULL \notin Node

VARIABLES
  next,   \* node -> the pointer in it
  alive,  \* the nodes allocated and not freed
  head,   \* the client's pointer
  list, tied, k,
  op,     \* the routine that runs, or "idle" or "abort"
  p, q,   \* its pointers: temp; prev and head; slow and fast
  asked,  \* the routine that has just returned or aborted
  answer  \* and the result of one that returned

heap   == <<next, alive>>
client == <<head, list, tied>>
result == <<asked, answer>>
listVars == <<heap, client, k, op, p, q, result>>

ListInit == /\ next = [x \in Node |-> NULL] /\ alive = {}
            /\ head = NULL /\ list = <<>> /\ tied = FALSE
            /\ op = "idle" /\ p = NULL /\ q = NULL /\ k = 0
            /\ asked = "nothing" /\ answer = NULL

\* A step that reads these nodes, or the sanitizer's report.
Deref(pointers, step) ==
  IF pointers \subseteq alive
  THEN step
  ELSE op' = "abort" /\ asked' = op /\ UNCHANGED <<heap, client, k, p, q, answer>>

Ends(routine, value) == /\ op' = "idle" /\ asked' = routine /\ answer' = value
                          /\ p' = NULL /\ q' = NULL /\ k' = 0

Calls(routine, p0, q0) == /\ op = "idle" /\ op' = routine
                         /\ p' = p0 /\ q' = q0 /\ k' = 0
                         /\ asked' = "nothing" /\ answer' = NULL
                         /\ UNCHANGED <<heap, client>>

-----------------------------------------------------------------------------
(* The client *)

Push(x) == /\ alive' = alive \cup {x}
           /\ next' = [next EXCEPT ![x] = head]
           /\ head' = x /\ list' = <<x>> \o list
           /\ op' = op /\ asked' = "nothing" /\ answer' = NULL
           /\ UNCHANGED <<tied, k, p, q>>

\* malloc finds a node, or returns NULL and `newNode->val = val' writes through it.
list_push_front == /\ op = "idle" /\ ~tied
                   /\ \/ \E x \in Node \ alive : Push(x)
                      \/ /\ op' = "abort" /\ asked' = "push_front"
                         /\ UNCHANGED <<heap, client, k, p, q, answer>>

\* tail->next = h, and tail->next = NULL
Tie == /\ op = "idle" /\ list # <<>>
       /\ tied' = ~tied
       /\ next' = [next EXCEPT ![list[Len(list)]] = IF tied THEN NULL ELSE head]
       /\ asked' = "nothing" /\ answer' = NULL
       /\ UNCHANGED <<alive, head, list, op, k, p, q>>

CallRoutine == \/ /\ ~tied
                  /\ \/ Calls("length", head, NULL)
                     \/ Calls("reverse", NULL, head)
                     \/ Calls("middle", head, head)
                     \/ Calls("free", head, NULL)
               \/ Calls("has_cycle", head, head)

-----------------------------------------------------------------------------
(* The loops *)

\* k is count.
list_length ==
  /\ op = "length"
  /\ \/ p # NULL /\ Deref({p}, /\ p' = next[p] /\ k' = k + 1
                               /\ UNCHANGED <<heap, client, op, q, result>>)
     \/ p = NULL /\ Ends("length", k) /\ UNCHANGED <<heap, client>>

Reversed(s) == [x \in DOMAIN s |-> s[Len(s) + 1 - x]]

list_reverse ==
  /\ op = "reverse"
  /\ \/ q # NULL /\ Deref({q}, /\ next' = [next EXCEPT ![q] = p]
                               /\ p' = q /\ q' = next[q] /\ k' = k + 1
                               /\ UNCHANGED <<alive, client, op, result>>)
     \/ /\ q = NULL /\ Ends("reverse", p)
        /\ head' = p /\ list' = Reversed(list)
        /\ UNCHANGED <<heap, tied>>

\* fast->next && fast->next->next, and what the test and the body read
TwoAhead == next[q] # NULL /\ next[next[q]] # NULL

Touched == {p, q} \cup (IF q \in alive THEN {next[q]} \ {NULL} ELSE {})

Hop == p' = next[p] /\ q' = next[next[q]] /\ k' = k + 1

\* A bug: of two middle nodes the first.
BugMiddle == p

Middle == IF next[q] # NULL THEN next[p] ELSE p

\* On an empty list it returns the value 0, for which NULL stands.
list_middle ==
  /\ op = "middle" /\ UNCHANGED <<heap, client>>
  /\ \/ head = NULL /\ Ends("middle", NULL)
     \/ head # NULL /\ Deref(Touched, IF TwoAhead THEN Hop /\ UNCHANGED <<op, result>>
                                                ELSE Ends("middle", Middle))

list_has_cycle ==
  /\ op = "has_cycle" /\ UNCHANGED <<heap, client>>
  /\ \/ head = NULL /\ Ends("has_cycle", FALSE)
     \/ head # NULL /\ Deref(Touched, IF ~TwoAhead THEN Ends("has_cycle", FALSE)
                                     ELSE IF next[p] = next[next[q]]
                                     THEN Ends("has_cycle", TRUE)
                                     ELSE Hop /\ UNCHANGED <<op, result>>)

\* A bug: every second node is skipped.
BugFreeStep == /\ p' = IF next[p] = NULL THEN NULL ELSE next[next[p]]
               /\ alive' = alive \ {p} /\ k' = k + 1
               /\ UNCHANGED <<next, client, op, q, result>>

FreeStep == /\ p' = next[p] /\ alive' = alive \ {p} /\ k' = k + 1
            /\ UNCHANGED <<next, client, op, q, result>>

list_free ==
  /\ op = "free"
  /\ \/ p # NULL /\ Deref({p}, FreeStep)
     \/ /\ p = NULL /\ Ends("free", NULL)
        /\ head' = NULL /\ list' = <<>>
        /\ UNCHANGED <<heap, tied>>

Loop == list_length \/ list_reverse \/ list_middle \/ list_has_cycle \/ list_free

ListNext == list_push_front \/ Tie \/ CallRoutine \/ Loop

ListSpec == ListInit /\ [][ListNext]_listVars /\ WF_listVars(Loop)

-----------------------------------------------------------------------------
Nodes(s) == {s[x] : x \in DOMAIN s}

\* The pointer to the x-th node of s, NULL behind its end.
At(s, x) == IF x \in 1 .. Len(s) THEN s[x] ELSE NULL

ListTypeOK == /\ next \in [Node -> Node \cup {NULL}] /\ alive \subseteq Node
              /\ head \in Node \cup {NULL} /\ list \in Seq(Node) /\ tied \in BOOLEAN
              /\ op \in {"idle", "length", "reverse", "middle", "has_cycle", "free",
                         "abort"}
              /\ p \in Node \cup {NULL} /\ q \in Node \cup {NULL} /\ k \in Nat

\* Between two calls the pointers spell exactly the list the client built, no node
\* of it is freed and no other node is left allocated: list_reverse loses none and
\* list_free leaks none (linkedlist.h:16, :21 and :33).
ListMatches ==
  op = "idle" =>
    /\ head = At(list, 1)
    /\ alive = Nodes(list)
    /\ \A x \in DOMAIN list :
         next[list[x]] = IF x = Len(list) /\ tied THEN head ELSE At(list, x + 1)

\* The length, the second of two middle nodes, and a cycle exactly when there is
\* one, for lists of every length (linkedlist.h:18, :24 and :30).
ListAnswers == op = "idle" =>
  /\ asked = "length" => answer = Len(list)
  /\ asked = "middle" => answer = At(list, Len(list) \div 2 + 1)
  /\ asked = "has_cycle" => answer = tied

\* No routine follows a pointer that is NULL or freed, but for list_push_front, which
\* writes through the NULL of a failed malloc (linkedlist.c:7) where linkedlist.h:14-15
\* promises `the original head unchanged'.
NoOverrun == op = "abort" => asked = "push_front"
=============================================================================
