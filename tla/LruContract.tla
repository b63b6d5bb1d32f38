---------------------------- MODULE LruContract ----------------------------
(***************************************************************************)
(* The contract of exercises/lru.py, in its docstring's terms.  Nothing is *)
(* ever evicted here: the cache remembers every key ever put, in order of  *)
(* use, and what is `present' is by definition the `capacity' most recent. *)
(* That a bounded dict which forgets what it evicts behaves like this one  *)
(* is the point of the algorithm.                                          *)
(***************************************************************************)
EXTENDS Recency

CONSTANTS Key, Val, Capacities

VARIABLES capacity,
          recent,   \* every key ever put, least recently used first
          stored,   \* the value last put under each
          reply     \* what the last call returned

contractVars == <<capacity, recent, stored, reply>>

Present == Keys(Newest(recent, capacity))

Answer(c, v) == [call |-> c, out |-> v]

Init == /\ capacity \in Capacities
        /\ capacity >= 1
        /\ recent = <<>>
        /\ stored = <<>>
        /\ reply = Answer("init", 0)

Hit(k) == /\ k \in Present
          /\ recent' = Touch(recent, k)
          /\ reply' = Answer("get", stored[k])
          /\ UNCHANGED <<capacity, stored>>

Miss(k) == /\ k \notin Present
           /\ reply' = Answer("get", -1)
           /\ UNCHANGED <<capacity, recent, stored>>

Put(k, v) == /\ recent' = Touch(recent, k)
             /\ stored' = [i \in DOMAIN stored \cup {k} |->
                             IF i = k THEN v ELSE stored[i]]
             /\ reply' = Answer("put", 0)
             /\ UNCHANGED capacity

Next == \E k \in Key : Hit(k) \/ Miss(k) \/ \E v \in Val : Put(k, v)

Spec == Init /\ [][Next]_contractVars
=============================================================================
