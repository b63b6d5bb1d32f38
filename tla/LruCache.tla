------------------------------ MODULE LruCache ------------------------------
(***************************************************************************)
(* ProperInterview/python/exercises/lru.py: LRUCache on one insertion-     *)
(* ordered dict.  The dict is its list of keys in insertion order, `order',*)
(* and the value of each, `value'; pop and re-insert is how a key becomes  *)
(* the most recent one, and next(iter(dict)) is the least recent.          *)
(*                                                                         *)
(* `recent' and `stored' are history variables, no part of the code: they  *)
(* record every use the contract calls one (a put, and a get of a key that *)
(* is present) so that the cache can be compared with LruContract.         *)
(*                                                                         *)
(* The two print calls are left out.  A definition named Bug... is a       *)
(* plausible slip, no part of Spec.                                        *)
(***************************************************************************)
EXTENDS Recency, FiniteSets

CONSTANTS Key,
          Val,         \* the values a caller puts
          Capacities   \* the arguments of LRUCache(capacity)

ASSUME CacheAssumption == Val \subseteq Int \ {-1} /\ Capacities \subseteq Int

VARIABLES order, value, length, capacity, reply,  \* the code's
          recent, stored                          \* history

dict == <<order, value>>
vars == <<order, value, length, capacity, reply, recent, stored>>

Answer(c, v) == [call |-> c, out |-> v]

\* A capacity below 1 raises ValueError: there is no such object.
Init == /\ capacity \in Capacities
        /\ capacity >= 1
        /\ order = <<>>
        /\ value = <<>>
        /\ length = 0
        /\ reply = Answer("init", 0)
        /\ recent = <<>>
        /\ stored = <<>>

With(f, k, v) == [i \in DOMAIN f \cup {k} |-> IF i = k THEN v ELSE f[i]]

Without(f, k) == [i \in DOMAIN f \ {k} |-> f[i]]

\* `if not res': None and 0 are both false.
Truthy(k) == k \in DOMAIN value /\ value[k] # 0

Found(k, o) == /\ Truthy(k)
               /\ order' = o
               /\ reply' = Answer("get", value[k])
               /\ recent' = Touch(recent, k)
               /\ UNCHANGED <<value, length, capacity, stored>>

BugGetHit(k) == Found(k, order)   \* a hit is answered without moving the key

GetHit(k) == Found(k, Append(Pop(order, k), k))

GetMiss(k) == /\ ~Truthy(k)
              /\ reply' = Answer("get", -1)
              /\ recent' = IF k \in DOMAIN value THEN Touch(recent, k) ELSE recent
              /\ UNCHANGED <<dict, length, capacity, stored>>

\* What every put records, and its None.
Record(k, v) == /\ recent' = Touch(recent, k)
                /\ stored' = With(stored, k, v)
                /\ reply' = Answer("put", 0)
                /\ UNCHANGED capacity

PutNew(k, v) == /\ k \notin DOMAIN value
                /\ length # capacity
                /\ length' = length + 1
                /\ order' = Append(order, k)
                /\ value' = With(value, k, v)
                /\ Record(k, v)

Evict(k, v, n) == /\ k \notin DOMAIN value
                  /\ length = capacity
                  /\ order' = Append(Tail(order), k)
                  /\ value' = With(Without(value, Head(order)), k, v)
                  /\ length' = n
                  /\ Record(k, v)

BugPutEvict(k, v) == Evict(k, v, length - 1)   \* counts the eviction only

PutEvict(k, v) == Evict(k, v, length)

Update(k, v, o, n) == /\ k \in DOMAIN value
                      /\ order' = o
                      /\ value' = With(value, k, v)
                      /\ length' = n
                      /\ Record(k, v)

\* Bugs: cache[key] = value only; the pop is counted, the re-insertion is not.
BugPutInPlace(k, v) == Update(k, v, order, length)
BugPutCounts(k, v)  == Update(k, v, Append(Pop(order, k), k), length - 1)

PutUpdate(k, v) == Update(k, v, Append(Pop(order, k), k), length)

Next == \E k \in Key :
          \/ GetHit(k)
          \/ GetMiss(k)
          \/ \E v \in Val : PutNew(k, v) \/ PutEvict(k, v) \/ PutUpdate(k, v)

Spec == Init /\ [][Next]_vars

-----------------------------------------------------------------------------
\* Types.  The dict's keys are the keys of `order', each once.
TypeOK == /\ capacity \in Capacities /\ capacity >= 1
          /\ order \in Seq(Key) /\ NoRepeats(order)
          /\ DOMAIN value = Keys(order)
          /\ \A k \in DOMAIN value : value[k] \in Val
          /\ length \in Nat
          /\ reply \in [call : {"init", "get", "put"}, out : Val \cup {0, -1}]

\* len(cache) is a counter kept by hand: it never drifts from the dict it
\* counts, through updates, evictions and misses, nor passes the capacity.
LengthExact == length = Cardinality(DOMAIN value) /\ length <= capacity

\* After any sequence of calls, the dict is exactly the `capacity' most
\* recently used of all the keys ever put, in order of use: what was evicted
\* never mattered.
HoldsTheMostRecent == /\ order = Newest(recent, capacity)
                      /\ \A k \in Keys(order) : value[k] = stored[k]

\* The docstring: "if key is present, promote it to most-recently-used and
\* return its value; otherwise return -1".
PresentIsReturned ==
  [][\A k \in Key :
       (GetHit(k) \/ GetMiss(k)) /\ k \in DOMAIN value =>
         reply' = Answer("get", value[k]) /\ order'[Len(order')] = k]_vars

\* The cache implements its contract.
Contract == INSTANCE LruContract
ContractSpec == Contract!Spec
=============================================================================
