----------------------------- MODULE WorkerPool -----------------------------
(***************************************************************************)
(* ProperInterview/go/workerpool/workerpool.go: Process(items, workers,    *)
(* fn).  The caller's goroutine starts the workers, hands every item with  *)
(* its index to one of them over an unbuffered channel, closes the channel *)
(* and waits on the wait group; a worker ranges over the channel, calls fn *)
(* and stores the answer at the item's index.                              *)
(*                                                                         *)
(* Indices are 1-based here and 0-based in the code.  A send and the       *)
(* receive it meets are one step, which is what an unbuffered channel is.  *)
(* The call of fn and the store into the slice are two steps of a worker,  *)
(* so any number of answers can be computed and not yet written.           *)
(*                                                                         *)
(* A definition named Bug... is what a plausible slip would make of the    *)
(* one below it.  It is no part of Spec: it is put in the place of that    *)
(* definition to see the properties fail.                                  *)
(***************************************************************************)
EXTENDS Integers, Sequences, FiniteSets

CONSTANTS Val,         \* the ints of the program
          ItemLists,   \* the slices a caller may pass
          Requests,    \* the values of `workers' a caller may pass
          MaxWorkers,  \* bound on Requests
          fn           \* the caller's function, total and side-effect free

ASSUME InputsAssumption ==
         /\ 0 \in Val
         /\ ItemLists \subseteq Seq(Val)
         /\ MaxWorkers \in Nat \ {0}
         /\ Requests \subseteq {r \in Int : r <= MaxWorkers}
         /\ fn \in [Val -> Val]

Worker == 1..MaxWorkers

NoJob == [index |-> 0, val |-> 0]

VARIABLES
  items,    \* the argument, never changed
  workers,  \* the argument, normalised on entry
  results,  \* the preallocated slice
  pc,       \* where the caller's goroutine is
  next,     \* the item the send loop is at
  closed,   \* close(jobs) has run
  wg,       \* the wait group's counter
  gpc,      \* where each worker goroutine is
  held,     \* the job a worker has received
  ret       \* what fn returned to it

callerVars == <<items, workers, pc, next, closed>>
workerVars == <<gpc, held, ret>>
vars == <<items, workers, results, pc, next, closed, wg, gpc, held, ret>>

Init == /\ items \in ItemLists
        /\ workers \in Requests
        /\ results = [i \in DOMAIN items |-> 0]
        /\ pc = "entry"
        /\ next = 1
        /\ closed = FALSE
        /\ wg = 0
        /\ gpc = [w \in Worker |-> "unborn"]
        /\ held = [w \in Worker |-> NoJob]
        /\ ret = [w \in Worker |-> 0]

-----------------------------------------------------------------------------
(* The caller's goroutine. *)

\* `if len(items) == 0 { return results }', before anything is created.
ReturnEmpty == /\ pc = "entry"
               /\ items = <<>>
               /\ pc' = "returned"
               /\ UNCHANGED <<items, workers, results, next, closed, wg, workerVars>>

\* Leave entry with k workers to start and n of them announced to wg.
Begin(k, n) == /\ pc = "entry"
               /\ items # <<>>
               /\ workers' = k
               /\ wg' = wg + n
               /\ pc' = "spawn"
               /\ UNCHANGED <<items, results, next, closed, workerVars>>

Normalised == IF workers <= 0 THEN 1 ELSE workers

BugSetupRaw   == Begin(workers, Normalised)  \* the count is not normalised
BugSetupNoAdd == Begin(Normalised, 0)        \* wg.Add is forgotten

\* Normalise the worker count, wg.Add(workers), make(chan job).
Setup == Begin(Normalised, Normalised)

Unborn == {w \in 1..workers : gpc[w] = "unborn"}

\* One turn of the spawn loop; `go func' returns at once.
Spawn(w) == /\ pc = "spawn"
            /\ w \in Unborn
            /\ \A v \in Unborn : w <= v
            /\ gpc' = [gpc EXCEPT ![w] = "range"]
            /\ UNCHANGED <<callerVars, results, wg, held, ret>>

EndSpawn == /\ pc = "spawn"
            /\ Unborn = {}
            /\ pc' = "send"
            /\ UNCHANGED <<items, workers, results, next, closed, wg, workerVars>>

\* Worker w takes the item the send loop is at, labelled i.
Hand(w, i) == /\ pc = "send"
              /\ next <= Len(items)
              /\ gpc[w] = "range"
              /\ held' = [held EXCEPT ![w] = [index |-> i, val |-> items[next]]]
              /\ gpc' = [gpc EXCEPT ![w] = "call"]
              /\ next' = next + 1
              /\ UNCHANGED <<items, workers, results, pc, closed, wg, ret>>

\* A bug: every job carries the index of the one before it.
BugDeliver(w) == Hand(w, IF next = 1 THEN 1 ELSE next - 1)

\* jobs <- job{index, item} meets `range jobs' of worker w.
Deliver(w) == Hand(w, next)

EndSend(c) == /\ pc = "send"
              /\ next > Len(items)
              /\ closed' = c
              /\ pc' = "wait"
              /\ UNCHANGED <<items, workers, results, next, wg, workerVars>>

BugNoClose == EndSend(FALSE)   \* close(jobs) is forgotten

CloseJobs == EndSend(TRUE)

\* A bug: Process returns without waiting.
BugNoWait == /\ pc = "wait"
             /\ pc' = "returned"
             /\ UNCHANGED <<items, workers, results, next, closed, wg, workerVars>>

\* wg.Wait() is released at zero; the slice goes to the caller.
WaitReturn == /\ pc = "wait"
              /\ wg = 0
              /\ pc' = "returned"
              /\ UNCHANGED <<items, workers, results, next, closed, wg, workerVars>>

-----------------------------------------------------------------------------
(* A worker goroutine. *)

Call(w) == /\ gpc[w] = "call"
           /\ ret' = [ret EXCEPT ![w] = fn[held[w].val]]
           /\ gpc' = [gpc EXCEPT ![w] = "store"]
           /\ UNCHANGED <<callerVars, results, wg, held>>

StoreAt(w, i) == /\ gpc[w] = "store"
                 /\ results' = [results EXCEPT ![i] = ret[w]]
                 /\ gpc' = [gpc EXCEPT ![w] = "range"]
                 /\ held' = [held EXCEPT ![w] = NoJob]
                 /\ UNCHANGED <<callerVars, wg, ret>>

\* A bug: the store uses the send loop's variable, captured by the closure.
BugStore(w) == StoreAt(w, next - 1)

Store(w) == StoreAt(w, held[w].index)

\* The range loop ends on a closed channel; the deferred wg.Done() runs.
Exit(w) == /\ gpc[w] = "range"
           /\ closed
           /\ gpc' = [gpc EXCEPT ![w] = "exited"]
           /\ wg' = wg - 1
           /\ UNCHANGED <<callerVars, results, held, ret>>

-----------------------------------------------------------------------------
CallerNext == \/ ReturnEmpty
              \/ Setup
              \/ \E w \in Worker : Spawn(w)
              \/ EndSpawn
              \/ CloseJobs
              \/ WaitReturn

WorkerNext(w) == Call(w) \/ Store(w) \/ Exit(w)

Next == \/ CallerNext
        \/ \E w \in Worker : Deliver(w) \/ WorkerNext(w)

Spec == Init /\ [][Next]_vars

(***************************************************************************)
(* The Go scheduler runs every runnable goroutine eventually, and fn is    *)
(* assumed to return.  A blocked send is released as soon as any worker    *)
(* receives: fairness of the rendezvous, not of one receiver.              *)
(***************************************************************************)
Fairness == /\ WF_vars(CallerNext)
            /\ WF_vars(\E w \in Worker : Deliver(w))
            /\ \A w \in Worker : WF_vars(WorkerNext(w))

FairSpec == Spec /\ Fairness

-----------------------------------------------------------------------------
Job == [index : Nat, val : Val]

\* Every variable keeps to its type; the slice keeps the length it was made
\* with (results := make([]int, len(items))), the pool that is started has a
\* worker, and wg never goes below zero, where Go panics.
TypeOK == /\ items \in ItemLists
          /\ workers \in Int /\ workers <= MaxWorkers
          /\ pc = "entry" \/ items = <<>> \/ workers >= 1
          /\ results \in [DOMAIN items -> Val]
          /\ pc \in {"entry", "spawn", "send", "wait", "returned"}
          /\ next \in 1..(Len(items) + 1)
          /\ closed \in BOOLEAN
          /\ wg \in Nat
          /\ gpc \in [Worker -> {"unborn", "range", "call", "store", "exited"}]
          /\ held \in [Worker -> Job]
          /\ ret \in [Worker -> Val]

Busy(w) == gpc[w] \in {"call", "store"}

\* The stores of two workers never meet: no two of them hold the same index,
\* and a held index is one the slice has.  This is why the unlocked writes of
\* results[job.index] are race-free.
DisjointWrites ==
  \A v, w \in Worker :
    Busy(v) => /\ held[v].index \in DOMAIN items
               /\ (Busy(w) /\ v # w) => held[v].index # held[w].index

\* When Process returns, every item's answer sits at the item's own position,
\* whatever the order in which workers took and finished the jobs.
ResultsInOrder ==
  pc = "returned" => results = [i \in DOMAIN items |-> fn[items[i]]]

\* wg.Wait() can only be released by the last worker: nobody Process started
\* is still running, and the counter is back at zero, when it returns.
NoneOutlivesReturn ==
  pc = "returned" => /\ wg = 0
                     /\ \A w \in Worker : gpc[w] \in {"unborn", "exited"}

\* An answer that has been stored is never overwritten: a position no worker
\* holds and the send loop has passed keeps its value.
Pending == {i \in DOMAIN items :
              \/ i >= next
              \/ \E w \in Worker : Busy(w) /\ held[w].index = i}

StoredStays ==
  [][\A i \in DOMAIN items \ Pending : results'[i] = results[i]]_vars

\* Process returns: no send blocks forever, no worker waits on a channel
\* nobody closes, and wg.Wait() is always released.
Returns == <>(pc = "returned")

\* Seen from its caller, Process is ParallelMap.
Map == INSTANCE ParallelMap WITH pending <- Pending, returned <- (pc = "returned")

MapSpec == Map!Spec
MapFairSpec == Map!FairSpec
=============================================================================
