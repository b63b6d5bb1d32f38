-------------------------- MODULE WorkerPoolProofs --------------------------
(***************************************************************************)
(* Theorems about WorkerPool, for every list of items, every worker count  *)
(* and every total fn.  IInv is the inductive invariant: what phase the    *)
(* caller is in says which workers exist (Phases), the wait group counts   *)
(* the workers that have not exited (Counted), the jobs in hand are        *)
(* distinct and below the send loop (Holding), and every position that is  *)
(* neither in hand nor ahead of the send loop has its answer (Filled).     *)
(***************************************************************************)
EXTENDS WorkerPool, FiniteSetTheorems, TLAPS

Live == {w \in 1..workers : gpc[w] # "exited"}

Phases ==
  /\ pc = "entry" => /\ next = 1 /\ wg = 0
                     /\ \A w \in Worker : gpc[w] = "unborn"
  /\ items = <<>> => /\ pc \in {"entry", "returned"}
                     /\ \A w \in Worker : gpc[w] = "unborn"
  /\ pc = "spawn" => next = 1
  /\ pc \in {"send", "wait"} => \A w \in 1..workers : gpc[w] # "unborn"
  /\ closed <=> (pc \in {"wait", "returned"} /\ items # <<>>)
  /\ closed => next > Len(items)
  /\ pc = "returned" => wg = 0
  /\ \A w \in Worker : /\ w > workers => gpc[w] = "unborn"
                       /\ gpc[w] = "exited" => closed

Counted == (pc # "entry" /\ items # <<>>) => wg = Cardinality(Live)

Holding ==
  \A w \in Worker :
    Busy(w) => /\ held[w].index \in 1..(next - 1)
               /\ held[w].val = items[held[w].index]
               /\ gpc[w] = "store" => ret[w] = fn[held[w].val]
               /\ \A v \in Worker : (Busy(v) /\ v # w) => held[v].index # held[w].index

Filled == \A i \in DOMAIN items \ Pending : results[i] = fn[items[i]]

IInv == TypeOK /\ Phases /\ Counted /\ Holding /\ Filled

-----------------------------------------------------------------------------

\* What the provers need to know of the argument slice.
LEMMA ItemsFacts ==
  ASSUME TypeOK
  PROVE  /\ items \in Seq(Val)
         /\ Len(items) \in Nat
         /\ DOMAIN items = 1..Len(items)
         /\ \A i \in 1..Len(items) : items[i] \in Val
         /\ items = <<>> <=> Len(items) = 0
<1>1. items \in Seq(Val)
  BY InputsAssumption DEF TypeOK
<1> QED
  BY <1>1

\* A call that begins.
LEMMA InitIInv == Init => IInv
<1> SUFFICES ASSUME Init PROVE IInv
  OBVIOUS
<1>1. items \in Seq(Val) /\ Len(items) \in Nat /\ DOMAIN items = 1..Len(items)
  BY InputsAssumption DEF Init
<1>2. TypeOK
  <2>1. results \in [DOMAIN items -> Val] /\ next \in 1..(Len(items) + 1)
    BY <1>1, InputsAssumption DEF Init
  <2>2. held \in [Worker -> Job] /\ ret \in [Worker -> Val]
    BY InputsAssumption DEF Init, NoJob, Job
  <2> QED
    BY <2>1, <2>2, InputsAssumption DEF Init, TypeOK
<1>3. Phases
  BY InputsAssumption DEF Init, Phases
<1>4. Counted /\ Holding
  BY DEF Init, Counted, Holding, Busy
<1>5. Filled
  BY <1>1 DEF Init, Filled, Pending
<1> QED
  BY <1>2, <1>3, <1>4, <1>5 DEF IInv

\* The workers that have not exited form a finite set; the counter of a
\* non-empty one is positive, and one exit takes it down by one.
LEMMA LiveFacts ==
  ASSUME TypeOK
  PROVE  /\ IsFiniteSet(Live)
         /\ Cardinality(Live) \in Nat
         /\ Cardinality(Live) = 0 <=> Live = {}
         /\ \A w \in Live : Cardinality(Live \ {w}) = Cardinality(Live) - 1
<1>1. IsFiniteSet(1..workers)
  BY FS_Interval DEF TypeOK
<1>2. IsFiniteSet(Live)
  BY <1>1, FS_Subset DEF Live
<1> QED
  BY <1>2, FS_CardinalityType, FS_EmptySet, FS_RemoveElement

\* A worker that exits was counted, and the caller is still waiting for it.
LEMMA ExitFacts ==
  ASSUME IInv, NEW w \in Worker, Exit(w)
  PROVE  pc = "wait" /\ w \in Live /\ wg = Cardinality(Live) /\ wg >= 1
<1>1. pc \in {"wait", "returned"} /\ items # <<>>
  BY DEF IInv, Phases, Exit
<1>2. w \in Live
  BY InputsAssumption DEF IInv, TypeOK, Phases, Exit, Live, Worker
<1>3. wg = Cardinality(Live)
  BY <1>1 DEF IInv, Counted
<1>4. wg >= 1
  BY <1>2, <1>3, LiveFacts DEF IInv
<1> QED
  BY <1>1, <1>2, <1>3, <1>4 DEF IInv, Phases

\* Types.
LEMMA TypeStep == IInv /\ [Next]_vars => TypeOK'
<1> SUFFICES ASSUME IInv, [Next]_vars PROVE TypeOK'
  OBVIOUS
<1> USE InputsAssumption, ItemsFacts DEF IInv, TypeOK, Worker
<1>1. CASE ReturnEmpty
  BY <1>1 DEF ReturnEmpty, callerVars, workerVars
<1>2. CASE Setup
  BY <1>2 DEF Setup, Begin, Normalised, callerVars, workerVars
<1>3. ASSUME NEW w \in Worker, Spawn(w) PROVE TypeOK'
  BY <1>3 DEF Spawn, Unborn, callerVars, workerVars
<1>4. CASE EndSpawn
  BY <1>4 DEF EndSpawn, Unborn, callerVars, workerVars
<1>5. CASE CloseJobs
  BY <1>5 DEF CloseJobs, EndSend, callerVars, workerVars
<1>6. CASE WaitReturn
  BY <1>6 DEF WaitReturn, callerVars, workerVars
<1>7. ASSUME NEW w \in Worker, Deliver(w) PROVE TypeOK'
  BY <1>7 DEF Deliver, Hand, Job, callerVars, workerVars
<1>8. ASSUME NEW w \in Worker, Call(w) PROVE TypeOK'
  BY <1>8 DEF Call, Job, callerVars, workerVars
<1>9. ASSUME NEW w \in Worker, Store(w) PROVE TypeOK'
  BY <1>9 DEF Store, StoreAt, Job, NoJob, callerVars, workerVars
<1>10. ASSUME NEW w \in Worker, Exit(w) PROVE TypeOK'
  <2>1. pc = "wait" /\ wg >= 1
    BY <1>10, ExitFacts
  <2> QED
    BY <1>10, <2>1 DEF Exit, callerVars, workerVars
<1>11. CASE UNCHANGED vars
  BY <1>11 DEF vars
<1> QED
  BY <1>1, <1>2, <1>3, <1>4, <1>5, <1>6, <1>7, <1>8, <1>9, <1>10, <1>11 DEF Next, CallerNext, WorkerNext

\* The caller's phase tells which workers exist.
LEMMA PhasesStep == IInv /\ [Next]_vars => Phases'
<1> SUFFICES ASSUME IInv, [Next]_vars PROVE Phases'
  OBVIOUS
<1> USE InputsAssumption, ItemsFacts DEF IInv, TypeOK, Phases, Worker
<1>1. CASE ReturnEmpty
  BY <1>1 DEF ReturnEmpty, callerVars, workerVars
<1>2. CASE Setup
  BY <1>2 DEF Setup, Begin, Normalised, callerVars, workerVars
<1>3. ASSUME NEW w \in Worker, Spawn(w) PROVE Phases'
  BY <1>3 DEF Spawn, Unborn, callerVars, workerVars
<1>4. CASE EndSpawn
  BY <1>4 DEF EndSpawn, Unborn, callerVars, workerVars
<1>5. CASE CloseJobs
  BY <1>5 DEF CloseJobs, EndSend, callerVars, workerVars
<1>6. CASE WaitReturn
  BY <1>6 DEF WaitReturn, callerVars, workerVars
<1>7. ASSUME NEW w \in Worker, Deliver(w) PROVE Phases'
  BY <1>7 DEF Deliver, Hand, callerVars, workerVars
<1>8. ASSUME NEW w \in Worker, Call(w) PROVE Phases'
  BY <1>8 DEF Call, callerVars, workerVars
<1>9. ASSUME NEW w \in Worker, Store(w) PROVE Phases'
  BY <1>9 DEF Store, StoreAt, callerVars, workerVars
<1>10. ASSUME NEW w \in Worker, Exit(w) PROVE Phases'
  <2>1. pc = "wait" /\ wg >= 1
    BY <1>10, ExitFacts
  <2> QED
    BY <1>10, <2>1 DEF Exit, callerVars, workerVars
<1>11. CASE UNCHANGED vars
  BY <1>11 DEF vars
<1> QED
  BY <1>1, <1>2, <1>3, <1>4, <1>5, <1>6, <1>7, <1>8, <1>9, <1>10, <1>11 DEF Next, CallerNext, WorkerNext

\* The wait group counts the workers that have not exited.
LEMMA CountedStep == IInv /\ [Next]_vars => Counted'
<1> SUFFICES ASSUME IInv, [Next]_vars PROVE Counted'
  OBVIOUS
<1> USE InputsAssumption DEF IInv, TypeOK, Counted, Worker
<1>1. CASE ReturnEmpty
  BY <1>1 DEF ReturnEmpty, callerVars, workerVars, Live
<1>2. CASE Setup
  <2>1. Live' = 1..workers' /\ wg' = workers' /\ workers' \in Nat
    BY <1>2 DEF Setup, Begin, Normalised, workerVars, Phases, Live
  <2> QED
    BY <2>1, FS_Interval
<1>3. ASSUME NEW w \in Worker, Spawn(w) PROVE Counted'
  <2>1. Live' = Live
    BY <1>3 DEF Spawn, Unborn, callerVars, workerVars, Live
  <2> QED
    BY <1>3, <2>1 DEF Spawn, Unborn, callerVars
<1>4. CASE EndSpawn
  BY <1>4 DEF EndSpawn, Unborn, callerVars, workerVars, Live
<1>5. CASE CloseJobs
  BY <1>5 DEF CloseJobs, EndSend, callerVars, workerVars, Live
<1>6. CASE WaitReturn
  BY <1>6 DEF WaitReturn, callerVars, workerVars, Live
<1>7. ASSUME NEW w \in Worker, Deliver(w) PROVE Counted'
  <2>1. Live' = Live
    BY <1>7 DEF Deliver, Hand, callerVars, workerVars, Live
  <2> QED
    BY <1>7, <2>1 DEF Deliver, Hand, callerVars
<1>8. ASSUME NEW w \in Worker, Call(w) PROVE Counted'
  <2>1. Live' = Live
    BY <1>8 DEF Call, callerVars, workerVars, Live
  <2> QED
    BY <1>8, <2>1 DEF Call, callerVars
<1>9. ASSUME NEW w \in Worker, Store(w) PROVE Counted'
  <2>1. Live' = Live
    BY <1>9 DEF Store, StoreAt, callerVars, workerVars, Live
  <2> QED
    BY <1>9, <2>1 DEF Store, StoreAt, callerVars
<1>10. ASSUME NEW w \in Worker, Exit(w) PROVE Counted'
  <2>1. w \in Live /\ wg = Cardinality(Live)
    BY <1>10, ExitFacts
  <2>2. Live' = Live \ {w}
    BY <1>10, <2>1 DEF Exit, Live, callerVars
  <2>3. Cardinality(Live \ {w}) = Cardinality(Live) - 1
    BY <2>1, LiveFacts
  <2> QED
    BY <1>10, <2>1, <2>2, <2>3 DEF Exit
<1>11. CASE UNCHANGED vars
  BY <1>11 DEF vars, Live
<1> QED
  BY <1>1, <1>2, <1>3, <1>4, <1>5, <1>6, <1>7, <1>8, <1>9, <1>10, <1>11 DEF Next, CallerNext, WorkerNext

\* Jobs in hand are distinct and behind the send loop.
LEMMA HoldingStep == IInv /\ [Next]_vars => Holding'
<1> SUFFICES ASSUME IInv, [Next]_vars PROVE Holding'
  OBVIOUS
<1> USE InputsAssumption, ItemsFacts DEF IInv, TypeOK, Holding, Busy, Worker
<1>1. CASE ReturnEmpty
  BY <1>1 DEF ReturnEmpty, callerVars, workerVars
<1>2. CASE Setup
  BY <1>2 DEF Setup, Begin, Normalised, callerVars, workerVars
<1>3. ASSUME NEW w \in Worker, Spawn(w) PROVE Holding'
  BY <1>3 DEF Spawn, Unborn, callerVars, workerVars
<1>4. CASE EndSpawn
  BY <1>4 DEF EndSpawn, Unborn, callerVars, workerVars
<1>5. CASE CloseJobs
  BY <1>5 DEF CloseJobs, EndSend, callerVars, workerVars
<1>6. CASE WaitReturn
  BY <1>6 DEF WaitReturn, callerVars, workerVars
<1>7. ASSUME NEW w \in Worker, Deliver(w) PROVE Holding'
  BY <1>7 DEF Deliver, Hand, callerVars, workerVars
<1>8. ASSUME NEW w \in Worker, Call(w) PROVE Holding'
  BY <1>8 DEF Call, callerVars, workerVars
<1>9. ASSUME NEW w \in Worker, Store(w) PROVE Holding'
  BY <1>9 DEF Store, StoreAt, callerVars, workerVars
<1>10. ASSUME NEW w \in Worker, Exit(w) PROVE Holding'
  BY <1>10 DEF Exit, callerVars, workerVars
<1>11. CASE UNCHANGED vars
  BY <1>11 DEF vars
<1> QED
  BY <1>1, <1>2, <1>3, <1>4, <1>5, <1>6, <1>7, <1>8, <1>9, <1>10, <1>11 DEF Next, CallerNext, WorkerNext

\* A store fills one pending position, with the answer that belongs there.
LEMMA StoreFills ==
  ASSUME IInv, NEW w \in Worker, Store(w)
  PROVE  LET i == held[w].index
         IN  /\ i \in Pending
             /\ i \in DOMAIN items
             /\ Pending' = Pending \ {i}
             /\ results' = [results EXCEPT ![i] = fn[items[i]]]
             /\ UNCHANGED <<items, pc>>
<1> DEFINE i == held[w].index
<1>1. Busy(w) /\ i \in 1..(next - 1) /\ ret[w] = fn[items[i]]
  BY DEF IInv, Holding, Store, StoreAt, Busy
<1>2. i \in DOMAIN items /\ i \in Pending
  BY <1>1, ItemsFacts DEF IInv, TypeOK, Pending
<1>3. UNCHANGED <<items, next, pc>>
  BY DEF Store, StoreAt, callerVars
<1>4. ASSUME NEW j PROVE j \in Pending' <=> j \in Pending \ {i}
  <2>1. /\ ~Busy(w)'
        /\ \A v \in Worker \ {w} : Busy(v)' = Busy(v) /\ held'[v] = held[v]
    BY DEF IInv, TypeOK, Store, StoreAt, Busy
  <2>2. \A v \in Worker \ {w} : Busy(v) => held[v].index # i
    BY <1>1 DEF IInv, Holding
  <2>3. ~(i >= next)
    BY <1>1, ItemsFacts DEF IInv, TypeOK
  <2> QED
    BY <1>1, <1>3, <2>1, <2>2, <2>3 DEF Pending
<1>5. Pending' = Pending \ {i}
  BY <1>4
<1>6. results' = [results EXCEPT ![i] = fn[items[i]]]
  BY <1>1 DEF Store, StoreAt
<1> QED
  BY <1>2, <1>3, <1>5, <1>6

\* No other step changes what is pending or what is stored.
LEMMA OthersKeep ==
  ASSUME IInv, [Next]_vars, ~ \E w \in Worker : Store(w)
  PROVE  UNCHANGED <<items, results, Pending>>
<1>1. UNCHANGED <<items, results>>
  BY DEF Next, CallerNext, WorkerNext, vars, callerVars, ReturnEmpty, Setup, Begin,
         Spawn, EndSpawn, CloseJobs, EndSend, WaitReturn, Deliver, Hand, Call, Exit
<1>2. CASE \E w \in Worker : Deliver(w)
  <2> PICK w \in Worker : Deliver(w)
    BY <1>2
  <2>1. /\ next' = next + 1 /\ next \in DOMAIN items /\ next \in Nat
        /\ ~Busy(w) /\ Busy(w)' /\ held'[w].index = next
        /\ \A v \in Worker \ {w} : Busy(v)' = Busy(v) /\ held'[v] = held[v]
    BY ItemsFacts DEF Deliver, Hand, Busy, IInv, TypeOK
  <2>2. ASSUME NEW j \in DOMAIN items PROVE j \in Pending' <=> j \in Pending
    <3>1. j >= next <=> (j >= next + 1 \/ j = next)
      BY <2>1, ItemsFacts DEF IInv, TypeOK
    <3> QED
      BY <1>1, <2>1, <3>1 DEF Pending
  <2>3. Pending' = Pending
    BY <1>1, <2>2 DEF Pending
  <2> QED
    BY <1>1, <2>3
<1>3. CASE \E w \in Worker : Call(w)
  <2> PICK w \in Worker : Call(w)
    BY <1>3
  <2>1. UNCHANGED <<next, held>> /\ \A v \in Worker : Busy(v)' = Busy(v)
    BY DEF Call, callerVars, Busy, IInv, TypeOK
  <2> QED
    BY <1>1, <2>1 DEF Pending
<1>4. CASE \E w \in Worker : Spawn(w) \/ Exit(w)
  <2>1. UNCHANGED <<next, held>> /\ \A v \in Worker : Busy(v)' = Busy(v)
    BY <1>4 DEF Spawn, Unborn, Exit, callerVars, Busy, IInv, TypeOK
  <2> QED
    BY <1>1, <2>1 DEF Pending
<1>5. CASE UNCHANGED <<next, held, gpc>>
  BY <1>1, <1>5 DEF Pending, Busy
<1> QED
  BY <1>2, <1>3, <1>4, <1>5
     DEF Next, CallerNext, WorkerNext, vars, workerVars, ReturnEmpty, Setup, Begin,
         EndSpawn, CloseJobs, EndSend, WaitReturn

\* A position nobody holds and the loop has passed has its answer.
LEMMA FilledStep == IInv /\ [Next]_vars => Filled'
<1> SUFFICES ASSUME IInv, [Next]_vars PROVE Filled'
  OBVIOUS
<1>1. CASE \E w \in Worker : Store(w)
  BY <1>1, StoreFills DEF IInv, TypeOK, Filled
<1>2. CASE ~ \E w \in Worker : Store(w)
  BY <1>2, OthersKeep DEF IInv, Filled
<1> QED
  BY <1>1, <1>2

\* IInv is inductive.
LEMMA StepIInv == IInv /\ [Next]_vars => IInv'
  BY TypeStep, PhasesStep, CountedStep, HoldingStep, FilledStep DEF IInv

\* The strengthened invariant of Process.
THEOREM Invariance == Spec => []IInv
<1>1. Init => IInv
  BY InitIInv
<1>2. IInv /\ [Next]_vars => IInv'
  BY StepIInv
<1> QED
  BY <1>1, <1>2, PTL DEF Spec

-----------------------------------------------------------------------------
\* Types, and a wait group that never goes negative.
THEOREM TypeCorrect == Spec => []TypeOK
<1>1. IInv => TypeOK
  BY DEF IInv
<1> QED
  BY <1>1, Invariance, PTL

\* No two workers ever write the same element of results: the unlocked stores
\* of workerpool.go:52 are race-free for every number of workers and items.
THEOREM RaceFree == Spec => []DisjointWrites
<1>1. IInv => DisjointWrites
  BY ItemsFacts DEF IInv, TypeOK, Holding, DisjointWrites, Busy
<1> QED
  BY <1>1, Invariance, PTL

\* In a state of IInv whose caller has returned, no worker is in a job.
LEMMA ReturnedQuiet ==
  ASSUME IInv, pc \in {"wait", "returned"}, wg = 0
  PROVE  /\ \A w \in Worker : gpc[w] \in {"unborn", "exited"}
         /\ Pending = {}
<1>1. CASE items = <<>>
  BY <1>1, ItemsFacts DEF IInv, Phases, Pending, TypeOK
<1>2. CASE items # <<>>
  <2>1. Live = {}
    BY <1>2, LiveFacts DEF IInv, Counted
  <2>2. \A w \in Worker : gpc[w] \in {"unborn", "exited"}
    BY <2>1, InputsAssumption DEF IInv, TypeOK, Phases, Live, Worker
  <2>3. next > Len(items)
    BY <1>2 DEF IInv, Phases
  <2>4. Pending = {}
    BY <2>2, <2>3, ItemsFacts DEF IInv, TypeOK, Pending, Busy
  <2> QED
    BY <2>2, <2>4
<1> QED
  BY <1>1, <1>2

\* When Process returns, every worker it started has run its deferred Done.
THEOREM NoneOutlives == Spec => []NoneOutlivesReturn
<1>1. IInv => NoneOutlivesReturn
  BY ReturnedQuiet DEF IInv, Phases, NoneOutlivesReturn
<1> QED
  BY <1>1, Invariance, PTL

\* Process returns fn of every item at the item's position.
THEOREM Correct == Spec => []ResultsInOrder
<1>1. IInv => ResultsInOrder
  <2> SUFFICES ASSUME IInv, pc = "returned"
               PROVE  results = [i \in DOMAIN items |-> fn[items[i]]]
    BY DEF ResultsInOrder
  <2>1. Pending = {}
    BY ReturnedQuiet DEF IInv, Phases
  <2> QED
    BY <2>1 DEF IInv, TypeOK, Filled
<1> QED
  BY <1>1, Invariance, PTL

\* A stored answer stays.
THEOREM StoredOnce == Spec => StoredStays
<1>1. IInv /\ [Next]_vars =>
        [\A i \in DOMAIN items \ Pending : results'[i] = results[i]]_vars
  <2> SUFFICES ASSUME IInv, [Next]_vars
               PROVE  \A i \in DOMAIN items \ Pending : results'[i] = results[i]
    OBVIOUS
  <2>1. CASE \E w \in Worker : Store(w)
    BY <2>1, StoreFills DEF IInv, TypeOK
  <2>2. CASE ~ \E w \in Worker : Store(w)
    BY <2>2, OthersKeep
  <2> QED
    BY <2>1, <2>2
<1> QED
  BY <1>1, Invariance, PTL DEF Spec, StoredStays

-----------------------------------------------------------------------------
\* Process implements ParallelMap: a Store is a Fill, the return is a Return,
\* and every other step is invisible to the caller.
THEOREM Refinement == Spec => MapSpec
<1>1. Init => Map!Init
  <2> SUFFICES ASSUME Init PROVE Map!Init
    OBVIOUS
  <2>1. Pending = DOMAIN items
    <3>1. items \in Seq(Val) /\ DOMAIN items = 1..Len(items)
      BY InputsAssumption DEF Init
    <3> QED
      BY <3>1 DEF Init, Pending
  <2> QED
    BY <2>1 DEF Init, Map!Init
<1>2. IInv /\ [Next]_vars => [Map!Next]_(Map!mapVars)
  <2> SUFFICES ASSUME IInv, [Next]_vars
               PROVE  Map!Next \/ UNCHANGED Map!mapVars
    OBVIOUS
  <2>1. CASE \E w \in Worker : Store(w)
    <3> PICK w \in Worker : Store(w)
      BY <2>1
    <3>1. pc # "returned"
      BY ReturnedQuiet DEF IInv, Phases, Store, StoreAt
    <3> QED
      BY <3>1, StoreFills DEF Map!Next, Map!Fill
  <2>2. CASE ReturnEmpty \/ WaitReturn
    <3>1. pc # "returned" /\ pc' = "returned"
      BY <2>2 DEF ReturnEmpty, WaitReturn
    <3>2. ~ \E w \in Worker : Store(w)
      BY <2>2 DEF ReturnEmpty, WaitReturn, Store, StoreAt, callerVars
    <3>3. UNCHANGED <<items, results, Pending>>
      BY <3>2, OthersKeep
    <3>4. CASE ReturnEmpty
      BY <3>1, <3>3, <3>4, ItemsFacts DEF ReturnEmpty, IInv, TypeOK, Pending,
                                          Map!Next, Map!Return
    <3>5. CASE WaitReturn
      <4>1. Pending = {}
        BY <3>5, ReturnedQuiet DEF WaitReturn
      <4> QED
        BY <3>1, <3>3, <4>1 DEF Map!Next, Map!Return
    <3> QED
      BY <2>2, <3>4, <3>5
  <2>3. CASE ~(ReturnEmpty \/ WaitReturn) /\ ~ \E w \in Worker : Store(w)
    <3>1. (pc' = "returned") = (pc = "returned")
      BY <2>3 DEF Next, CallerNext, WorkerNext, vars, callerVars, Setup, Begin, Spawn,
                  EndSpawn, CloseJobs, EndSend, Deliver, Hand, Call, Exit
    <3> QED
      BY <2>3, <3>1, OthersKeep DEF Map!mapVars
  <2> QED
    BY <2>1, <2>2, <2>3
<1> QED
  BY <1>1, <1>2, Invariance, PTL DEF Spec, MapSpec, Map!Spec

=============================================================================
