---------------------------- MODULE ParallelMap ----------------------------
(***************************************************************************)
(* What workerpool.Process promises its caller, with no worker, channel or *)
(* wait group in sight: the result of every item is filled in once, in any *)
(* order, each at the position of its item, and the call returns when none *)
(* is left.                                                                *)
(***************************************************************************)
EXTENDS Naturals, Sequences

CONSTANTS Val,        \* the ints of the program
          ItemLists,  \* the slices a caller may pass
          fn          \* the function every item goes through

VARIABLES items,      \* the argument
          results,    \* the slice that will be returned
          pending,    \* positions whose result is still to be computed
          returned    \* the call is over

mapVars == <<items, results, pending, returned>>

Init == /\ items \in ItemLists
        /\ results = [i \in DOMAIN items |-> 0]
        /\ pending = DOMAIN items
        /\ returned = FALSE

Fill(i) == /\ ~returned
           /\ i \in pending
           /\ results' = [results EXCEPT ![i] = fn[items[i]]]
           /\ pending' = pending \ {i}
           /\ UNCHANGED <<items, returned>>

Return == /\ ~returned
          /\ pending = {}
          /\ returned' = TRUE
          /\ UNCHANGED <<items, results, pending>>

Next == Return \/ \E i \in pending : Fill(i)

Spec == Init /\ [][Next]_mapVars

FairSpec == Spec /\ WF_mapVars(Next)
=============================================================================
