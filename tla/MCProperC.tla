----------------------------- MODULE MCProperC -----------------------------
(***************************************************************************)
(* The C that ProperC and ProperMachine ship complete, in one model: the   *)
(* program under test is one call of a routine on arrays or on words, a    *)
(* client of the linked list, or the benchmark.                            *)
(***************************************************************************)
EXTENDS ArrayRoutines, Words, LinkedList, Bench

VARIABLE program

others(name) == /\ name # "routine" => UNCHANGED frame
                /\ name # "list" => UNCHANGED listVars
                /\ name # "bench" => UNCHANGED benchVars
                /\ UNCHANGED program

vars == <<program, frame, listVars, benchVars>>

NoRoutine == /\ fn = "none" /\ n = 0 /\ arg = 0 /\ f = <<>> /\ dst = <<>> /\ src = <<>>
             /\ Call

Init == /\ program \in {"routine", "list", "bench"}
        /\ IF program = "routine"
           THEN ArraysInit \/ WordsInit
           ELSE NoRoutine
        /\ ListInit /\ BenchInit

Routine  == /\ program = "routine" /\ others("routine")
            /\ ArraysNext \/ WordsNext
Client   == program = "list" /\ ListNext /\ others("list")
Looping  == program = "list" /\ Loop /\ others("list")
Measures == program = "bench" /\ BenchNext /\ others("bench")

Next == Routine \/ Client \/ Measures

\* A program that can go on does.
Spec == Init /\ [][Next]_vars /\ WF_vars(Routine) /\ WF_vars(Looping) /\ WF_vars(Measures)

-----------------------------------------------------------------------------
\* Functions for the callers of funcptr.c.  The first and the third comparator give
\* -1, 0 and 1 (ascending; by halves, so that some values are equal), the other two
\* any difference.
Less(x, y) == IF x < y THEN -1 ELSE IF x > y THEN 1 ELSE 0
MCMapping    == {[v \in Value |-> 2 - v], [v \in Value |-> 1]}
Curried(g(_, _)) == [x \in Value |-> [y \in Value |-> g(x, y)]]
MCOperation  == {Curried(LAMBDA x, y : y), Curried(LAMBDA x, y : (2 * x + y) % 3)}
MCComparator == {Curried(Less), Curried(LAMBDA x, y : y - x),
                 Curried(LAMBDA x, y : Less(x \div 2, y \div 2)),
                 Curried(LAMBDA x, y : x - y)}
MCIntArg     == {IntMin, IntMin + 1, -2, -1, 0, 1, 2, IntMax - 1, IntMax}
MCPredicate  == SUBSET Value

-----------------------------------------------------------------------------
\* What the sanitizers could see, and when: on arrays see ArrayBounds; undefined
\* arithmetic in pack_rgba with the top bit of r set only (structs.c:42); on lists the
\* write through a failed malloc's NULL and nothing else (NoOverrun); the benchmark
\* never touches a node that is not there.
WithinBounds ==
  /\ ArrayBounds
  /\ ub => fn = "pack_rgba" /\ 2 * src[0] >= Base
  /\ NoOverrun /\ at # "abort"

\* `An infinite loop in your implementation' (ctest.h:14) is in none of them: every
\* call returns or ends the process, on a tied list too.
Returns ==
  /\ (program = "routine") ~> (pc \in {"ret", "abort"})
  /\ (program = "list" /\ op \notin {"idle", "abort"}) ~> (op \in {"idle", "abort"})
  /\ (program = "bench") ~> (at \in {"done", "exit", "abort"})
=============================================================================
