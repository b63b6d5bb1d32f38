------------------------------ MODULE MCBuild ------------------------------
(***************************************************************************)
(* Build on the exercises of Stubs: make is given two neighbouring modules *)
(* of one project, as in make test MODULES="structs funcptr".              *)
(***************************************************************************)
EXTENDS Build, Stubs

\* Two by two; the last two again when their number is odd.
Neighbours(list) == {<<list[x], list[x + 1]>> :
                       x \in {y \in 1 .. Len(list) - 1 : y % 2 = 1 \/ y = Len(list) - 1}}

MCSuite == UNION {Neighbours(list) : list \in
                    {ProperC_MODULES, ProperDS_MODULES, ProperInterview_MODULES,
                     ProperMachine_MODULES, ProperNet_MODULES, ProperOS_MODULES}}

MCModule  == DOMAIN StubTodo
MCRoutine == UNION {StubTodo[m] \cup StubWrong[m] : m \in MCModule}

\* One routine, or all that is left.
MCPortion(S) == IF S = {} THEN {} ELSE {S, {CHOOSE r \in S : TRUE}}
=============================================================================
