--------------------------- MODULE ArrayRoutines ---------------------------
(***************************************************************************)
(* The routines of ProperC/src that work on arrays of any length, in one   *)
(* specification: a behaviour is one call of one of them.                  *)
(***************************************************************************)
EXTENDS Pointers, FuncPtr, Safety

ArraysInit == PointersInit \/ FuncPtrInit \/ SafetyInit

ArraysNext == PointersNext \/ FuncPtrNext \/ SafetyNext

ArraysSpec == ArraysInit /\ [][ArraysNext]_frame

-----------------------------------------------------------------------------
\* AddressSanitizer ends no call but safe_strcat with a size of 0, which stores at
\* dst[SIZE_MAX] (safety.c:34); and the outer loop of sort_ints leaves the array only
\* when that is empty (funcptr.c:29), where no inner loop follows it.
ArrayBounds ==
  /\ pc = "abort" => fn = "safe_strcat" /\ arg = 0
  /\ fn = "sort_ints" /\ i > n => n = 0

\* What the routines return and leave behind, as far as it is what their headers promise:
\* each of the four says what it leaves out.
ArrayResult == PointersResult /\ FuncPtrResult /\ SafetyResult /\ SortResult
=============================================================================
