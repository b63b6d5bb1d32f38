------------------------------ MODULE CRoutine ------------------------------
(***************************************************************************)
(* One call of a routine of ProperC/src, as a test binary built by the     *)
(* Makefile makes it: with AddressSanitizer, which ends the process at the *)
(* first access outside an array (`abort'), and UBSan, which by default    *)
(* prints a report and lets the process go on.  A loop takes one step per  *)
(* iteration.  Arrays are functions on 0 .. length-1.                      *)
(*                                                                         *)
(* The routines are in Pointers, FuncPtr, Safety and Words, which share    *)
(* these variables.  A definition named Bug... is a plausible slip, no     *)
(* part of any specification.                                              *)
(***************************************************************************)
EXTENDS Integers

CONSTANTS
  SizeMax,  \* the largest size_t
  Length,   \* of the arrays a caller passes
  Value     \* of the cells; 0 is the NUL of a string

ASSUME SizeAssumption == /\ SizeMax \in Nat /\ SizeMax > 0
                         /\ Length \subseteq 0 .. SizeMax
ASSUME ValueAssumption == Value \subseteq Int /\ 0 \in Value

VARIABLES
  fn,    \* the routine
  pc,    \* where it is: "entry", a loop of its, "ret" or "abort"
  n,     \* its size argument
  arg,   \* its other integer argument
  f,     \* the function it is given
  dst,   \* the array it writes
  old,   \* that array as the caller passed it
  src,   \* the array it only reads
  i, j,  \* its counters
  ret,   \* the value returned
  ub     \* UBSan has printed a runtime error

args  == <<fn, n, arg, f, old, src>>
local == <<i, j, ret>>
frame == <<args, pc, dst, local, ub>>

Cell(len)  == 0 .. len - 1
Array(len) == [Cell(len) -> Value]

\* x - 1 on a size_t
Pred(x) == IF x = 0 THEN SizeMax ELSE x - 1

Smaller(x, y) == IF x < y THEN x ELSE y

\* The caller's side: what it may pass is left to each routine.
Call == pc = "entry" /\ old = dst /\ i = 0 /\ j = 0 /\ ret = 0 /\ ub = FALSE

\* One store, or the sanitizer's report when a cell it touches does not exist.
Store(exists, new, next) == IF exists THEN dst' = new /\ pc' = next
                                      ELSE dst' = dst /\ pc' = "abort"

Return(value) == pc' = "ret" /\ ret' = value /\ UNCHANGED <<dst, i, j>>

Swap(a, x, y) == [a EXCEPT ![x] = a[y], ![y] = a[x]]
=============================================================================
