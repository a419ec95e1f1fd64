--------------------------------- MODULE CInt ---------------------------------
(***************************************************************************)
(* int, whose width the counters of the program and the numbers of its     *)
(* JSON files meet.                                                        *)
(***************************************************************************)
EXTENDS Integers

CONSTANT IntMax   \* the largest int: 2^31 - 1

ASSUME IntAssumption == IntMax \in Nat

\* A conversion to int keeps the low bits, and so does the build's addition.
ToInt(n) == ((n + IntMax + 1) % (2 * (IntMax + 1))) - (IntMax + 1)
=============================================================================
