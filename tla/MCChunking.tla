------------------------------ MODULE MCChunking ------------------------------
(***************************************************************************)
(* Values for the constants of Chunking: a fingerprint of three bits, so   *)
(* that a judgement looks at the last three bytes, masks that overlap like *)
(* those of fastcdc.cpp (at level 1 not all that passes in front passes    *)
(* behind), and every file of two bytes up to MaxFile.                     *)
(***************************************************************************)
EXTENDS Chunking

CONSTANT MaxFile

MCGear == [b \in {"x", "y"} |-> IF b = "x" THEN 3 ELSE 4]
MCFront == [l \in 1..3 |-> CASE l = 1 -> {0, 4} [] l = 2 -> {0, 4} [] l = 3 -> {0}]
MCBack == [l \in 1..3 |-> CASE l = 1 -> {0, 1, 2, 3} [] l = 2 -> {0, 2, 4, 6} [] l = 3 -> {0, 2, 4, 6}]
MCFiles == UNION {[1..n -> {"x", "y"}] : n \in 0..MaxFile}
=============================================================================
