------------------------------ MODULE GlobalStat ------------------------------
(***************************************************************************)
(* The counters of src/include/global_stat.h and the simulated compression *)
(* they add up (src/src/compressor.cpp).  All are int; the three ratios    *)
(* are computed from them for display and are left out.                    *)
(***************************************************************************)
EXTENDS CJSON

CONSTANT Kb   \* 1024

ASSUME StatAssumption == Kb \in Nat \ {0}

Zero == [size |-> 0, before |-> 0, after |-> 0]

\* Mutant: the counters of the file are not taken over.
parse_arguments_Forgets(stats) == Zero

parse_arguments(stats) == [counter \in DOMAIN stats |-> parse_number(stats[counter])]

InKb(size) == size \div Kb

\* LZ4_compress_default returns 0 for a chunk that does not shrink below its
\* length, and 0 is what is added for it.
Compressed(len, lz4) == IF lz4 <= len THEN lz4 ELSE 0

update_kb(gs, size, before, after) ==
    [size |-> ToInt(gs.size + ToInt(InKb(size))),
     before |-> ToInt(gs.before + ToInt(InKb(before))),
     after |-> ToInt(gs.after + ToInt(InKb(after)))]
=============================================================================
