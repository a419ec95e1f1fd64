------------------------------- MODULE MCMerkle -------------------------------
(***************************************************************************)
(* Values for the constants of MerkleWrite: groups of two, three levels,   *)
(* files that need one, two and three of them, that come out even or not,  *)
(* that repeat a group, and one that would need a fourth level.            *)
(***************************************************************************)
EXTENDS MerkleWrite

CONSTANTS k1, k2, k3

MCChunk == {k1, k2, k3}
MCFiles == { <<>>, <<k1>>, <<k1, k2>>, <<k2, k1, k3>>, <<k1, k2, k1, k2, k3>>,
             <<k3, k3, k1, k1, k2, k3, k1>>, <<k1, k2, k3, k1, k2, k3, k1, k2>> }
=============================================================================
