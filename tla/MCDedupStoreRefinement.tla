------------------------ MODULE MCDedupStoreRefinement ------------------------
(***************************************************************************)
(* DedupStoreRefinement with the values of MCDedupStore.                   *)
(***************************************************************************)
EXTENDS MCDedupStore, DedupStoreRefinement
=============================================================================
