---------------------------- MODULE MCFullFileStore ----------------------------
(***************************************************************************)
(* Values for the constants of FullFileStore.                              *)
(***************************************************************************)
EXTENDS FullFileRefinement

CONSTANTS f1, f2, f3

MCContents == {f1, f2, f3}
===============================================================================
