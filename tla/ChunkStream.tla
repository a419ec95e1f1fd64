------------------------------ MODULE ChunkStream ------------------------------
(***************************************************************************)
(* What DedupStore takes a write to be: the chunks of the file one after   *)
(* the other, each reaching the recipe once and in order, then the recipe  *)
(* is stored.  The threads and the queues between them are not visible.    *)
(***************************************************************************)
EXTENDS Sequences

CONSTANT Inputs   \* the files, as sequences of chunks

VARIABLES
    todo,     \* the chunks that have not reached the recipe
    recipe,   \* the fingerprints of those that have
    stored    \* TRUE once the recipe is on disk

Init == todo \in Inputs /\ recipe = <<>> /\ stored = FALSE

Dedup ==
    /\ todo # <<>>
    /\ recipe' = Append(recipe, Head(todo))
    /\ todo' = Tail(todo)
    /\ UNCHANGED stored

Save ==
    /\ todo = <<>> /\ ~stored
    /\ stored' = TRUE
    /\ UNCHANGED <<todo, recipe>>

Spec == Init /\ [][Dedup \/ Save]_<<todo, recipe, stored>>
=============================================================================
