------------------------- MODULE DedupStoreRefinement -------------------------
(***************************************************************************)
(* The chunk store as an implementation of VersionStore.  The version a    *)
(* user has is what a restore would assemble from the recipe, the index    *)
(* and the containers (main.cpp, TASK_RESTORE).                            *)
(***************************************************************************)
EXTENDS DedupStore, SequencesExt

\* getChunkData: the bytes an entry names, as far as the container has them.
ChunkData(e) ==
    IF e.container_number \in DOMAIN containers
    THEN SubSeq(containers[e.container_number], e.offset + 1, e.offset + e.chunk_length)
    ELSE <<>>

\* The restore loop; no content when one of its two error exits is taken.
Restorable(v) ==
    /\ RecipeFile(v) \in DOMAIN recipes
    /\ \A c \in Range(recipes[RecipeFile(v)]) :
         c \in DOMAIN index /\ Len(ChunkData(index[c])) = index[c].chunk_length

Restore(v) ==
    IF Restorable(v)
    THEN FlattenSeq([i \in DOMAIN recipes[RecipeFile(v)] |->
                        ChunkData(index[recipes[RecipeFile(v)][i]])])
    ELSE <<"Fatal error">>

\* The bytes of a file, to compare with.
Bytes(file) == FlattenSeq([i \in DOMAIN file |-> AppendChunk(<<>>, file[i])])

\* While a task runs the stored versions are those of the last idle moment.
Restored ==
    IF pc = "idle" THEN [v \in DOMAIN recipes |-> Restore(v)]
                   ELSE [v \in DOMAIN catalog |-> Bytes(catalog[v])]

Store == INSTANCE VersionStore WITH
            versions <- Restored,
            Number <- 0..MaxTasks,
            Content <- {Bytes(file) : file \in Files}

\* A restore of any number returns exactly what was written under it, until
\* that number and no other is deleted; a write that dies early stores nothing.
ImplementsVersionStore == Store!Spec
=============================================================================
