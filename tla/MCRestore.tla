------------------------------ MODULE MCRestore ------------------------------
(***************************************************************************)
(* Values for the constants of RestoreRefinement: a store of three         *)
(* containers as writes leave it, every recipe up to MaxRecipe over its    *)
(* chunks, and the same store damaged in each way a mishap of DedupStore   *)
(* can.                                                                    *)
(***************************************************************************)
EXTENDS RestoreRefinement

CONSTANTS k1, k2, k3, k4, MaxRecipe

MCChunk == {k1, k2, k3, k4}
MCChunkLen == [x \in MCChunk |-> IF x \in {k2, k4} THEN 2 ELSE 1]

\* What each container was filled with, in order.
Filled == << <<k1, k2>>, <<k3>>, <<k4>> >>
HomeOf(c) == CHOOSE n \in DOMAIN Filled : c \in Range(Filled[n])
PlaceOf(c) == CHOOSE i \in DOMAIN Filled[HomeOf(c)] : Filled[HomeOf(c)][i] = c
BytesOf(chunks) == FlattenSeq([i \in DOMAIN chunks |-> AppendChunk(<<>>, chunks[i])])

Whole ==
    [containers |-> [n \in 0..2 |-> BytesOf(Filled[n + 1])],
     index |-> [c \in MCChunk |->
                  Entry(HomeOf(c) - 1,
                        Len(BytesOf(SubSeq(Filled[HomeOf(c)], 1, PlaceOf(c) - 1))),
                        MCChunkLen[c], 1)],
     inner |-> [c \in MCChunk |-> PlaceOf(c) - 1]]

\* k1 was deleted: container 0 was cut, k2 moved forward.
AfterDelete ==
    [Whole EXCEPT !.containers[0] = BytesOf(<<k2>>),
                  !.index = [Restrict(@, MCChunk \ {k1}) EXCEPT ![k2].offset = 0],
                  !.inner = Restrict(@, MCChunk \ {k1})]

\* A container that is shorter than its entries say or empty, one that is
\* gone, an index without an entry, an offset that wrapped around.
Damaged ==
    { [Whole EXCEPT !.containers[0] = SubSeq(@, 1, 2)],
      [Whole EXCEPT !.containers[0] = <<>>],
      [Whole EXCEPT !.containers = Restrict(@, {0, 2})],
      [Whole EXCEPT !.index[k2].offset = U32 - 1] }

MCStores == {Whole, AfterDelete} \cup Damaged

\* Version 0 with every recipe up to MaxRecipe, or no version at all.
MCRecipeDirs ==
    {[v \in {0} |-> r] : r \in UNION {[1..n -> MCChunk] : n \in 0..MaxRecipe}}
    \cup {[v \in {} |-> <<>>]}

AllMethods == {"container_cache", "chunk_cache", "faa_fixed", "naive_restore"}
MCCacheMax == [m \in {"container_cache", "chunk_cache"} |-> 2]
MCOlds == { <<>>, [i \in 1..6 |-> <<Junk, 1>>] }
=============================================================================
