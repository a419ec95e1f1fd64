-------------------------- MODULE PipelineRefinement --------------------------
(***************************************************************************)
(* The pipeline as an implementation of ChunkStream, the view DedupStore   *)
(* has of a write.                                                         *)
(***************************************************************************)
EXTENDS Pipeline

\* The chunks of a file from unit i on, cut with all of the file in view.
ChunksFrom(f) ==
    LET Size(i) == Smaller(f.cut[i], f.len - i + 1)
        from[i \in 1..(f.len + 1)] ==
          IF i > f.len THEN <<>>
          ELSE <<Units(i, i + Size(i) - 1)>> \o from[i + Size(i)]
    IN  from

ChunksOf(f) == ChunksFrom(f)[1]

Data(q) ==
    IF q \in DOMAIN queue THEN [i \in DOMAIN queue[q].queue |-> queue[q].queue[i].data]
    ELSE <<>>

\* The places of what was read, from the front of the stream to its end: the
\* recipe's chunks, the three queues, the hands of the threads, block_buf.
Pieces ==
    file_recipe
      \o Data("hash_queue")
      \o (IF pc["hash"] = "forward" THEN <<hand.data>> ELSE <<>>)
      \o Data("chunk_queue")
      \o <<SubSeq(block_buf, buf_off + 1, buf_off + rest_size)>>
      \o Data("read_queue")

\* Every byte that was read is in one place, and all of them are in the order
\* of the file: each piece has the units that follow those of the pieces
\* before it, and the last ends with what was read last.
BytesInOrder ==
    LET upto[n \in 0..Len(Pieces)] ==
          IF n = 0 THEN 0 ELSE upto[n - 1] + Len(Pieces[n])
    IN  /\ \A n \in 1..Len(Pieces) : Pieces[n] = Units(upto[n - 1] + 1, upto[n])
        /\ upto[Len(Pieces)] = pos

Stream == INSTANCE ChunkStream WITH
            Inputs <- {ChunksOf(f) : f \in Files},
            todo <- SubSeq(ChunksOf(file), Len(file_recipe) + 1, Len(ChunksOf(file))),
            recipe <- file_recipe

\* The recipe gets exactly the chunks that chunking the whole file at once
\* gives, however the blocks arrive and the threads interleave, and is stored
\* when it has them all.
ImplementsChunkStream == Stream!Spec
===============================================================================
