------------------------------- MODULE Chunking -------------------------------
(***************************************************************************)
(* The cutting of a file in the serial write of main.cpp: the file is read *)
(* in blocks of FILE_CACHE, and the chosen chunker is called from one cut  *)
(* to the next until the block is used up.  fastcdc_avg_size is a global   *)
(* of the chunker that outlives its calls.                                 *)
(***************************************************************************)
EXTENDS FastCDC

CONSTANTS
    Files,       \* the files, as sequences of bytes
    Levels,      \* the values of "Normal" in the configuration
    Averages,    \* the values of "Size" with ChunkingMethod cdc
    FixedSizes,  \* 512, 4096, 8192, 16384: the sizes fsc has a function for
    FileCache,   \* FILE_CACHE
    U16          \* the number of values of a uint16_t

ASSUME ChunkingAssumption ==
    /\ \A file \in Files : file \in Seq(DOMAIN Gear)
    /\ Levels \subseteq 0..3 /\ Averages \subseteq Nat
    /\ FixedSizes \subseteq Nat \ {0}
    /\ FileCache \in Nat \ {0} /\ U16 \in Nat \ {0}

\* What main makes `chunking` point at: the settings that have a function.
Choices == {[method |-> "cdc", size |-> fas, level |-> l] : fas \in Averages, l \in Levels}
           \cup {[method |-> "fsc", size |-> s, level |-> 0] : s \in FixedSizes}

VARIABLES
    file, choice,   \* the input
    pc,             \* "read", "cut", "done", or "spins" for a loop without end
    from,           \* where the block in file_cache begins in the file
    n_read,         \* its length
    file_offset,    \* how much of the block is cut
    fastcdc_avg_size,
    chunks,         \* the chunks so far: begin and chunk_length
    began_with      \* history: fastcdc_avg_size at the beginning of the block

vars == <<file, choice, pc, from, n_read, file_offset, fastcdc_avg_size, chunks, began_with>>

gear == fastCDC_init(choice.size, choice.level)

Init ==
    /\ file \in Files /\ choice \in Choices
    /\ pc = "read" /\ from = 0 /\ n_read = 0 /\ file_offset = 0 /\ chunks = <<>>
    /\ fastcdc_avg_size = choice.size /\ began_with = choice.size

\* Mutant: file_offset is not set back for the next block.
Read_NoReset ==
    /\ pc = "read" /\ from + n_read < Len(file)
    /\ from' = from + n_read
    /\ n_read' = Capped(Len(file) - from', FileCache)
    /\ began_with' = fastcdc_avg_size
    /\ pc' = "cut"
    /\ UNCHANGED <<file, choice, file_offset, fastcdc_avg_size, chunks>>

\* read(idf, file_cache, FILE_CACHE)
Read ==
    /\ pc = "read" /\ from + n_read < Len(file)
    /\ from' = from + n_read
    /\ n_read' = Capped(Len(file) - from', FileCache)
    /\ file_offset' = 0
    /\ began_with' = fastcdc_avg_size
    /\ pc' = "cut"
    /\ UNCHANGED <<file, choice, fastcdc_avg_size, chunks>>

Finish ==
    /\ pc = "read" /\ from + n_read = Len(file)
    /\ pc' = "done"
    /\ UNCHANGED <<file, choice, from, n_read, file_offset, fastcdc_avg_size, chunks, began_with>>

\* Mutant: the data reaches to the end of the file cache.
Rest_Whole(block, offset) == block

\* file_cache + file_offset
Rest(block, offset) == SubSeq(block, offset + 1, Len(block))

\* The chunker on the data p, by way of the function pointer.
chunking(p, how, avg) ==
    CASE how.method = "fsc" -> FSC(Len(p), how.size)
      [] how.method = "cdc" /\ how.level = 0 ->
           FastCDC_without_NC(p, Len(p), fastCDC_init(how.size, 0))
      [] OTHER -> FastCDC_with_NC(p, Len(p), fastCDC_init(how.size, how.level), avg)

\* Only normalised chunking touches the average.
AvgAfter(p, how, avg) ==
    IF how.method = "cdc" /\ how.level # 0
    THEN LoweredAvg(Len(p), fastCDC_init(how.size, how.level), avg) ELSE avg

\* One chunk.  A chunk of length 0 is followed by the same one for ever.
Cut ==
    /\ pc = "cut" /\ file_offset < n_read
    /\ LET p == Rest(SubSeq(file, from + 1, from + n_read), file_offset)
           length == chunking(p, choice, fastcdc_avg_size)
       IN  /\ chunks' = Append(chunks, [begin |-> from + file_offset, length |-> length])
           /\ file_offset' = file_offset + length
           /\ fastcdc_avg_size' = AvgAfter(p, choice, fastcdc_avg_size)
           /\ pc' = IF length = 0 THEN "spins" ELSE "cut"
    /\ UNCHANGED <<file, choice, from, n_read, began_with>>

BlockDone ==
    /\ pc = "cut" /\ file_offset >= n_read
    /\ pc' = "read"
    /\ UNCHANGED <<file, choice, from, n_read, file_offset, fastcdc_avg_size, chunks, began_with>>

Next == Read \/ Finish \/ Cut \/ BlockDone

Spec == Init /\ [][Next]_vars /\ WF_vars(Next)

-------------------------------------------------------------------------------
\* Every variable keeps its type; no cut goes beyond the block.
TypeOK ==
    /\ file \in Files /\ choice \in Choices /\ pc \in {"read", "cut", "done", "spins"}
    /\ from \in Nat /\ n_read \in 0..FileCache /\ file_offset \in 0..n_read
    /\ fastcdc_avg_size \in 0..choice.size
    /\ chunks \in Seq([begin : Nat, length : 0..FileCache])

\* The entry keeps chunk_length in a uint16_t (MetadataManager.h:27), and a
\* restore goes by the entry: every chunk keeps its length, and the chunks
\* follow each other without gap or overlap from the beginning of the file to
\* where the loop is, as long as four times the average fits the field.  (With the types of TypeOK.)
Longest == IF choice.method = "fsc" THEN choice.size ELSE gear.MaxSize
Recorded(i) == chunks[i].length % U16

ChunksTile ==
    /\ TypeOK
    /\ Longest < U16 =>
         /\ \A i \in DOMAIN chunks :
              chunks[i].begin + Recorded(i) =
                IF i = Len(chunks) THEN from + file_offset ELSE chunks[i + 1].begin
         /\ chunks # <<>> => chunks[1].begin = 0

\* The cutting of data that is a file of its own: how far k chunks come, what
\* they leave as the average, and their lengths.
Cuts(data, how) ==
    LET at[k \in 0..Len(data)] ==
          IF k = 0 THEN [offset |-> 0, avg |-> how.size, lengths |-> <<>>]
          ELSE LET before == at[k - 1]
                   p == Rest(data, before.offset)
                   length == chunking(p, how, before.avg)
               IN  IF p = <<>> THEN before
                   ELSE [offset |-> before.offset + length,
                         avg |-> AvgAfter(p, how, before.avg),
                         lengths |-> Append(before.lengths, length)]
    IN  at

Alone(data, how) == Cuts(data, how)[Len(data)].lengths

\* The lengths of the chunks from the i-th on.
LengthsFrom(i) == [j \in 1..(Len(chunks) - i + 1) |-> chunks[i + j - 1].length]

\* Cuts follow the content: behind any cut of a file that one read takes in,
\* the chunks are those the rest would have as a file of its own, so that two
\* files with a common end share its chunks from the first common cut on.
ContentDefined ==
    pc = "done" /\ Len(file) <= FileCache =>
      \A i \in DOMAIN chunks : LengthsFrom(i) = Alone(Rest(file, chunks[i].begin), choice)

\* A block has a chunk at its beginning and is cut like a file of its own
\* while the average is what the configuration says; a short end of an earlier
\* block is all that lowers it.
BlocksAlike ==
    pc = "read" /\ n_read > 0 /\ began_with = choice.size =>
      \E i \in DOMAIN chunks :
        /\ chunks[i].begin = from
        /\ LengthsFrom(i) = Alone(SubSeq(file, from + 1, from + n_read), choice)

\* A file is cut completely when the average is at least the factor; below it
\* a chunk may have no length at all and the loop does not end.
CutsEverything ==
    (choice.method = "cdc" => choice.size >= Factor) ~> (pc = "done")
=============================================================================
