----------------------------- MODULE RestoreTask -----------------------------
(***************************************************************************)
(* The restore of main.cpp with the caches it reads through.  The task     *)
(* goes through the fingerprints of a recipe, gets each chunk from a       *)
(* container cache (ContainerCache.cpp, first in first out), a chunk cache *)
(* (ChunkCache.cpp, least recently used) or by forward assembly (FAA.h),   *)
(* collects them in the assembling buffer and flushes that into the output *)
(* file.  The store does not change meanwhile; it may be a damaged one.    *)
(***************************************************************************)
EXTENDS MetadataManager, Containers

CONSTANTS
    Stores,       \* the stores met: containers, index and inner (the field
                  \* container_inner_index of the index entries)
    RecipeDirs,   \* the recipe directories met: a recipe for each version
    Requests,     \* the versions asked for
    Olds,         \* what the restore path may hold before
    Methods,      \* the restore methods of the configuration
    CacheMax,     \* cache_max_size of each cache: 128 containers, 16*1024 chunks
    FileCache     \* FILE_CACHE, the size of the assembling buffer

CacheMethods == {"container_cache", "chunk_cache"}

ASSUME RestoreAssumption ==
    /\ CacheMax \in [CacheMethods -> Nat \ {0}]
    /\ FileCache \in Nat \ {0}
    /\ \A dir \in RecipeDirs : \A v \in DOMAIN dir : dir[v] \in Seq(Chunk)
    /\ \A file \in Olds : file \in Seq(Cell)

\* The length of an entry, a uint16_t, is below both sizes.
ASSUME StoreAssumption ==
    \A s \in Stores :
       /\ \A n \in DOMAIN s.containers : n \in Nat /\ s.containers[n] \in Seq(Cell)
       /\ \A c \in DOMAIN s.index :
            /\ s.index[c] \in EntryType
            /\ s.index[c].chunk_length <= FileCache
            /\ s.index[c].chunk_length <= ContainerSize

Ended == {"done", "missing", "fatal", "unsupported", "thrown", "undefined"}

VARIABLES
    store, recipes, version, old, method,  \* the input of the task
    pc,                    \* where the task is, and how it ended
    pos,                   \* recipe_offset: the fingerprints that were fetched
    out,                   \* the file at the restore path
    written,               \* the file offset of its descriptor
    asm, write_buffer_offset,                    \* assembling_buffer
    index_set, index_queue, container_cache,     \* ContainerCache
    chunk_cache, LRUstack, LRUtimestamp, container_buf,  \* ChunkCache
    recipe_buffer          \* the entries of the forward assembly

task == <<store, recipes, version, old, method>>
output == <<out, written>>
buffer == <<asm, write_buffer_offset>>
containerCache == <<index_set, index_queue, container_cache>>
chunkCache == <<chunk_cache, LRUstack, LRUtimestamp, container_buf>>
vars == <<task, pc, pos, output, buffer, containerCache, chunkCache, recipe_buffer>>

Hole == <<Junk, 0>>    \* a byte that is not chunk data
Holes(n) == [i \in 1..n |-> Hole]
Recipe == recipes[version]

\* memcpy or write of data behind the first `at` units of a buffer or file.
WriteAt(file, at, data) ==
    [i \in 1..Larger(Len(file), at + Len(data)) |->
        IF i \in (at + 1)..(at + Len(data)) THEN data[i - at] ELSE file[i]]

\* The n units of data behind the first off, fewer where data ends.
Part(data, off, n) ==
    SubSeq(data, off + 1, IF off + n <= Len(data) THEN off + n ELSE Len(data))

\* read: up to n units from an offset on, fewer at the end of the file, none
\* when the container could not be opened.
ReadContainer(number, off, n) ==
    IF number \in DOMAIN store.containers
    THEN Part(store.containers[number], off, n)
    ELSE <<>>

Init ==
    /\ store \in Stores /\ recipes \in RecipeDirs /\ version \in Requests
    /\ old \in Olds /\ method \in Methods
    /\ pc = "start" /\ pos = 0 /\ out = old /\ written = 0
    /\ asm = Holes(FileCache) /\ write_buffer_offset = 0
    /\ index_set = {} /\ index_queue = <<>> /\ container_cache = [n \in {} |-> <<>>]
    /\ chunk_cache = [k \in {} |-> <<>>] /\ LRUstack = [t \in {} |-> <<>>]
    /\ LRUtimestamp = 0 /\ container_buf = Holes(ContainerSize)
    /\ recipe_buffer = <<>>

End(how) ==
    /\ pc' = how
    /\ UNCHANGED <<task, pos, output, buffer, containerCache, chunkCache, recipe_buffer>>

NoVersion == pc = "start" /\ version \notin DOMAIN recipes /\ End("missing")

\* NAIVE_RESTORE and FAA_ROLLING have names in the configuration only.
Unsupported ==
    /\ pc = "start" /\ version \in DOMAIN recipes
    /\ method \notin CacheMethods \cup {"faa_fixed"}
    /\ End("unsupported")

\* The output file is opened without O_TRUNC.
Start ==
    /\ pc = "start" /\ version \in DOMAIN recipes
    /\ method \in CacheMethods \cup {"faa_fixed"}
    /\ pc' = IF method = "faa_fixed" THEN "fill" ELSE "loop"
    /\ UNCHANGED <<task, pos, output, buffer, containerCache, chunkCache, recipe_buffer>>

(***************************************************************************)
(* The loop over the recipe with one of the two caches.                    *)
(***************************************************************************)
Fetching(kind) == pc = "loop" /\ method = kind /\ pos < Len(Recipe)
Next1 == Recipe[pos + 1]
EV == store.index[Next1]

\* flushAssemblingBuffer
Flush(len) ==
    /\ out' = WriteAt(out, written, SubSeq(asm, 1, len))
    /\ written' = written + len

\* Mutant: the chunk goes into the buffer before there is room for it.
Assemble_CopyFirst(data) ==
    /\ asm' = WriteAt(asm, write_buffer_offset, data)
    /\ IF write_buffer_offset + Len(data) > FileCache
       THEN Flush(write_buffer_offset) /\ write_buffer_offset' = Len(data)
       ELSE /\ write_buffer_offset' = write_buffer_offset + Len(data)
            /\ UNCHANGED output

\* What the loop does with the data: a full buffer is flushed first.
Assemble(data) ==
    LET full == write_buffer_offset + Len(data) >= FileCache
        at == IF full THEN 0 ELSE write_buffer_offset
    IN  /\ IF full THEN Flush(write_buffer_offset) ELSE UNCHANGED output
        /\ asm' = WriteAt(asm, at, data)
        /\ write_buffer_offset' = at + Len(data)

\* Mutant: the size check is left out.
Deliver_Unchecked(data) == pc' = "loop" /\ pos' = pos + 1 /\ Assemble(data)

\* The size check of the loop on what a cache returned.
Deliver(data) ==
    IF Len(data) # EV.chunk_length
    THEN pc' = "fatal" /\ UNCHANGED <<pos, output, buffer>>
    ELSE pc' = "loop" /\ pos' = pos + 1 /\ Assemble(data)

\* The lookup that precedes every fetch of the loop.
UnknownChunk ==
    /\ \E kind \in CacheMethods : Fetching(kind)
    /\ Next1 \notin DOMAIN store.index
    /\ End("fatal")

\* std::string(content, offset, len): shorter when the content ends early,
\* an exception when it ends before the offset.
Substring(content) ==
    IF EV.offset > Len(content)
    THEN pc' = "thrown" /\ UNCHANGED <<pos, output, buffer>>
    ELSE Deliver(Part(content, EV.offset, EV.chunk_length))

ContainerHit ==
    /\ Fetching("container_cache") /\ Next1 \in DOMAIN store.index
    /\ EV.container_number \in index_set
    /\ Substring(container_cache[EV.container_number])
    /\ UNCHANGED <<task, containerCache, chunkCache, recipe_buffer>>

\* Mutant: the content of the evicted container stays in the map.
EvictFIFO_KeepsContent ==
    IF Len(index_queue) < CacheMax["container_cache"]
    THEN [set |-> index_set, queue |-> index_queue, cache |-> container_cache]
    ELSE [set |-> index_set \ {Head(index_queue)}, queue |-> Tail(index_queue),
          cache |-> container_cache]

\* evictContainerFIFO, when the cache is full.
EvictFIFO ==
    IF Len(index_queue) < CacheMax["container_cache"]
    THEN [set |-> index_set, queue |-> index_queue, cache |-> container_cache]
    ELSE [set |-> index_set \ {Head(index_queue)}, queue |-> Tail(index_queue),
          cache |-> Restrict(container_cache, DOMAIN container_cache \ {Head(index_queue)})]

\* loadContainer; a container that cannot be opened gives read's -1 as the
\* length of a string, which throws.
ContainerMiss ==
    /\ Fetching("container_cache") /\ Next1 \in DOMAIN store.index
    /\ EV.container_number \notin index_set
    /\ LET n == EV.container_number
           kept == EvictFIFO
           content == ReadContainer(n, 0, ContainerSize)
       IN  IF n \notin DOMAIN store.containers
           THEN pc' = "thrown" /\ UNCHANGED <<pos, output, buffer, containerCache>>
           ELSE /\ index_set' = kept.set \cup {n}
                /\ index_queue' = Append(kept.queue, n)
                /\ container_cache' = [m \in DOMAIN kept.cache \cup {n} |->
                                         IF m = n THEN content ELSE kept.cache[m]]
                /\ Substring(content)
    /\ UNCHANGED <<task, chunkCache, recipe_buffer>>

ChunkGlobalID(c) == <<store.index[c].container_number, store.inner[c]>>

Oldest == CHOOSE t \in DOMAIN LRUstack : \A u \in DOMAIN LRUstack : t <= u

\* Mutant: a hit leaves the old place in the stack.
Restack_Twice(key) ==
    [t \in DOMAIN LRUstack \cup {LRUtimestamp + 1} |->
        IF t = LRUtimestamp + 1 THEN key ELSE LRUstack[t]]

\* A hit: the chunk leaves its place in the stack and goes on top.
Restack(key) ==
    [t \in (DOMAIN LRUstack \ {chunk_cache[key].stamp}) \cup {LRUtimestamp + 1} |->
        IF t = LRUtimestamp + 1 THEN key ELSE LRUstack[t]]

ChunkHit ==
    /\ Fetching("chunk_cache") /\ Next1 \in DOMAIN store.index
    /\ ChunkGlobalID(Next1) \in DOMAIN chunk_cache
    /\ LET key == ChunkGlobalID(Next1) IN
         /\ LRUstack' = Restack(key)
         /\ chunk_cache' = [chunk_cache EXCEPT ![key].stamp = LRUtimestamp + 1]
         /\ Deliver(chunk_cache[key].data)
    /\ LRUtimestamp' = LRUtimestamp + 1
    /\ UNCHANGED <<task, containerCache, container_buf, recipe_buffer>>

\* evictChunkLRU, when the cache is full.
EvictLRU ==
    IF Cardinality(DOMAIN chunk_cache) < CacheMax["chunk_cache"]
    THEN [cache |-> chunk_cache, stack |-> LRUstack]
    ELSE [cache |-> Restrict(chunk_cache, DOMAIN chunk_cache \ {LRUstack[Oldest]}),
          stack |-> Restrict(LRUstack, DOMAIN LRUstack \ {Oldest})]

\* loadChunk reports an error of open, lseek or read and goes on: what it
\* returns has chunk_length units, of which a short read gave the first few.
ChunkMiss ==
    /\ Fetching("chunk_cache") /\ Next1 \in DOMAIN store.index
    /\ ChunkGlobalID(Next1) \notin DOMAIN chunk_cache
    /\ LET key == ChunkGlobalID(Next1)
           kept == EvictLRU
           data == SubSeq(container_buf', 1, EV.chunk_length)
       IN  /\ container_buf' = WriteAt(container_buf, 0,
                    ReadContainer(EV.container_number, EV.offset, EV.chunk_length))
           /\ LRUstack' = [t \in DOMAIN kept.stack \cup {LRUtimestamp + 1} |->
                             IF t = LRUtimestamp + 1 THEN key ELSE kept.stack[t]]
           /\ chunk_cache' = [k \in DOMAIN kept.cache \cup {key} |->
                                IF k = key THEN [data |-> data, stamp |-> LRUtimestamp + 1]
                                           ELSE kept.cache[k]]
           /\ Deliver(data)
    /\ LRUtimestamp' = LRUtimestamp + 1
    /\ UNCHANGED <<task, containerCache, recipe_buffer>>

\* Mutant: what is left in the buffer at the end is not written.
LastFlush_Forgotten == UNCHANGED output

LastFlush == Flush(write_buffer_offset)

Finish ==
    /\ pc = "loop" /\ pos = Len(Recipe)
    /\ LastFlush
    /\ pc' = "done"
    /\ UNCHANGED <<task, pos, buffer, containerCache, chunkCache, recipe_buffer>>

(***************************************************************************)
(* Forward assembly.                                                       *)
(***************************************************************************)
\* getEntry without a lookup: the map makes a zero entry of an unknown chunk.
EntryOf(c) == IF c \in DOMAIN store.index THEN store.index[c] ELSE Entry(0, 0, 0, 0)

\* Where the k-th chunk from here on begins in the assembling buffer.
faa_start ==
    LET start[k \in 0..(Len(Recipe) - pos)] ==
          IF k = 0 THEN 0 ELSE start[k - 1] + EntryOf(Recipe[pos + k]).chunk_length
    IN  start

\* As many chunks as fit into the assembling buffer.
FaaCount ==
    CHOOSE n \in 0..(Len(Recipe) - pos) :
       /\ faa_start[n] <= FileCache
       /\ n < Len(Recipe) - pos => faa_start[n + 1] > FileCache

recipe_buffer_entry(e, at) ==
    [CID |-> e.container_number, length |-> e.chunk_length,
     container_offset |-> e.offset, faa_start |-> at, used |-> FALSE]

FaaFill ==
    /\ pc = "fill" /\ pos < Len(Recipe)
    /\ recipe_buffer' =
         [k \in 1..FaaCount |-> recipe_buffer_entry(EntryOf(Recipe[pos + k]), faa_start[k - 1])]
    /\ write_buffer_offset' = faa_start[FaaCount]
    /\ pos' = pos + FaaCount
    /\ pc' = "assemble"
    /\ UNCHANGED <<task, output, asm, containerCache, chunkCache>>

\* size() - 1 of an empty recipe is the largest size_t: both loops go in and
\* read a fingerprint that is not there.
FaaEmpty == pc = "fill" /\ Recipe = <<>> /\ End("undefined")

FaaEnd == pc = "fill" /\ pos = Len(Recipe) /\ Recipe # <<>> /\ End("done")

Unused == {k \in DOMAIN recipe_buffer : ~recipe_buffer[k].used}

\* Mutant: the test on the entry is the wrong way round.
Served_Other(cid) == {k \in Unused : recipe_buffer[k].CID # cid}

\* The entries that lie in the container in memory.
Served(cid) == {k \in Unused : recipe_buffer[k].CID = cid}

\* The container in memory: zeros where it has no bytes.
loadContainer(cid) == WriteAt(Holes(ContainerSize), 0, ReadContainer(cid, 0, ContainerSize))

\* One pass: the container of the first unused entry is loaded and serves all
\* entries that lie in it.
FaaPass ==
    /\ pc = "assemble" /\ Unused # {}
    /\ LET first == CHOOSE k \in Unused : \A j \in Unused : k <= j
           cid == recipe_buffer[first].CID
           loaded == loadContainer(cid)
           At(i) == {k \in Served(cid) :
                       i \in (recipe_buffer[k].faa_start + 1)
                             ..(recipe_buffer[k].faa_start + recipe_buffer[k].length)}
           Beyond == \E k \in Served(cid) :
                       recipe_buffer[k].container_offset + recipe_buffer[k].length > ContainerSize
       IN  IF Beyond
           THEN pc' = "undefined" /\ UNCHANGED <<asm, recipe_buffer>>
           ELSE /\ asm' = [i \in 1..Len(asm) |->
                             IF At(i) = {} THEN asm[i]
                             ELSE LET x == recipe_buffer[CHOOSE k \in At(i) : TRUE]
                                  IN  loaded[x.container_offset + i - x.faa_start]]
                /\ recipe_buffer' = [k \in DOMAIN recipe_buffer |->
                                       IF k \in Served(cid)
                                       THEN [recipe_buffer[k] EXCEPT !.used = TRUE]
                                       ELSE recipe_buffer[k]]
                /\ pc' = "assemble"
    /\ UNCHANGED <<task, pos, output, write_buffer_offset, containerCache, chunkCache>>

FaaFlush ==
    /\ pc = "assemble" /\ Unused = {}
    /\ Flush(write_buffer_offset)
    /\ pc' = "fill"
    /\ UNCHANGED <<task, pos, buffer, containerCache, chunkCache, recipe_buffer>>

Next ==
    \/ NoVersion \/ Unsupported \/ Start
    \/ UnknownChunk \/ ContainerHit \/ ContainerMiss \/ ChunkHit \/ ChunkMiss \/ Finish
    \/ FaaFill \/ FaaEmpty \/ FaaEnd \/ FaaPass \/ FaaFlush

Spec == Init /\ [][Next]_vars /\ WF_vars(Next)

-------------------------------------------------------------------------------
\* Every variable keeps its type.
TypeOK ==
    /\ store \in Stores /\ recipes \in RecipeDirs /\ version \in Requests
    /\ old \in Olds /\ method \in Methods
    /\ pc \in Ended \cup {"start", "loop", "fill", "assemble"}
    /\ pos \in Nat /\ written \in Nat /\ write_buffer_offset \in 0..FileCache
    /\ out \in Seq(Cell) /\ asm \in Seq(Cell) /\ container_buf \in Seq(Cell)
    /\ index_set \subseteq Nat /\ index_queue \in Seq(Nat)
    /\ LRUtimestamp \in Nat /\ DOMAIN LRUstack \subseteq Nat

\* saveContainer keeps the bytes of every chunk at its entry's place, within
\* the first ContainerSize, and the chunks of a container have inner indices of
\* their own: what a store that met no mishap is like
\* (DedupStore.SoundUntilMishap).
Sound ==
    /\ \A v \in DOMAIN recipes :
         Range(recipes[v]) \subseteq DOMAIN store.index
    /\ \A c \in DOMAIN store.index :
         LET e == store.index[c]
         IN  /\ e.chunk_length = ChunkLen[c] /\ e.offset + ChunkLen[c] <= ContainerSize
             /\ ReadContainer(e.container_number, e.offset, e.chunk_length)
                  = AppendChunk(<<>>, c)
    /\ \A c, d \in DOMAIN store.index : ChunkGlobalID(c) = ChunkGlobalID(d) => c = d

\* The set, the queue and the map of the container cache name the same
\* containers, each once, never more than cache_max_size, and a cached
\* container is the file on disk: a stale or doubled entry would serve the
\* bytes of another one.
ContainerCacheAgrees ==
    /\ index_set = DOMAIN container_cache
    /\ index_set = {index_queue[i] : i \in DOMAIN index_queue}
    /\ \A i, j \in DOMAIN index_queue : index_queue[i] = index_queue[j] => i = j
    /\ Len(index_queue) <= CacheMax["container_cache"]
    /\ \A n \in index_set :
         n \in DOMAIN store.containers /\ container_cache[n] = ReadContainer(n, 0, ContainerSize)

\* Each cached chunk has exactly one place in the LRU stack and each place its
\* chunk: otherwise an eviction takes the wrong chunk out of the cache, or
\* none, and the cache grows beyond cache_max_size.
LruInStep ==
    /\ \A k \in DOMAIN chunk_cache :
         chunk_cache[k].stamp \in DOMAIN LRUstack /\ LRUstack[chunk_cache[k].stamp] = k
    /\ \A t \in DOMAIN LRUstack :
         /\ LRUstack[t] \in DOMAIN chunk_cache /\ chunk_cache[LRUstack[t]].stamp = t
         /\ t \in 1..LRUtimestamp
    /\ Cardinality(DOMAIN chunk_cache) <= CacheMax["chunk_cache"]

\* memcpy never writes behind the end of the assembling buffer, and what is
\* flushed from it ends within it.  (With the types of TypeOK.)
BufferFits == TypeOK /\ Len(asm) = FileCache /\ write_buffer_offset <= FileCache

\* With the container cache a restore that reports success has met no
\* container that ends before one of its chunks does (the size check of
\* main.cpp:592).
TruncationNoticed ==
    pc = "done" /\ method = "container_cache" =>
      \A c \in Range(Recipe) :
         Len(ReadContainer(store.index[c].container_number, store.index[c].offset,
                           store.index[c].chunk_length)) = store.index[c].chunk_length

\* Every restore ends, whatever the store is like.
Terminates == <>(pc \in Ended)
=============================================================================
