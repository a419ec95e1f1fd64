# A TLA+ verification project for cDedup

cDedup is a deduplicating store: a command line program that cuts an input file
into chunks, keeps every distinct chunk once in a *container* file, records the
file as a list of fingerprints (a *recipe*), and finds the chunks again through
a fingerprint *index*. Every invocation reads a JSON configuration and does one
task (write, pipelined write, restore, delete) on state that lives in files.
This directory models it, checks it with TLC and proves its main invariants
with TLAPS.

## 1. Inventory

Paths are relative to the repository root as it appears in `PROJECT.json`
(`src/main.cpp`, `src/src/*.cpp`, `src/include/*.h`).

| Component | State | Operations | What makes it correct |
|---|---|---|---|
| Program start and dispatch (`main.cpp`) | the two singletons, `chunking` | parse, choose, refuse, do one task, report | a run does what its text says or nothing |
| Configuration (`config.h`, vendored cJSON) | `Config` | parse_argument | the last setting counts; an unsupported one stops the run |
| Global statistics (`global_stat.h`), compression simulator (`compressor.cpp`) | `global_stat.json`, its counters in memory | parse, update, save, clear | reading and saving changes no counter; where the build updates them they add up over runs |
| Fingerprint index (`MetadataManager`) | `fp_table_origin` (loaded), `fp_table_added` (new), the index file | load, save, dedupLookup, addNewEntry, addRefCnt, decRefCnt, getEntry, chunkOffsetDec | an entry leads to its chunk's bytes; counts are exact; the file is never ahead of the containers |
| Containers and reverse lists (`main.cpp`) | `containerN`, `containerNr` | saveContainer, saveChunkToContainer, del_seg, container_del_chunk | a flushed container is only changed by a delete; the list names exactly the chunks in the file |
| Recipes (`main.cpp`, `pipeline_dedup.cpp`) | `recipeN` | saveFileRecipe, getFileRecipe, remove | the recipe of a version is that of the file written under it |
| Write task (`main.cpp`) | input, container buffer, reverse list buffer, recipe in memory | chunk loop, flush, saves in the order container, recipe, index | dying early loses the new version only |
| Delete task (`main.cpp`) | recipe, `rev_container_cnt` | reference loop, cut, move offsets, unlink, save | other versions keep every byte; space comes back |
| Restore task (`main.cpp`) | assembling buffer, output file | recipe loop, forward assembly, flush | the file takes on the content of the version, whole when success is reported |
| Restore caches (`ContainerCache.cpp`, `ChunkCache.cpp`, `FAA.h`) | set, queue and map; map and LRU stack; recipe buffer | hit, miss, load, evict | a cache agrees with itself and with the disk |
| Chunking (`fastcdc.cpp`) | `fastcdc_avg_size`, masks | FastCDC with and without normalisation, FSC | chunks tile the file; cuts depend on the content only |
| Merkle tree deduplication (`merkle_tree.cpp`, `main.cpp`) | level files `MTL1` to `MTL6`, tree, `found` | build, walk, look up, append | every chunk is under the tree once; a chunk reported known has a reason; new ones are saved |
| Pipelined write (`pipeline_*.cpp`) | four threads, three queues, `block_buf` | read, chunk, hash, dedup, start and join | chunk boundaries depend on content only; nothing lost or reordered; it ends |
| Job control record (`jcr.cpp`) | status and counters | init, update, show | what main reports is what was done |
| SyncQueue (`sync_queue.cpp`, `queue.cpp`) | list, limit, `term`, two condition variables | push, pop, term | no lost wakeup, bounded, first in first out |
| Full-file deduplication (`full_file_deduplicater.cpp`) | fingerprint file with counts, storage directory | write, restore, delete | an id that is held restores; counts and files agree; a content is counted once |
| uthash (vendored), scripts and the reading benchmark | | | no state of the system |

The components interact through calls inside one process, through the three
queues between the threads of the pipelined write, and through the files
between one process and the next. The behaviours that are hard to test:

* what one task leaves on disk is the starting point of the next: the numbers
  of containers and versions are *counts of files*, so an order of deletes
  decides whether a later write collides;
* entries, offsets, reverse lists and container bytes have to change together
  over long sequences of writes and deletes;
* a process may die between any two files it writes;
* a restore may meet a store that such a death, or a mishap of a delete, has
  damaged, through caches whose structures evict at different moments;
* the pipeline's threads sleep and wake each other on two condition variables;
* the input arrives in blocks whose ends must not influence the chunks, and the
  average size of the chunker is a global that outlives its calls;
* a walk of the Merkle tree leaves its trace in the level files even if the
  write dies, and what it takes for known is never looked up again; whether it
  reaches a level file at all depends on what became of a freed string;
* an entry of the full-file fingerprints is written in two calls, and one torn
  between them shifts all that is appended later;
* counters and numbers have widths (`uint8_t` versions, `uint16_t` lengths,
  `uint32_t` offsets, `int` statistics), and index, fingerprint file and
  configuration are read into buffers of limited size.

`PROJECT.json` lists each of these hazards at its line, with the properties that
would catch it or the reason why none does yet.

## 2. Modules

| Module | Content |
|---|---|
| `MetadataManager` | the index class as operators on tables (partial functions from chunks to entries) |
| `Containers` | container files as sequences of cells, and what `saveContainer` and `del_seg` do to them |
| `DedupStore` | the state machine of tasks on one store; its properties and inductive invariant |
| `VersionStore` | abstract: numbered versions, each with a content |
| `DedupStoreRefinement` | restore as a function of the state; `DedupStore` implements `VersionStore` |
| `RestoreTask` | the restore with its two caches and forward assembly, over sound and damaged stores |
| `Restoration` | abstract: a file takes on a content from its beginning on |
| `RestoreRefinement` | `RestoreTask` implements `Restoration` |
| `SyncQueue` | the bounded queue as operators on the struct |
| `SyncQueueClients` | any number of producers and consumers on one queue |
| `Pipeline` | main and the four threads of the pipelined write, with the job control record |
| `ChunkStream` | abstract: chunks reach the recipe one by one, then it is stored |
| `PipelineRefinement` | the reference chunking; `Pipeline` implements `ChunkStream` |
| `FullFileStore` | the fingerprint file and the directory of full-file deduplication |
| `FileLibrary` | abstract: contents under numbers, each kept once and counted |
| `FullFileRefinement` | `FullFileStore` implements `FileLibrary` until a process dies or an input cannot be opened |
| `FastCDC` | where the chunkers cut, as operators on data, masks and average |
| `Chunking` | the serial loop that cuts a file block by block |
| `MerkleTree` | the levels of the tree over the chunks of a file |
| `MerkleWrite` | writes with the tree between plain ones: walk, level files, saves |
| `CInt`, `CJSON` | `int`, and what the program relies on of its JSON parser |
| `Config`, `GlobalStat` | the settings and the counters as operators |
| `Program` | runs of the program one after the other: configuration, counters, choice of the task, report |
| `MC*` | values for the constants |
| `*Proofs` | theorems about `DedupStore` and its refinement, `SyncQueueClients`, `Pipeline`, `Chunking`, `FullFileStore` and its refinement, `RestoreTask`, `MerkleWrite` and `Program` |

`DedupStore` is the composition of the index, the containers and the recipes.
`Pipeline` composes four clients of `SyncQueue`; `ImplementsChunkStream` connects it to
`DedupStore`, which takes a write to be a sequence of chunks. `Program` takes a whole
task to be one step, and the other modules say what is in it. `RestoreTask`
shares the index and the containers with `DedupStore` but not its steps: a
restore changes nothing, so it is enough to start it on the stores that
`DedupStore` can leave, the damaged ones among them.

### DedupStore

*State.* `containers`, `revs`, `recipes` and `index` are the files. The other
variables are the memory of the one running process; `Exit` empties them, by
normal end, `exit(-1)` or death. A chunk of the model is a content together with
its fingerprint: the code identifies chunks by SHA-1 (`main.cpp:513`, collisions
"should be zero"). A container is a sequence of cells `<<c, i>>`, the i-th unit
of chunk c, so that every byte in a file is traceable to a chunk; `Junk` stands
for bytes of a stale static buffer. `catalog`, `ntasks` and `mishaps` are
history: which versions were reported stored, how many tasks ran, what went
wrong so far.

*Actions.* One per step that ends with something on disk or is a turn of a loop:

| Action | Code |
|---|---|
| `StartWrite`, `StartDelete` (with `LoadIndex`) | the index is loaded if there is a recipe; counts are taken |
| `DedupChunk`, `UniqueChunk` | a turn of the chunk loop, serial or pipelined |
| `SaveContainer`, `SaveRev` | the flush: container file, then its reverse list (serial only) |
| `SaveRecipe` | `saveFileRecipe`: number by count, open without truncation (`Overlay`) |
| `TruncIndex`, `SaveIndex` | `MetadataManager::save` |
| `DeleteRef`, `DeleteChunk` | a turn of the delete loop: count down, or cut the container, move the offsets, shrink the list |
| `DeleteFatal`, `DeleteUndefined` | the error exits; the read of uninitialised fingerprints |
| `Unlink` | the recipe goes |
| `Crash` | the process dies at a point of `CrashPoints` |

*Mishaps.* The code has behaviours after which its files no longer fit together
(section 4). The model executes them as the code does and
records them: `clobber` (a file is written over), `norev` (a delete on a
container without reverse list), `fatal` (a delete stops half-way), `crash`
(death during a delete or after the recipe), `lostindex` (the index was longer
than what load reads), `undefined`. Invariants that hold only before the first
mishap say so (`SoundUntilMishap`), and separate runs show under which use no
mishap happens (`NoMishap`). After `undefined` (fingerprints read from
uninitialised stack memory) any outcome is possible, so the model starts no task
on that store.

*`DenseOnly`.* `TRUE` restricts the user to writing when the recipe numbers have
no gap, i.e. deletes come back from the newest version before the next write.
That is the use under which numbering by counting works; the scripts of the
repository write a series and then delete a series.

### SyncQueue and Pipeline

Every function of `sync_queue.cpp` holds the mutex for its whole body except
while it sleeps, so a call is one step, or several separated by sleeps. The
condition variables are the sets of threads asleep on them; `entered` remembers
who is past the test of `term` in a push. A spurious wakeup is a step.

`Pipeline` has a program counter per thread. The private computation between two
queue operations is part of the step of the operation. The units of the file are
numbers, so that a byte lost, doubled or misplaced by the `memmove`/`memcpy` of
`block_buf` is visible. A file carries its cuts: `cut[i]` is the length of the
chunk that begins at unit i, as chunking would choose it with all of the file in
view; `ChunkSize` limits it to the window as `FastCDC_with_NC` and the FSC
functions do. A dereferenced NULL or a failed assertion sends the thread to
`abort`. jcr.status is written by one thread and polled by another without
synchronisation; the store is taken to become visible eventually (the build is
unoptimised, the poll loop calls `usleep`).

The record `jcr` has its status and the four counters of `dedup_thread`, which are
`int`s: `IntMax` is small enough in the run that they wrap, and `DoneMeansStored` compares
what main shows with what the file gives, modulo the width. The chunker of the
pipeline is chosen apart from that of the serial loop (`Program`,
`chunking_method_prepare`): the level of normalisation has no say there.

`DedupStore` takes a write to be a sequence of chunks handed over one at a time.
`ImplementsChunkStream` is the link: whatever the threads do, this is what
`dedup_thread` sees.

### FullFileStore

*State.* `entries` and `tail` are the fingerprint file: it grows by words of four
bytes, six of them are an entry (five of the hash, one of the count), and `tail` is
what lies behind the last whole entry. `files` is the storage
directory; a file's id is the position of its entry. `pc`, `file_id` and `input`
are the one running process. `told` and `owners` are history, seen from the
users: the content an id was reported for (`main.cpp:253`) and how many of these
reports have not been followed by a delete of the id.

*Actions.*

| Action | Code |
|---|---|
| `WriteKnown` | `writeFile` when the scan finds a live entry: its count goes up |
| `WriteNew`, `WriteCount`, `SaveFile` | the two writes of `insert_hash`, then the copy into the directory |
| `DeleteCount`, `RemoveFile` | `deleteFile`: hash of the stored file, first live match counted down; the removal when the count is 0 or nothing is found |
| `ScanUndefined` | the scan leaves the 100 entries of its buffer: no further task |
| `Crash` | a death between the hash and its count, between entry and file, between count and removal |

A death between the two writes of `insert_hash` (`full_file_deduplicater.cpp:96` and
`98`) leaves five words. The next process counts whole entries only; what it appends
completes the torn one, the first word of its hash as the count (`HashCounts`), and
every entry from there on is read out of step: its words are the hash of no content
(`Mixed`) with some number as its count. `AppendHash` and `AppendCount` say so for a
tail of any length; after enough deaths the entries can be in step again.

An input that cannot be opened, or a configuration that names none, is the content
`NoContent`, whose hash is zeros: an entry is made for it and an empty file.

A delete does not use the id to find the entry: it hashes the file of that id
and takes the first live match. A user may delete an id twice, or one nobody
holds. `FileLibrary` says what that comes to: numbers that are never used again, each with
a content and the number of times it is still held. `FullFileRefinement` reads that off
the two files alone (`Held`): a write becomes visible when its file is saved, a delete
when the count goes down. After a death, or an input that could not be opened,
`FileLibrary` promises nothing.
`TrailingSlash` is the form of the configured path, which
`generate_abs_file_name_from_file_id` treats differently.

### RestoreTask

*State.* `store`, `recipes`, `version`, `old` and `method` are the input and never
change. The rest is the process: the place in the recipe, the assembling buffer,
the output file with the offset of its descriptor, the three structures of the
container cache, the four of the chunk cache, and the recipe buffer of forward
assembly. Bytes are the cells of `Containers`, so that a byte of the output that
comes from the wrong chunk, or from nowhere (`Hole`), is visible.

*Actions.*

| Action | Code |
|---|---|
| `NoVersion`, `Unsupported`, `Start` | the refusals; the open without `O_TRUNC` |
| `UnknownChunk` | the lookup before a fetch |
| `ContainerHit`, `ContainerMiss` | `getChunkData` and `loadContainer` of `ContainerCache`, with `evictContainerFIFO` |
| `ChunkHit`, `ChunkMiss` | `getChunkData` and `loadChunk` of `ChunkCache`, with `evictChunkLRU` |
| `Finish` | the last flush |
| `FaaFill`, `FaaPass`, `FaaFlush`, `FaaEnd`, `FaaEmpty` | forward assembly: as many entries as fit, one container after the other, the flush; the recipe without entries |

A fetch includes the size check of the loop and the copy into the assembling
buffer, with the flush before it when the buffer is full. A task ends as `done`,
`missing`, `unsupported`, `fatal` (`exit(-1)`), `thrown` (a `std::string` built
from -1 or beyond the end) or `undefined` (reads outside arrays).

### Chunking

`FastCDC` gives the length of the next chunk from the data behind the last cut. The
gear table and the masks are parameters: a mask is the set of fingerprints it lets
through, and the fingerprint keeps `FpMod` values instead of 2^64, so that a judgement
depends on the last few bytes as it depends on the last 64 in the code. `Chunking`
is the loop of the serial write: `Read` takes a block of `FileCache`, `Cut` calls the
chunker, and a chunk of length 0 leads to `spins`, as the loop would then never move.
`fastcdc_avg_size` is carried from call to call: data shorter than the average
lowers it for good.

### Merkle tree

`MerkleTree` builds the levels. A hash is a free term, so that equal hashes mean
equal hashing: `SHA1_Init` is called for every child, hence a node's hash is that of its
last child, and the extra node of level 1 behind even groups has no children.
`MerkleWrite` is the branch of the write: `Build`, the walk one node at a time
(`WalkChunk`, `WalkKnown`, `WalkNew`, and `WalkChildless`, which ends the process),
`WalkDone`, `Save`, with plain writes between and deaths anywhere. `stack` is the
recursion of the walk, `levels` the level files on disk. `lookupL0` goes through
an index of 36-byte entries in steps of 30 bytes: it meets every fifth entry,
and which those are is up to the hash map that wrote the file (`Seen`).
`Advance` is what the branch adds to `container_buf_pointer`: nothing.

The paths the tree gets (`main.cpp:392-398`) are `c_str()` of strings that the getters
of `config.h` return by value, and are opened when those strings are gone
(`merkle_tree.cpp:136`, `159`, `181`). In the build of the repository (no
optimisation) a path short enough to be kept inside its string object is still in
main's frame and names its file; a longer one was on the heap, its first bytes are
overwritten when it is released, and no file has that name. Neither open creates a
file. `reached` is the set of levels (0 for the index) whose path still works in this
run, and it is any set: a level that is not reached is looked up in vain and nothing
is added to it. `begun` is history: at which level, and above which last chunk, a
walk was about to go below a node.

### Program

*State.* `stats` is `global_stat.json`; `conf`, `gs` and `text` are the running process;
`acts` is history, what the runs did to the store, `lost` the writes among them
that no counter speaks of, and `base` the counters at the beginning or at the last
clearing.

*Actions.* `Start` (`parse_argument`, which may end the run), `ParseStats` or
`StatsFatal`, `Refuse` or `Dispatch`, one of the tasks (`FullFileTask`,
`VersionTask`, `WritePipeline`, `Write`, and the ways they fail), then for a serial
write `Report` or `DivisionByZero` (an empty file has no chunks to divide by),
`Truncate`, `Rewrite`; `Clear` is the script `clear_global_stat.sh`. `Crash` may come
at any step. A configuration is a sequence of settings, in the order of the text,
where a name may be missing, repeated, misspelt or of the wrong type.

`ENABLE_COMPRESSION` is the macro of that name. `main.cpp:32` has it commented out and
no build file defines it, so the run has it `FALSE`: the program reads the counters,
never adds to them, and saves them again. The proofs are of both builds.

A full-file write needs no input: without `InputFile` it stores the empty file of
`FullFileStore` under the hash of zeros, and `acts` has an `empty file write`.

## 3. Runs

| Run | Question | Result |
|---|---|---|
| `serial_lifecycle` | Over serial writes and deletes without gaps: is what a restore returns the abstract store of versions? Are counts exact, does space come back, do flushed containers stay, does nothing go wrong? | yes |
| `crash_before_recipe` | Does a write that dies before its recipe harm anything? Serial and pipelined. | no |
| `anything_goes` | Does the inductive invariant hold until the first mishap, for all tasks in any order, all deaths, wrapping versions, a short index read? Are all error branches of the model reachable? | holds, yes |
| `queue` | Lost wakeups, limit, order, with a termination at any moment; do pops return after it, and pushes while the queue is in use? | hold, yes |
| `pipeline` | Are chunks, order, completeness and the reported counters independent of block ends and scheduling? Does it finish? | yes |
| `full_file` | Over deletes, dead ids and rewrites, until a process dies or an input cannot be opened: does every held id restore, are the two files together a library of counted files? Has a content one live entry at all times, behind torn entries too? Does the inductive invariant hold? | yes |
| `restore` | By every method and from every store: do the caches agree with themselves and the disk, does the buffer suffice, is a short container noticed? From a sound store: is the file the version? Does it end? | yes |
| `chunking` | For every chunker and file: do the recorded chunks tile the file, do cuts follow the content, are blocks cut alike, does the loop end? | yes, within the limits the properties name |
| `merkle` | Does the tree cover each chunk once, has every found chunk a reason, is no hash twice in what one read of a level file takes in, over writes that die anywhere and whichever paths still work? | yes |
| `program` | As the program is built: does what touches the store follow from the text, do the counters stay what they were, and what does an empty file of counters do? | yes; it stops everything |
| `v_version_reuse` | Is the recipe of a stored version its own? | violated |
| `v_merkle` | Are the chunks of a write with the tree in a container when it is done? | violated |

**Bounds.**

* *Store.* Four distinct chunks of lengths 1 and 2 in containers of fewer than
  5 units, or 4 in `anything_goes` (the code flushes when a chunk would reach
  `CONTAINER_SIZE`): a container then holds one to three chunks, with longer ones
  before, between and behind shorter ones, so that offsets move past several
  neighbours; a file may span containers and may repeat a chunk; the empty file
  is there. Six tasks allow write, write, delete, delete, write, delete and all
  other orders; four are enough where deaths and pipelined writes multiply them. `U32 = 16`
  is larger than any offset, so a wrap would be an error of the arithmetic and
  not of the bound. `VersionMod` is 3 in `anything_goes`, so that numbers wrap, and 256
  elsewhere (never reached). `IndexCap = 2` there makes an index of three entries
  too long to load. `MaxTasks` bounds the runs only; the proofs assume nothing
  about its value.
* *Queue and pipeline.* Three producers on a queue of 2 make more wakeups than places.
  Blocks of 2, longest chunk 3, so a chunk can lie in one, two or three blocks
  and a window can hold parts of several; queue limits 1 and 2, so that every
  stage sleeps at either end; seven files of lengths 0 to 11, one shorter than the longest chunk;
  `IntMax = 3`, so that the counters wrap.
* *Full files.* Three contents, one of them the empty file, and inputs that cannot be
  opened; six tasks; the buffer of the scan holds three entries (100 in the code),
  because entries of deleted files stay and a few rewrites then reach its end. A word
  of a hash read as a count is 0 or 2. Six tasks with deaths between the two writes
  tear up to three entries. 2.4 million states.
* *Restore.* Three containers of one or two chunks, before and after a delete that
  moved an offset, and four damaged stores (a container too short, empty or gone,
  an offset that wrapped); all recipes of up to four chunks; caches of two
  containers or chunks, so that both evict and reload what they evicted; a buffer of
  4 units, so that it is flushed in between; an output file that was empty or longer.
* *Chunking.* All files of two byte values up to length 9, in blocks of 6: the second
  block has every length up to 3. Averages 1 to 4 with `Factor = 2` give shortest
  chunks of 0 to 2 bytes and longest of 2 to 8, shorter and longer than a block.
  `U16 = 5`: some settings give chunks that no field can hold, which
  `ChunksTile` excludes by name.
* *Merkle.* Groups of two in three levels: files of one to seven chunks fill one, two or
  three levels, evenly and not, repeat groups, and eight chunks are too high;
  `LevelCap = 2` lets level files outgrow what one look reads. Three tasks are a walk that dies, one tried again, and a plain write
  before or between. Each walk has any of the sixteen sets of paths that work.
  2.4 million states.
* *Program.* Twenty-two texts, three runs, counters that begin at zero or near the ends of an `int`. A text of more than five settings is cut;
  190,000 states. With `ENABLE_COMPRESSION = TRUE` the same configuration passes too:
  `IntMax = 5000` with files of 9000 bytes and `Kb = 2` then makes the counters wrap.

**Deadlock.** `CHECK_DEADLOCK FALSE` everywhere: the bound on tasks or runs, the end of the
pipeline, of a restore and of the chunk loop, and clients that have made all their calls are
proper ends. That the pipeline, a restore and the chunk loop stop only there is `Finishes`, `Terminates` and
`CutsEverything`; that queue users do not block each other are `ConsumersReturn`
and `PushesReturn`.

**Fairness.** `FairSpec` of `Pipeline` and `SyncQueueClients` asks for weak
fairness of each thread: a POSIX thread that can run is run. `RestoreTask` and `Chunking` are one
sequential process each, and `WF_vars(Next)` says no more than that it goes on. Wakeups need none:
a broadcast is part of the step that makes it. Nothing is assumed of spurious
wakeups. `PushesReturn` depends on every producer pushing finitely often in the
model: with endless competitors a mutex gives no turn to anyone in particular.
It also ends with the termination: a producer asleep in its push when
`sync_queue_term` is called may stay asleep, since `term` is tested once before
the loop (`sync_queue.cpp:33-41`) and consumers that were given NULL are gone.
The pipeline is safe from this because the only producer of a queue terminates it.

## 4. What the violations show

1. `v_version_reuse`: a write numbers its recipe by the number of recipes
   (`main.cpp:58`) and does not truncate. After versions 0 and 1, deleting 0 and
   writing again lands on `recipe1`, which is in use. The same holds for
   containers (`main.cpp:351`). Without gaps (`DenseOnly`) it cannot happen:
   `serial_lifecycle`, `NoMishap`.
2. `v_merkle`: the branch with the tree copies its new chunks into the container
   buffer (`main.cpp:404`) but never advances `container_buf_pointer`, as the plain
   loop does (`main.cpp:476`). The test at `main.cpp:495` then finds nothing to flush,
   and the recipe is saved at `main.cpp:500` without any of its new chunks.

Other behaviours a user should know of are executed by the models as the code has them,
and the properties say where they end:

* containers of the pipelined write have no reverse list (`pipeline_dedup.cpp:52-62`),
  so a delete cuts bytes but moves no offset (mishap `norev`);
* the recipe is saved before the index, which is rewritten in place (mishap `crash`);
* a version number is cut to `uint8_t` (`main.cpp:74`), so version 256 is recipe 0;
* a full-file path that ends with a slash makes restores and deletes use the member
  `file_id`, which is -1 there (`full_file_deduplicater.cpp:151`); the entry of a new file is
  live before the file exists;
* a full-file write that dies between the two writes of `insert_hash` puts all later
  entries out of step (`full_file_deduplicater.cpp:96-98`, `110`): no content is found
  behind it, so each write of the same file stores it again under another id, and
  deletes find nothing to count down and remove the file at once. What stays is that
  no content is live twice (`OneLiveEntry`);
* a full-file write whose input cannot be opened, or whose configuration names none, is
  reported as stored: it has an entry with a hash of zeros and an empty file
  (`full_file_deduplicater.cpp:33-36`, `141-145`);
* the level files of the Merkle tree are reached through dangling paths
  (`main.cpp:392-398`): with long paths the tree finds nothing and records nothing;
* a node of the tree is known by its last chunk alone (`merkle_tree.cpp:31`), so a walk passes
  over chunks no walk has met (`FoundHasReason` says how far that goes);
* the counters of `global_stat.json` never grow in the program as it is built
  (`main.cpp:32`, `534-539`);
* `HeldUntilCrash` stops at the first death for a reason: a delete that died between
  the count and the removal may be tried again after the content was written anew.
  It hashes the file that was left, finds the new entry and takes its count, so
  the next delete of the new id removes a file another user still holds;
* the chunk cache does not notice a short container (`ChunkCache.cpp:44`), and forward assembly
  makes zero entries of unknown fingerprints: `TruncationNoticed` is a promise of
  the container cache alone;
* a process that dies while it rewrites `global_stat.json` leaves it empty, and no run
  gets beyond its parse any more, not even a restore (`EmptyStatsStopAll`).

## 5. Proofs

`DedupStoreProofs` proves, for every value of the constants that satisfies the
named assumptions of its modules (`WidthAssumption`, `ChunkAssumption`, `StoreAssumption`):
any chunks with positive lengths below the container size, any files, any mix of
tasks, any crash points, any version width and any number of tasks:

* `TypeCorrect`: `Spec => []TypeOK`;
* `InvHolds`: `Spec => []IInv`;
* `SoundUntilMishapHolds`, `DurableUntilMishapHolds`: its two consequences.

`SoundUntilMishap` (entries lead to their bytes, lists are exact) is not
inductive. What it needs besides, in `StoreInv`:
`Narrow` (offsets fit their width, so that `chunkOffsetDec` subtracts without
wrapping), `FileInv` (the index *file* is sound by itself while a write runs, for
a process that dies or ends early), `TablesInv` (a chunk is in one of the two
tables, and none is placed beyond the container being filled), `BufferInv` (the
reverse list in memory lists the container in memory, and nothing else of the
store is placed in a container whose list is about to be written) and
`ControlInv`. The heart of the argument is `DeleteChunk`: an exact, duplicate-free
list means that exactly the chunks behind the cut move, by the length of the
cut, so each keeps its bytes under its new offset; chunks before the cut do not
overlap it because an entry's bytes are its own cells. The other hard step is a
flush: the container of `cindex` is not in use, or the mishap `clobber` is noted.

The second part of the module follows the store over its whole life. Without any
further promise:

* `CountsUntilMishap`: until a mishap `RefCountsExact` holds. `CountInv` says more:
  all lists that refer to chunks (the recipes, the one in memory, the rest of the
  recipe being deleted) form a *shelf*, the table counts the places of the shelf, and
  while a write runs the index file counts the recipes alone;
* `RestorableUntilMishap`: until a mishap `VersionsRestorable` and
  `RecipesFaithful`, if `MaxTasks <= VersionMod`: with more writes the number of a
  version is cut to one that is taken;
* `ImplementsUntilMishap`: a behaviour in which no mishap happens is one of
  `VersionStore`, under the same assumption. `HistoryInv` connects what the user was
  told (`catalog`) with the bytes a restore would get; each step of `Next` is a save,
  a removal or a stutter there (`StepImplements`).

That no mishap happens needs promises of the user. It is proved from two sets of
them, those of the two runs that follow the life of a store:

* `SerialUse` (`serial_lifecycle`): serial writes and deletes only, no death, writes
  only while no version number is free (`DenseOnly`), and an index of at most
  `IndexCap` chunks, what `load()` reads. Then `SerialNoMishap`, `SerialCountsExact`,
  `SerialNoLeak`, `SerialContainersStay`, `SerialRestorable` and `SerialImplements`;
* writes of both kinds that may die before they save their recipe
  (`crash_before_recipe`), and nothing deleted: `CrashNoMishap`,
  `RestorableAfterCrash` and `CrashImplements`.

The argument for `SerialUse` is about container numbers. `getFilesNum` counts
container files and reverse lists, so it is twice the number of containers. A write
must not get a number in use, although deletes remove containers anywhere. The
invariant (`PrefixInv`): for every k, if the versions 0..k-1 are stored, the containers
they use have numbers below twice *how many those are*. A delete of version v leaves
this alone for k up to v and makes it empty above, until v is given out again as the
next number, which is what `DenseOnly` promises; without it `clobber` is possible.
Between tasks every container is used by some version, so the statement for
k = `getRecipesNum` says that the next number is free. `CellsInv` adds that each cell
of a container belongs to a chunk placed there, which is `NoLeak`.

`SyncQueueProofs` proves the type invariant, `SleepersHaveReason`, `WithinLimit`
and `FifoOnce` of `SyncQueueClients` for any numbers of producers, consumers and
pushes and any limit (0 means unlimited, as in the code).

`FullFileProofs` proves of `FullFileStore`, for any contents, buffer size and
number of tasks:

* `FullFileInv`: `Spec => []FInv`, and `OneLiveEntryHolds`, its consequence with
  deaths anywhere, between the two writes of an entry too, and either form of the path.
  A write looks before it appends, so the hash it leaves without a count is of a content
  with no live entry (`TornIsUnknown`); whatever completes the torn entry, it is the only
  one of that content, and what is out of step is of no content;
* `CountsAndFilesAgreeHolds`, for a path without a slash at the end, before the
  first death or unreadable input;
* `HeldUntilCrashHolds`, for the same;
* `FullFileImplements`: `Spec => ImplementsFileLibrary`, for a path without a slash at
  the end. The other two speak of the history of the users; this one relates each
  step to one of `FileLibrary`, or to none. That a save gives out a content nobody
  holds follows from `OneLiveEntry`, that its number is new from `SaveInHand`, that
  a delete gives up its own number from `DeleteFindsOwn`.

`CountsAndFilesAgree` speaks of idle moments only and is not part of the run, which has
`FInv` instead; `FInv` adds what holds in
between: the one count a running save is about to account for (`Pending`), the
one file without owner that a running removal is about to remove, and that a
live file's hash is its entry's. With it, a delete of a held id finds its own
entry (`DeleteFindsOwn`): the stored hash is the entry's, and `OneLiveEntry`
leaves no other match for the scan to stop at.

`RestoreProofs` proves of `RestoreTask`, for any stores, damaged in any way, any
recipes, old files, cache sizes and buffer (`RestoreAssumption`, and the
`StoreAssumption` of that module: an entry's length is below the buffer and a
container):

* `ContainerCacheAgreesHolds`: set, queue and map name the same containers, once
  each and not too many, and the map holds what is on disk (`CacheInv`);
* `LruInStepHolds`: each cached chunk has exactly its own place in the LRU stack
  (`InStep`). The step is that a hit or an eviction removes one place of one chunk,
  because stamps are distinct and none is ahead of `LRUtimestamp`;
* `TruncationNoticedHolds`: a restore through the container cache that met a container
  shorter than an entry says does not end as `done`;
* `BufferFitsHolds`: no copy leaves the assembling buffer. For the loop the argument
  is local; for forward assembly the invariant `FaaInv` places the
  entries of the recipe buffer one behind the other and the last within the buffer;
* `ImplementsRestorationHolds`: `RestoreTask` implements `Restoration`. The content is laid out
  once (`Laid`): a function says how much of it the first k chunks of the recipe make up. From it
  the invariant (`PlaceInv`) tells at every step how far the file has come, that the buffer
  holds the bytes that follow (`Collected`), and, in forward assembly, which entry tells of which
  chunk at which place (`Assembling`); when no entry is unused, every place of the buffer lies in
  one of them. A hit of the chunk cache serves the right chunk because the key of a cached chunk
  belongs to no other (`HeldInv`, `Sound`); a hit or miss of the container cache because
  chunks lie within the first `ContainerSize` bytes, which is all that is cached. `Sound` says
  both, and that lengths in the index are those of the chunks: a length that is too great in a
  container that is too short can pass the size check of `main.cpp:592`.

`PipelineProofs` proves of `Pipeline`, for any files, block and chunk sizes and queue limits:

* `NoAbortHolds` and `WindowFitsHolds`. The pops of the code test what
  they got only in part, so that no abort rests on where the marks `FILE_START` and
  `FILE_END` are. The invariant says where: before its end the read queue has a start only in
  front and an end only behind (`ReadInv`), and of the chunk queue, the hash thread's hand, the
  hash queue and the dedup thread exactly one has the end, with nothing behind it (`EndInv`). A
  queue is terminated by its only producer after that mark, so its consumer has seen the mark
  before it could be given NULL. `WindowInv` bounds `buf_off + rest_size`;
* `BytesInOrderHolds`. The invariant (`StreamInv`) names four positions in the file: how far the
  recipe has come, what the hash thread has handed on, what it has taken, and where the window of
  the chunk thread begins. Each queue and each hand is a line of pieces from one position to the
  next (`Line`), so that a step moves one position and the pieces between two others stay. The
  recipe's chunks are moreover those of the whole file: the window is cut only when it
  holds the longest chunk or the rest of the file, and then the cut is the same;
* `DoneMeansStoredHolds`. `MainInv` says that the counters of main are the sums of what the dedup
  thread has stored, modulo the width of an int, and that main is told after the recipe is saved;
  `PushInv` which thread can be inside a push on which queue;
* `ImplementsChunkStreamHolds`: the pipeline implements `ChunkStream`, step by step. Only
  the dedup thread's two writes, of a chunk and of the end, are seen there.

`MerkleProofs` proves `HashesOnceHolds` (of the hashes one read of a level file takes in
none comes again, there or behind them, through deaths and retries), `TreeCoversHolds`
(every level covers the one below once and in order) and `FoundHasReasonHolds`, for any
files, group size, number of levels and paths that work. For the last, each chunk has one way up through the tree
(`OneWay`), and the stack holds at most one place on it; while it holds one, the chunk
still counts as found and the walk has stopped nowhere on the way; after that `found`
says which of the two reasons there was (`ReasonInv`). That a known node ends in a chunk
above which a walk has been at the same level rests on two facts: a node's hash tells
its level and the last chunk below it (`GroupedHashed`, `Level1Hashed`, `EndsLevels`,
`HashIsOfLast`), and every hash of a level file was put there by such a walk (`BegunInv`).

`ChunkingProofs` proves, for any file, sizes, masks and gear table:

* `ChunksTileHolds`: a chunker returns at most what data there is and at most its longest
  chunk (`ChunkingWithin`), because the average, which earlier calls may have lowered, never
  exceeds the configured one;
* `BlocksAlikeHolds` and `ContentDefinedHolds`. They compare the chunks with a cutting of the
  same bytes from nothing, which has an average of its own. `AloneInv` says that from every cut
  of the block on, the chunks so far are the first ones of that cutting, and that the two
  averages are equal or both no less than what is left of the block (`Alike`). They may
  differ: the end of a block lowers the loop's average, while a cutting from nothing begins
  with the configured one. But then the chunker cannot tell them apart (`AlikeCuts`).

`ProgramProofs` proves of `Program`, for any configurations and widths of an int:

* `EmptyStatsStopAllHolds`;
* `ActsAsToldHolds`. The parse of a text is followed member by member: after n of them a
  configuration that is alive shows of each name what the last member of that name gave
  (`Shows`), and a run keeps its text and its configuration to its end (`Configured`);
* `StatsAddUpHolds`, for both builds. As the program is built the counters in memory and in
  the file are those of `base` (`BuiltInv`), because a number that an `int` holds is read back as
  it was saved (`ParsedAsIs`). With `ENABLE_COMPRESSION` they are, while a run is under way, those
  of the file, and from its report on those plus its own write (`CountersInv`); a sum that wraps
  around at every addition wraps around as a whole (`ToIntAdd`).

Where a fact about a recursive function is needed for every number (the start of a
group, the levels above a chunk, the entries of forward assembly), it is proved through
the least number at which it fails (`HasLeast`, `Reached`).

Every safety property of the passing runs is a theorem. Only model-checked are the five
liveness properties, `ConsumersReturn`, `PushesReturn`, `Finishes`, `Terminates` and
`CutsEverything`, which need fairness and `ENABLED`, out of the prover's reach.

## 6. Left out

* uthash, which no path of the program uses; the inside of cJSON, of which `CJSON` has
  what the program relies on; LZ4 and SHA-1 (no collisions).
* A configuration file that is missing: its buffer is then read uninitialised.
* Two processes at once on one store: no lock exists, so nothing is promised.
* Failing system calls (a full disk, a missing directory): the code prints and
  exits or ignores them.
* Inside a step: the moment between `remove` and `rename` in `del_seg`, when the container
  exists under its temporary name, and a recipe that is half written.
* `container_inner_index` in `DedupStore`, and chunk lengths of 65536 and more, which
  `ChunksTile` names as its limit.
* Full files that exceed `FILE_CACHE` (only a prefix is hashed) or what one `sendfile` copies;
  a death inside one of the two writes of an entry; the wrap of a file's count at 2^32.
* In `Program`, a full-file task without the paths of its store, which it cannot open; an
  `InputFile` that is given can be opened there.
* The ratios of the statistics, which follow from the counters; times and the job
  control fields nobody writes; the reading benchmark and the scripts, but for the one that clears
  the counters.

## 7. Plan

`DedupStore`, finer: `del_seg` with its temporary file, recipes written entry by
entry, two processes at once.
