------------------------------ MODULE DedupStore ------------------------------
(***************************************************************************)
(* The life of the chunk store of cDedup: main.cpp (serial write, delete)  *)
(* and src/pipeline_dedup.cpp (pipelined write) as tasks that run one      *)
(* after the other, each a process of its own.  What one task leaves for   *)
(* the next is on disk: the containers with their reverse lists, the       *)
(* recipes and the fingerprint index.                                      *)
(***************************************************************************)
EXTENDS MetadataManager, Containers

CONSTANTS
    Files,        \* the files a user may store, as sequences of chunks
    Tasks,        \* the task types the user runs
    CrashPoints,  \* the program points at which a process may die
    DenseOnly,    \* TRUE: the user only writes when no version number is free
    VersionMod,   \* number of values of uint8_t, the type of a version number
    MaxTasks      \* bound on the number of tasks

WriteTasks == {"write", "write_pipeline"}
PCs == {"idle", "loop", "rev", "trunc", "save", "del"}
Mishap == {"clobber", "norev", "fatal", "undefined", "crash", "lostindex"}

ASSUME StoreAssumption ==
    /\ Files \subseteq Seq(Chunk)
    /\ Tasks \subseteq WriteTasks \cup {"delete"}
    /\ CrashPoints \subseteq PCs \ {"idle"}
    /\ DenseOnly \in BOOLEAN
    /\ VersionMod \in Nat \ {0}
    /\ MaxTasks \in Nat
    /\ ContainerSize <= U32

VARIABLES
    containers,  \* Containers/containerN
    revs,        \* Containers/containerNr: the chunks its first count slots list
    recipes,     \* FileRecipes/recipeN
    index,       \* fingerprints.meta
    pc,          \* where the running process is
    task,        \* its task type
    target,      \* the version it writes or deletes
    todo,        \* the chunks of the input or of the recipe still to process
    recipe,      \* file_recipe
    origin,      \* fp_table_origin
    added,       \* fp_table_added
    cindex,      \* container_index
    cbuf,        \* container_buf up to container_buf_pointer
    rbuf,        \* rev_container_buf up to rev_container_cnt (serial write)
    revCnt,      \* rev_container_cnt (delete)
    catalog,     \* history: the versions whose tasks reported success
    ntasks,      \* history: the tasks started
    mishaps      \* history: what went wrong so far

disk == <<containers, revs, recipes, index>>
tables == <<origin, added>>
buffers == <<cindex, cbuf, rbuf, revCnt>>
input == <<task, target, todo, recipe>>
vars == <<disk, pc, input, tables, buffers, catalog, ntasks, mishaps>>

RecipesNum == Cardinality(DOMAIN recipes)

\* Mutant: containers are numbered like versions.
FilesNum_Recipes == RecipesNum

\* getFilesNum: a container and its reverse list count as two files.
FilesNum == Cardinality(DOMAIN containers) + Cardinality(DOMAIN revs)
Dense == DOMAIN recipes = 0..(RecipesNum - 1)

\* getRecipeNameFromVersion: the version is cut to uint8_t on the way.
RecipeFile(v) == v % VersionMod

Put(f, x, y) == [z \in DOMAIN f \cup {x} |-> IF z = x THEN y ELSE f[z]]
Drop(f, x) == Restrict(f, DOMAIN f \ {x})
Note(S) == mishaps' = mishaps \cup S
EmptyFile == [n \in {} |-> <<>>]

Init ==
    /\ containers = EmptyFile /\ revs = EmptyFile /\ recipes = EmptyFile
    /\ index = EmptyTable
    /\ pc = "idle" /\ task = "none" /\ target = 0 /\ todo = <<>> /\ recipe = <<>>
    /\ origin = EmptyTable /\ added = EmptyTable
    /\ cindex = 0 /\ cbuf = <<>> /\ rbuf = <<>> /\ revCnt = 0
    /\ catalog = EmptyFile /\ ntasks = 0 /\ mishaps = {}

\* A process that ends takes its memory along.
Exit ==
    /\ pc' = "idle" /\ task' = "none" /\ target' = 0 /\ todo' = <<>> /\ recipe' = <<>>
    /\ origin' = EmptyTable /\ added' = EmptyTable
    /\ cindex' = 0 /\ cbuf' = <<>> /\ rbuf' = <<>> /\ revCnt' = 0

\* main: the index is loaded only when there is a recipe.  Past undefined
\* behaviour nothing is said of the store.
LoadIndex ==
    /\ pc = "idle" /\ ntasks < MaxTasks /\ "undefined" \notin mishaps
    /\ origin' \in IF DOMAIN recipes = {} THEN {EmptyTable} ELSE load(index)
    /\ ntasks' = ntasks + 1
    /\ Note(IF origin' = index THEN {} ELSE {"lostindex"})
    /\ added' = EmptyTable

(***************************************************************************)
(* Write: the chunks of the input one after the other, then the flushes.   *)
(***************************************************************************)
StartWrite(kind, file) ==
    /\ kind \in Tasks
    /\ DenseOnly => Dense
    /\ LoadIndex
    /\ pc' = "loop" /\ task' = kind /\ todo' = file
    /\ cindex' = FilesNum
    /\ UNCHANGED <<disk, target, recipe, cbuf, rbuf, revCnt, catalog>>

DedupChunk ==
    /\ pc = "loop" /\ todo # <<>>
    /\ LET c == Head(todo) IN
         /\ IsDedup(origin, added, c)
         /\ added' = IF c \in DOMAIN added THEN addRefCnt(added, c) ELSE added
         /\ origin' = IF c \in DOMAIN added THEN origin ELSE addRefCnt(origin, c)
         /\ recipe' = Append(recipe, c)
    /\ todo' = Tail(todo)
    /\ UNCHANGED <<disk, pc, task, target, buffers, catalog, ntasks, mishaps>>

\* A new chunk that fits: it goes to the buffer and into the index.
UniqueChunk ==
    /\ pc = "loop" /\ todo # <<>>
    /\ LET c == Head(todo) IN
         /\ ~IsDedup(origin, added, c) /\ ~Full(cbuf, c)
         /\ added' = addNewEntry(added, c, Entry(cindex, Len(cbuf), ChunkLen[c], 1))
         /\ cbuf' = AppendChunk(cbuf, c)
         /\ rbuf' = IF task = "write" THEN Append(rbuf, c) ELSE rbuf
         /\ recipe' = Append(recipe, c)
    /\ todo' = Tail(todo)
    /\ UNCHANGED <<disk, pc, task, target, origin, cindex, revCnt, catalog, ntasks, mishaps>>

\* Mutant: the last, partly filled container is forgotten.
FlushDue_NoTail ==
    todo # <<>> /\ ~IsDedup(origin, added, Head(todo)) /\ Full(cbuf, Head(todo))

FlushDue ==
    IF todo = <<>> THEN cbuf # <<>>
    ELSE ~IsDedup(origin, added, Head(todo)) /\ Full(cbuf, Head(todo))

\* saveContainer up to its first close; saveContainerBuf and resetContainerBuf
\* of the pipeline, which writes no reverse list.
SaveContainer ==
    /\ pc = "loop" /\ FlushDue
    /\ LET old == IF cindex \in DOMAIN containers THEN containers[cindex] ELSE <<>>
       IN  containers' = Put(containers, cindex, Overlay(cbuf, old))
    /\ Note(IF cindex \in DOMAIN containers \cup DOMAIN revs THEN {"clobber"} ELSE {})
    /\ \/ /\ task = "write" /\ pc' = "rev"
          /\ UNCHANGED <<cindex, cbuf>>
       \/ /\ task = "write_pipeline" /\ pc' = "loop"
          /\ cindex' = cindex + 1 /\ cbuf' = <<>>
    /\ UNCHANGED <<revs, recipes, index, input, tables, rbuf, revCnt, catalog, ntasks>>

\* The rest of saveContainer and the reset of saveChunkToContainer.  The list
\* is preceded by its count, so that no old list shows through.
SaveRev ==
    /\ pc = "rev"
    /\ revs' = Put(revs, cindex, rbuf)
    /\ cindex' = cindex + 1 /\ cbuf' = <<>> /\ rbuf' = <<>>
    /\ pc' = "loop"
    /\ UNCHANGED <<containers, recipes, index, input, tables, revCnt, catalog, ntasks, mishaps>>

\* saveFileRecipe: the new version's number is the number of recipes.
SaveRecipe ==
    /\ pc = "loop" /\ todo = <<>> /\ ~FlushDue
    /\ LET n == RecipesNum
           old == IF n \in DOMAIN recipes THEN recipes[n] ELSE <<>>
       IN  /\ recipes' = Put(recipes, n, Overlay(recipe, old))
           /\ Note(IF n \in DOMAIN recipes THEN {"clobber"} ELSE {})
           /\ target' = n
    /\ pc' = "trunc"
    /\ UNCHANGED <<containers, revs, index, task, todo, recipe, tables, buffers, catalog, ntasks>>

(***************************************************************************)
(* MetadataManager::save, for both kinds of task.                          *)
(***************************************************************************)
TruncIndex ==
    /\ pc = "trunc"
    /\ index' = EmptyTable
    /\ pc' = "save"
    /\ UNCHANGED <<containers, revs, recipes, input, tables, buffers, catalog, ntasks, mishaps>>

SaveIndex ==
    /\ pc = "save"
    /\ index' = save(origin, added)
    /\ catalog' = IF task = "delete" THEN Drop(catalog, target)
                                     ELSE Put(catalog, target, recipe)
    /\ Exit
    /\ UNCHANGED <<containers, revs, recipes, ntasks, mishaps>>

(***************************************************************************)
(* Delete: every chunk reference of the recipe is released, the last one   *)
(* of a chunk together with its bytes; then the recipe goes.               *)
(***************************************************************************)
StartDelete(v) ==
    /\ "delete" \in Tasks
    /\ RecipeFile(v) \in DOMAIN recipes
    /\ LoadIndex
    /\ pc' = "del" /\ task' = "delete" /\ target' = v
    /\ todo' = recipes[RecipeFile(v)]
    /\ UNCHANGED <<disk, recipe, buffers, catalog>>

DeleteRef ==
    /\ pc = "del" /\ todo # <<>>
    /\ Head(todo) \in DOMAIN origin /\ origin[Head(todo)].ref_cnt > 1
    /\ origin' = decRefCnt(origin, Head(todo))
    /\ todo' = Tail(todo)
    /\ UNCHANGED <<disk, pc, task, target, recipe, added, buffers, catalog, ntasks, mishaps>>

ReleasesLast ==
    /\ pc = "del" /\ todo # <<>>
    /\ Head(todo) \in DOMAIN origin /\ origin[Head(todo)].ref_cnt <= 1

\* What container_del_chunk reads of the reverse list of container n.  When
\* there is none, rev_container_cnt keeps what the process last had in it.
HasRev(n) == n \in DOMAIN revs /\ revs[n] # <<>>
RevCount(n) == IF HasRev(n) THEN Len(revs[n]) ELSE revCnt
Listed(n) == IF HasRev(n) THEN Range(revs[n]) ELSE {}

\* Mutant: the slot of the last entry, not of the deleted one.
d_pos_Last(n, c) == Len(revs[n]) - 1

d_pos(n, c) == CHOOSE p \in 0..(Len(revs[n]) - 1) : revs[n][p + 1] = c

\* Its first half: the bytes of the chunk with entry e leave the container.
CutContainer(e) ==
    LET n == e.container_number
        file == IF n \in DOMAIN containers THEN containers[n] ELSE <<>>
    IN  containers' =
          IF n \in DOMAIN containers /\ CutRemovesFile(file, e.offset, e.chunk_length)
          THEN Drop(containers, n)
          ELSE Put(containers, n, del_seg(file, e.offset, e.chunk_length))

\* decRefCnt to zero and the whole of container_del_chunk.
DeleteChunk ==
    /\ ReleasesLast
    /\ LET c == Head(todo)
           e == origin[c]
           n == e.container_number
           left == decRefCnt(origin, c)
       IN  /\ CutContainer(e)
           /\ \/ /\ RevCount(n) = 1
                 /\ revs' = Drop(revs, n) /\ origin' = left
                 /\ revCnt' = 1
              \/ /\ HasRev(n) /\ RevCount(n) > 1
                 /\ c \in Listed(n) /\ Listed(n) \ {c} \subseteq DOMAIN left
                 /\ origin' = chunkOffsetDec(left, Listed(n) \ {c}, e.offset, e.chunk_length)
                 /\ revs' = Put(revs, n, del_seg(revs[n], d_pos(n, c), 1))
                 /\ revCnt' = RevCount(n) - 1
              \/ /\ RevCount(n) = 0
                 /\ revs' = Put(revs, n, <<>>) /\ origin' = left
                 /\ revCnt' = U32 - 1
           /\ Note(IF HasRev(n) THEN {} ELSE {"norev"})
    /\ todo' = Tail(todo)
    /\ UNCHANGED <<recipes, index, pc, task, target, recipe, added, cindex, cbuf, rbuf, catalog, ntasks>>

\* exit(-1): the recipe names a chunk the index does not know, or the reverse
\* list does, after the container was cut.
DeleteFatal ==
    /\ \/ /\ pc = "del" /\ todo # <<>> /\ Head(todo) \notin DOMAIN origin
          /\ UNCHANGED containers
       \/ /\ ReleasesLast
          /\ LET e == origin[Head(todo)]
                 n == e.container_number
             IN  /\ HasRev(n) /\ RevCount(n) > 1
                 /\ ~(Listed(n) \subseteq DOMAIN origin)
                 /\ CutContainer(e)
    /\ Note({"fatal"})
    /\ Exit
    /\ UNCHANGED <<revs, recipes, index, catalog, ntasks>>

\* The loop reads fingerprints nobody wrote, or cuts the list at slot -1.
DeleteUndefined ==
    /\ ReleasesLast
    /\ LET c == Head(todo)
           n == origin[c].container_number
       IN  /\ RevCount(n) > 1
           /\ HasRev(n) => c \notin Listed(n) /\ Listed(n) \subseteq DOMAIN origin
    /\ Note({"undefined"})
    /\ Exit
    /\ UNCHANGED <<disk, catalog, ntasks>>

Unlink ==
    /\ pc = "del" /\ todo = <<>>
    /\ recipes' = Drop(recipes, RecipeFile(target))
    /\ pc' = "trunc"
    /\ UNCHANGED <<containers, revs, index, input, tables, buffers, catalog, ntasks, mishaps>>

\* The process dies.  In the middle of save() a part of the entries is in the
\* file, the added ones first.  The user of a delete that died no longer
\* counts on the version.
Crash ==
    /\ pc \in CrashPoints
    /\ IF pc = "save"
       THEN \E s \in SUBSET (DOMAIN added \cup DOMAIN origin) :
              /\ s \subseteq DOMAIN added \/ DOMAIN added \subseteq s
              /\ index' = Restrict(save(origin, added), s)
       ELSE UNCHANGED index
    /\ catalog' = IF task = "delete" THEN Drop(catalog, target) ELSE catalog
    /\ Note(IF task = "delete" \/ pc \in {"trunc", "save"} THEN {"crash"} ELSE {})
    /\ Exit
    /\ UNCHANGED <<containers, revs, recipes, ntasks>>

Next ==
    \/ \E kind \in WriteTasks, file \in Files : StartWrite(kind, file)
    \/ DedupChunk \/ UniqueChunk \/ SaveContainer \/ SaveRev \/ SaveRecipe
    \/ \E v \in DOMAIN catalog \cup DOMAIN recipes : StartDelete(v)
    \/ DeleteRef \/ DeleteChunk \/ DeleteFatal \/ DeleteUndefined \/ Unlink
    \/ TruncIndex \/ SaveIndex
    \/ Crash

Spec == Init /\ [][Next]_vars

-------------------------------------------------------------------------------
(***************************************************************************)
(* Properties.                                                             *)
(***************************************************************************)
\* Every variable is what the code's types say.
TypeOK ==
    /\ containers \in [DOMAIN containers -> Seq(Cell)]
    /\ DOMAIN containers \subseteq Nat /\ IsFiniteSet(DOMAIN containers)
    /\ revs \in [DOMAIN revs -> Seq(Chunk)]
    /\ DOMAIN revs \subseteq Nat /\ IsFiniteSet(DOMAIN revs)
    /\ recipes \in [DOMAIN recipes -> Seq(Chunk)]
    /\ DOMAIN recipes \subseteq Nat /\ IsFiniteSet(DOMAIN recipes)
    /\ catalog \in [DOMAIN catalog -> Seq(Chunk)] /\ DOMAIN catalog \subseteq Nat
    /\ \A table \in {index, origin, added} :
         DOMAIN table \subseteq Chunk /\ table \in [DOMAIN table -> EntryType]
    /\ pc \in PCs
    /\ task \in WriteTasks \cup {"delete", "none"}
    /\ target \in Nat
    /\ todo \in Seq(Chunk) /\ recipe \in Seq(Chunk) /\ rbuf \in Seq(Chunk)
    /\ cindex \in Nat /\ cbuf \in Seq(Cell) /\ revCnt \in Nat
    /\ ntasks \in Nat /\ mishaps \subseteq Mishap

\* The index as the running task sees it, or as the next one will load it.
Table == IF pc = "idle" THEN index ELSE save(origin, added)

\* The bytes an entry points at are those of its chunk.
StoredAt(file, e, c) ==
    /\ e.chunk_length = ChunkLen[c]
    /\ e.offset + ChunkLen[c] <= Len(file)
    /\ \A i \in 1..ChunkLen[c] : file[e.offset + i] = <<c, i>>

OnDisk(table, c) ==
    LET n == table[c].container_number
    IN  n \in DOMAIN containers /\ StoredAt(containers[n], table[c], c)

\* The chunks of the container that is still being filled.
Buffered(c) ==
    pc = "loop" /\ c \in DOMAIN added /\ added[c].container_number = cindex

\* Every entry of the index leads to its own chunk, however far containers
\* have been filled, flushed and cut and offsets moved (saveChunkToContainer,
\* container_del_chunk, chunkOffsetDec).
EntriesIntact ==
    \A c \in DOMAIN Table :
       IF Buffered(c) THEN StoredAt(cbuf, added[c], c) ELSE OnDisk(Table, c)

\* The reverse list of a container the index uses lists, each once, exactly
\* the chunks the index places in the file: what container_del_chunk relies on
\* when it moves the offsets of "the others".
Exact(n, placed) == placed # {} => Range(revs[n]) = placed /\ IsInjective(revs[n])
Placed(table, n) == {c \in DOMAIN table : table[c].container_number = n}

RevExact ==
    \A n \in DOMAIN revs : Exact(n, {c \in Placed(Table, n) : ~Buffered(c)})

\* Without a mishap both hold at every step of every task, and so a restore
\* that starts from the index finds the right bytes.
SoundUntilMishap == mishaps = {} => EntriesIntact /\ RevExact

\* Nothing goes wrong: no file is written over, no container lacks its list,
\* no task stops at one of its own error exits.
NoMishap == mishaps = {}

\* The chunk references the store holds: those of the recipes, less what a
\* running delete has released, and those of the file being written.
Live(v) == IF task = "delete" /\ v = RecipeFile(target) THEN todo ELSE recipes[v]

Positions(s, c) == {i \in DOMAIN s : s[i] = c}
Holders(c) ==
    (UNION { {v} \X Positions(Live(v), c) : v \in DOMAIN recipes })
    \cup ({-1} \X Positions(IF pc \in {"loop", "rev"} THEN recipe ELSE <<>>, c))

\* addRefCnt and decRefCnt count references exactly, over repeats inside one
\* file and across versions, and a chunk leaves the index with the last one.
RefCountsExact ==
    \A c \in Chunk :
      /\ c \in DOMAIN Table <=> Holders(c) # {}
      /\ c \in DOMAIN Table => Table[c].ref_cnt = Cardinality(Holders(c))

\* Between tasks every byte in a container belongs to a chunk of the index, at
\* its place: deleted data gives its space back, down to the empty store, and
\* no write leaves bytes behind.
NoLeak ==
    pc = "idle" =>
      /\ DOMAIN revs = DOMAIN containers
      /\ \A n \in DOMAIN containers :
           /\ containers[n] # <<>>
           /\ \A i \in DOMAIN containers[n] :
                LET c == containers[n][i][1] IN
                  /\ c \in DOMAIN index
                  /\ index[c].container_number = n
                  /\ index[c].offset + containers[n][i][2] = i

\* While no task runs, a version the user was told is stored is found under
\* its number, with every chunk of the file in the index and on disk.
VersionsRestorable ==
    pc = "idle" =>
      \A v \in DOMAIN catalog :
        /\ RecipeFile(v) \in DOMAIN recipes
        /\ recipes[RecipeFile(v)] = catalog[v]
        /\ \A c \in Range(catalog[v]) : c \in DOMAIN index /\ OnDisk(index, c)

\* Data before metadata: at every step of a write the index file names only
\* chunks that are in the containers on disk, so that a process that dies
\* leaves no dangling entry.
Durable(table) == \A c \in DOMAIN table : OnDisk(table, c)
DurableUntilMishap == mishaps = {} /\ task # "delete" => Durable(index)

\* A write never changes a container that is on disk (deduplicated chunks of
\* other versions live there).
FlushedContainersStay ==
    [][(task \in WriteTasks) =>
         Restrict(containers', DOMAIN containers) = containers]_vars

\* main.cpp:348 calls the recipe the fingerprints of all chunks of this file:
\* the recipe of a stored version lists its chunks and no others.
RecipesFaithful ==
    pc = "idle" =>
      \A v \in DOMAIN catalog : v \in DOMAIN recipes /\ recipes[v] = catalog[v]

-------------------------------------------------------------------------------
(***************************************************************************)
(* The inductive invariant behind SoundUntilMishap and DurableUntilMishap. *)
(***************************************************************************)
\* Offsets fit uint32_t, so that moving one forward does not wrap.
Narrow(table) == \A c \in DOMAIN table : table[c].offset < U32

\* The index file is sound by itself whenever a write may die.
FileInv ==
    task # "delete" =>
      /\ Durable(index) /\ Narrow(index)
      /\ \A n \in DOMAIN revs : Exact(n, Placed(index, n))

\* A chunk is in one table only, and none is placed beyond the container
\* being filled.
TablesInv ==
    /\ DOMAIN origin \cap DOMAIN added = {}
    /\ \A c \in DOMAIN added : added[c].container_number <= cindex

\* The reverse list in memory lists what is in the container in memory; after
\* the container is flushed nothing else of the store is in it.
BufferInv ==
    /\ task = "write" /\ pc \in {"loop", "rev"} =>
         Range(rbuf) = Placed(added, cindex) /\ IsInjective(rbuf)
    /\ pc = "rev" =>
         /\ task = "write"
         /\ Placed(origin, cindex) = {} /\ Placed(index, cindex) = {}

ControlInv ==
    /\ pc = "idle" <=> task = "none"
    /\ pc = "idle" => rbuf = <<>>
    /\ pc = "del" => task = "delete" /\ added = EmptyTable
    /\ pc = "loop" => task \in WriteTasks
    /\ pc = "rev" => task = "write"

StoreInv ==
    /\ EntriesIntact /\ RevExact /\ Narrow(Table)
    /\ FileInv /\ TablesInv /\ BufferInv

\* All of it, as long as nothing went wrong.
IInv == TypeOK /\ ControlInv /\ (mishaps = {} => StoreInv)
=============================================================================
