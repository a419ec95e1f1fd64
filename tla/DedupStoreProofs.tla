--------------------------- MODULE DedupStoreProofs ---------------------------
(***************************************************************************)
(* What holds of DedupStore for all values of its constants.  The first    *)
(* part has its types, and that the index leads every chunk to its own     *)
(* bytes until one of the named mishaps happens.  The second has the store *)
(* over its whole life: until a mishap reference counts are exact and      *)
(* versions restorable; a store of writes that may die early, and one that *)
(* is written serially and deleted from, have no mishap at all, and the    *)
(* second leaks nothing; a store without a mishap implements VersionStore. *)
(***************************************************************************)
EXTENDS DedupStoreRefinement, FiniteSetTheorems, SequenceTheorems, TLAPS

-------------------------------------------------------------------------------
(***************************************************************************)
(* Sequences, partial functions and tables.                                *)
(***************************************************************************)
\* A function on 1..n is a sequence of length n.
LEMMA SeqOfFunction ==
    ASSUME NEW S, NEW n \in Nat, NEW s \in [1..n -> S]
    PROVE  s \in Seq(S) /\ Len(s) = n /\ DOMAIN s = 1..n
BY SeqDef

\* A sequence is a function on 1..Len.
LEMMA FunctionOfSeq ==
    ASSUME NEW S, NEW s \in Seq(S)
    PROVE  Len(s) \in Nat /\ DOMAIN s = 1..Len(s) /\ s \in [1..Len(s) -> S]
OBVIOUS

LEMMA OverlayType ==
    ASSUME NEW S, NEW new \in Seq(S), NEW old \in Seq(S)
    PROVE  Overlay(new, old) \in Seq(S)
<1> DEFINE n == Larger(Len(new), Len(old))
<1>1. n \in Nat BY DEF Larger
<1>2. Overlay(new, old) \in [1..n -> S]
  BY FunctionOfSeq DEF Overlay, Larger
<1> QED BY <1>1, <1>2, SeqOfFunction

LEMMA AppendChunkType ==
    ASSUME NEW buf \in Seq(Cell), NEW c \in Chunk
    PROVE  /\ AppendChunk(buf, c) \in Seq(Cell)
           /\ Len(AppendChunk(buf, c)) = Len(buf) + ChunkLen[c]
<1> DEFINE n == Len(buf) + ChunkLen[c]
<1>1. n \in Nat BY ChunkAssumption
<1>2. AppendChunk(buf, c) \in [1..n -> Cell]
  <2> SUFFICES ASSUME NEW i \in 1..n
               PROVE  (IF i <= Len(buf) THEN buf[i] ELSE <<c, i - Len(buf)>>) \in Cell
    BY DEF AppendChunk
  <2>1. CASE i <= Len(buf) BY <2>1, FunctionOfSeq
  <2>2. CASE i > Len(buf) BY <2>2, <1>1 DEF Cell
  <2> QED BY <2>1, <2>2, <1>1
<1> QED BY <1>1, <1>2, SeqOfFunction

LEMMA DelSegType ==
    ASSUME NEW file \in Seq(Cell), NEW oft \in Nat, NEW len \in Nat
    PROVE  /\ del_seg(file, oft, len) \in Seq(Cell)
           /\ Len(del_seg(file, oft, len)) = oft + Rest(file, oft, len)
<1> DEFINE n == oft + Rest(file, oft, len)
<1>1. n \in Nat /\ Rest(file, oft, len) \in Nat BY DEF Rest
<1>2. <<Junk, 0>> \in Cell BY DEF Cell
<1>3. del_seg(file, oft, len) \in [1..n -> Cell]
  <2> SUFFICES ASSUME NEW i \in 1..n
               PROVE  (IF i <= oft THEN IF i <= Len(file) THEN file[i] ELSE <<Junk, 0>>
                       ELSE file[i + len]) \in Cell
    BY DEF del_seg
  <2>1. CASE i <= oft BY <2>1, <1>2, FunctionOfSeq
  <2>2. CASE i > oft
    <3>1. i + len \in 1..Len(file) BY <2>2, <1>1 DEF Rest
    <3> QED BY <3>1, <2>2, <1>1, FunctionOfSeq
  <2> QED BY <2>1, <2>2, <1>1
<1> QED BY <1>1, <1>3, SeqOfFunction

LEMMA PutType ==
    ASSUME NEW S, NEW f, f \in [DOMAIN f -> S], NEW x, NEW y \in S
    PROVE  /\ Put(f, x, y) \in [DOMAIN Put(f, x, y) -> S]
           /\ DOMAIN Put(f, x, y) = DOMAIN f \cup {x}
           /\ Put(f, x, y)[x] = y
           /\ \A z \in DOMAIN f : z # x => Put(f, x, y)[z] = f[z]
BY DEF Put

LEMMA DropType ==
    ASSUME NEW S, NEW f, f \in [DOMAIN f -> S], NEW x
    PROVE  /\ Drop(f, x) \in [DOMAIN Drop(f, x) -> S]
           /\ DOMAIN Drop(f, x) = DOMAIN f \ {x}
           /\ \A z \in DOMAIN f : z # x => Drop(f, x)[z] = f[z]
BY DEF Drop, Restrict

\* The tables of MetadataManager, and what its operations keep of them.
TableType(table) == DOMAIN table \subseteq Chunk /\ table \in [DOMAIN table -> EntryType]

LEMMA EmptyTableType == TableType(EmptyTable) /\ DOMAIN EmptyTable = {}
BY DEF TableType, EmptyTable

LEMMA AddNewEntryType ==
    ASSUME NEW table, TableType(table), NEW c \in Chunk,
           NEW number \in Nat, NEW off \in Nat
    PROVE  TableType(addNewEntry(table, c, Entry(number, off, ChunkLen[c], 1)))
<1>1. ChunkLen[c] \in Nat BY ChunkAssumption
<1>2. Entry(number, off, ChunkLen[c], 1) \in EntryType BY <1>1 DEF Entry, EntryType
<1> QED BY <1>2 DEF TableType, addNewEntry

LEMMA WithRefCntType ==
    ASSUME NEW table, TableType(table), NEW c \in DOMAIN table, NEW cnt \in Nat
    PROVE  TableType(WithRefCnt(table, c, cnt))
<1>1. ASSUME NEW x \in DOMAIN table
      PROVE  [table[x] EXCEPT !.ref_cnt = cnt] \in EntryType
  BY DEF TableType, EntryType
<1> QED BY <1>1 DEF TableType, WithRefCnt

LEMMA RefCntTypes ==
    ASSUME NEW table, TableType(table), NEW c \in DOMAIN table
    PROVE  TableType(addRefCnt(table, c)) /\ TableType(decRefCnt(table, c))
<1>1. table[c].ref_cnt \in Nat BY DEF TableType, EntryType
<1>2. TableType(addRefCnt(table, c)) BY <1>1, WithRefCntType DEF addRefCnt
<1>3. CASE table[c].ref_cnt > 1
  <2>1. table[c].ref_cnt - 1 \in Nat BY <1>1, <1>3
  <2> QED BY <1>2, <1>3, <2>1, WithRefCntType DEF decRefCnt
<1>4. CASE ~(table[c].ref_cnt > 1)
  BY <1>2, <1>4 DEF decRefCnt, TableType, Restrict
<1> QED BY <1>3, <1>4

LEMMA ChunkOffsetDecType ==
    ASSUME NEW table, TableType(table), NEW chunks, NEW oft \in Nat, NEW len \in Nat
    PROVE  TableType(chunkOffsetDec(table, chunks, oft, len))
<1> SUFFICES ASSUME NEW x \in DOMAIN table
             PROVE  [table[x] EXCEPT !.offset = (@ - len) % U32] \in EntryType
  BY DEF TableType, chunkOffsetDec
<1>1. table[x] \in EntryType BY DEF TableType
<1>2. (table[x].offset - len) % U32 \in Nat
  BY <1>1, WidthAssumption DEF EntryType
<1> QED BY <1>1, <1>2 DEF EntryType

LEMMA RestrictTableType ==
    ASSUME NEW table, TableType(table), NEW s \in SUBSET DOMAIN table
    PROVE  TableType(Restrict(table, s))
BY DEF TableType, Restrict

LEMMA SaveType ==
    ASSUME NEW org, TableType(org), NEW add, TableType(add)
    PROVE  /\ TableType(save(org, add))
           /\ DOMAIN save(org, add) = DOMAIN org \cup DOMAIN add
BY DEF TableType, save

LEMMA LoadType ==
    ASSUME NEW file, TableType(file), NEW table \in load(file)
    PROVE  TableType(table)
<1>1. PICK s \in SUBSET DOMAIN file : table = Restrict(file, s) BY DEF load
<1> QED BY <1>1, RestrictTableType

-------------------------------------------------------------------------------
(***************************************************************************)
(* Type correctness.                                                       *)
(***************************************************************************)
LEMMA TablesTyped ==
    ASSUME TypeOK
    PROVE  TableType(index) /\ TableType(origin) /\ TableType(added)
BY DEF TypeOK, TableType

LEMMA NumbersTyped ==
    ASSUME TypeOK
    PROVE  FilesNum \in Nat /\ RecipesNum \in Nat
BY FS_CardinalityType DEF TypeOK, FilesNum, RecipesNum

\* The variables a process loses when it ends are well typed in an idle state.
LEMMA ExitType ==
    ASSUME Exit
    PROVE  /\ pc' \in PCs /\ task' \in WriteTasks \cup {"delete", "none"}
           /\ target' \in Nat /\ todo' \in Seq(Chunk) /\ recipe' \in Seq(Chunk)
           /\ rbuf' \in Seq(Chunk) /\ cindex' \in Nat /\ cbuf' \in Seq(Cell)
           /\ revCnt' \in Nat /\ TableType(origin') /\ TableType(added')
BY EmptyTableType DEF Exit, PCs

\* Putting a file into a directory and taking one away keep it well typed.
DirType(dir, S) ==
    dir \in [DOMAIN dir -> S] /\ DOMAIN dir \subseteq Nat /\ IsFiniteSet(DOMAIN dir)

LEMMA DirPut ==
    ASSUME NEW S, NEW dir, DirType(dir, S), NEW n \in Nat, NEW file \in S
    PROVE  DirType(Put(dir, n, file), S)
<1>1. Put(dir, n, file) \in [DOMAIN Put(dir, n, file) -> S]
      /\ DOMAIN Put(dir, n, file) = DOMAIN dir \cup {n}
  BY DEF DirType, Put
<1>2. IsFiniteSet(DOMAIN dir \cup {n}) BY FS_AddElement DEF DirType
<1> QED BY <1>1, <1>2 DEF DirType

LEMMA DirDrop ==
    ASSUME NEW S, NEW dir, DirType(dir, S), NEW n
    PROVE  DirType(Drop(dir, n), S)
<1>1. Drop(dir, n) \in [DOMAIN Drop(dir, n) -> S]
      /\ DOMAIN Drop(dir, n) = DOMAIN dir \ {n}
  BY DropType DEF DirType
<1>2. IsFiniteSet(DOMAIN dir \ {n}) BY FS_RemoveElement DEF DirType
<1> QED BY <1>1, <1>2 DEF DirType

LEMMA TypeInit == Init => TypeOK
<1> SUFFICES ASSUME Init PROVE TypeOK
  OBVIOUS
<1> USE EmptyTableType, FS_EmptySet
<1>1. EmptyFile \in [DOMAIN EmptyFile -> Seq(Cell)] /\ EmptyFile \in [DOMAIN EmptyFile -> Seq(Chunk)]
      /\ DOMAIN EmptyFile = {}
  BY DEF EmptyFile
<1> QED BY <1>1 DEF Init, TypeOK, PCs, Mishap, TableType

\* What a command line starts with.
LEMMA LoadIndexType ==
    ASSUME TypeOK, LoadIndex
    PROVE  /\ TableType(origin') /\ TableType(added')
           /\ ntasks' \in Nat /\ mishaps' \subseteq Mishap
<1>1. TableType(origin')
  BY TablesTyped, EmptyTableType, LoadType DEF LoadIndex
<1> QED BY <1>1, EmptyTableType DEF LoadIndex, Note, TypeOK, Mishap

\* The chunk at the head of the work list.
LEMMA HeadType ==
    ASSUME TypeOK, todo # <<>>
    PROVE  Head(todo) \in Chunk /\ Tail(todo) \in Seq(Chunk)
BY HeadTailProperties DEF TypeOK

LEMMA EntryFields ==
    ASSUME NEW table, TableType(table), NEW c \in DOMAIN table
    PROVE  /\ table[c] \in EntryType /\ c \in Chunk
           /\ table[c].container_number \in Nat /\ table[c].offset \in Nat
           /\ table[c].chunk_length \in Nat /\ table[c].ref_cnt \in Nat
BY DEF TableType, EntryType

LEMMA DirsTyped ==
    ASSUME TypeOK
    PROVE  DirType(containers, Seq(Cell)) /\ DirType(revs, Seq(Chunk)) /\ DirType(recipes, Seq(Chunk))
BY DEF TypeOK, DirType

LEMMA CutContainerType ==
    ASSUME TypeOK, NEW e \in EntryType, CutContainer(e)
    PROVE  DirType(containers', Seq(Cell))
<1> DEFINE n == e.container_number
           file == IF n \in DOMAIN containers THEN containers[n] ELSE <<>>
<1>1. n \in Nat /\ e.offset \in Nat /\ e.chunk_length \in Nat BY DEF EntryType
<1>2. file \in Seq(Cell) BY DEF TypeOK
<1>3. del_seg(file, e.offset, e.chunk_length) \in Seq(Cell) BY <1>1, <1>2, DelSegType
<1> QED BY <1>1, <1>3, DirsTyped, DirPut, DirDrop DEF CutContainer

\* Cutting one slot out of a reverse list leaves a reverse list.
LEMMA ListCut ==
    ASSUME NEW list \in Seq(Chunk), NEW p \in 0..(Len(list) - 1)
    PROVE  /\ del_seg(list, p, 1) \in Seq(Chunk)
           /\ Len(del_seg(list, p, 1)) = Len(list) - 1
           /\ \A i \in 1..(Len(list) - 1) :
                del_seg(list, p, 1)[i] = IF i <= p THEN list[i] ELSE list[i + 1]
<1>1. Len(list) \in Nat /\ p \in Nat BY FunctionOfSeq
<1>2. p + Rest(list, p, 1) = Len(list) - 1 BY <1>1 DEF Rest
<1> DEFINE s == [i \in 1..(Len(list) - 1) |-> IF i <= p THEN list[i] ELSE list[i + 1]]
<1>3. del_seg(list, p, 1) = s
  BY <1>1, <1>2 DEF del_seg
<1>4. s \in [1..(Len(list) - 1) -> Chunk] BY <1>1, FunctionOfSeq
<1>5. Len(list) - 1 \in Nat BY <1>1
<1> QED BY <1>3, <1>4, <1>5, SeqOfFunction


LEMMA TypeWrite ==
    ASSUME TypeOK,
           \/ \E kind \in WriteTasks, file \in Files : StartWrite(kind, file)
           \/ DedupChunk \/ UniqueChunk
    PROVE  TypeOK'
<1>1. ASSUME NEW kind \in WriteTasks, NEW file \in Files, StartWrite(kind, file)
      PROVE  TypeOK'
  <2>1. /\ TableType(origin') /\ TableType(added')
        /\ ntasks' \in Nat /\ mishaps' \subseteq Mishap
    BY <1>1, LoadIndexType DEF StartWrite
  <2>2. cindex' \in Nat /\ file \in Seq(Chunk)
    BY <1>1, NumbersTyped, StoreAssumption DEF StartWrite
  <2> QED BY <1>1, <2>1, <2>2 DEF StartWrite, TypeOK, TableType, disk, PCs
<1>2. CASE DedupChunk
  <2> DEFINE c == Head(todo)
  <2>1. c \in Chunk /\ Tail(todo) \in Seq(Chunk) BY <1>2, HeadType DEF DedupChunk
  <2>2. TableType(added') /\ TableType(origin')
    BY <1>2, TablesTyped, RefCntTypes DEF DedupChunk, IsDedup
  <2>3. recipe' \in Seq(Chunk) BY <1>2, <2>1, AppendProperties DEF DedupChunk, TypeOK
  <2> QED BY <1>2, <2>1, <2>2, <2>3 DEF DedupChunk, TypeOK, TableType, disk, buffers
<1>3. CASE UniqueChunk
  <2> DEFINE c == Head(todo)
  <2>1. c \in Chunk /\ Tail(todo) \in Seq(Chunk) BY <1>3, HeadType DEF UniqueChunk
  <2>2. Len(cbuf) \in Nat /\ cindex \in Nat BY DEF TypeOK
  <2>3. TableType(added') BY <1>3, <2>1, <2>2, TablesTyped, AddNewEntryType DEF UniqueChunk
  <2>4. recipe' \in Seq(Chunk) /\ rbuf' \in Seq(Chunk)
    BY <1>3, <2>1, AppendProperties DEF UniqueChunk, TypeOK
  <2>5. cbuf' \in Seq(Cell) BY <1>3, <2>1, AppendChunkType DEF UniqueChunk, TypeOK
  <2> QED BY <1>3, <2>1, <2>3, <2>4, <2>5 DEF UniqueChunk, TypeOK, TableType, disk
<1> QED BY <1>1, <1>2, <1>3

LEMMA TypeFlush ==
    ASSUME TypeOK, SaveContainer \/ SaveRev \/ SaveRecipe
    PROVE  TypeOK'
<1>1. CASE SaveContainer
  <2> DEFINE old == IF cindex \in DOMAIN containers THEN containers[cindex] ELSE <<>>
  <2>1. old \in Seq(Cell) BY DEF TypeOK
  <2>2. Overlay(cbuf, old) \in Seq(Cell) BY <2>1, OverlayType DEF TypeOK
  <2>3. DirType(containers', Seq(Cell))
    BY <1>1, <2>2, DirsTyped, DirPut DEF SaveContainer, TypeOK
  <2>4. mishaps' \subseteq Mishap BY <1>1 DEF SaveContainer, Note, TypeOK, Mishap
  <2>5. pc' \in PCs BY <1>1 DEF SaveContainer, PCs
  <2>6. cindex' \in Nat /\ cbuf' \in Seq(Cell)
    <3>1. cindex \in Nat /\ cbuf \in Seq(Cell) BY DEF TypeOK
    <3>2. \/ cindex' = cindex /\ cbuf' = cbuf
          \/ cindex' = cindex + 1 /\ cbuf' = <<>>
      BY <1>1 DEF SaveContainer
    <3>3. CASE cindex' = cindex /\ cbuf' = cbuf BY <3>1, <3>3
    <3>4. CASE cindex' = cindex + 1 /\ cbuf' = <<>>
      <4>1. cindex' \in Nat BY <3>1, <3>4
      <4>2. cbuf' \in Seq(Cell) BY <3>4
      <4> QED BY <4>1, <4>2
    <3> QED BY <3>2, <3>3, <3>4
  <2> QED BY <1>1, <2>3, <2>4, <2>5, <2>6 DEF SaveContainer, TypeOK, DirType, input, tables
<1>2. CASE SaveRev
  <2>1. DirType(revs', Seq(Chunk)) BY <1>2, DirsTyped, DirPut DEF SaveRev, TypeOK
  <2> QED BY <1>2, <2>1 DEF SaveRev, TypeOK, DirType, input, tables, PCs
<1>3. CASE SaveRecipe
  <2> DEFINE old == IF RecipesNum \in DOMAIN recipes THEN recipes[RecipesNum] ELSE <<>>
  <2>1. old \in Seq(Chunk) BY DEF TypeOK
  <2>2. Overlay(recipe, old) \in Seq(Chunk) BY <2>1, OverlayType DEF TypeOK
  <2>3. DirType(recipes', Seq(Chunk))
    BY <1>3, <2>2, NumbersTyped, DirsTyped, DirPut DEF SaveRecipe
  <2>4. mishaps' \subseteq Mishap BY <1>3 DEF SaveRecipe, Note, TypeOK, Mishap
  <2> QED BY <1>3, <2>3, <2>4, NumbersTyped DEF SaveRecipe, TypeOK, DirType, tables, buffers, PCs
<1> QED BY <1>1, <1>2, <1>3

LEMMA TypeSave ==
    ASSUME TypeOK, TruncIndex \/ SaveIndex \/ Crash
    PROVE  TypeOK'
<1>1. CASE TruncIndex
  BY <1>1, EmptyTableType DEF TruncIndex, TypeOK, TableType, input, tables, buffers, PCs
<1>2. CASE SaveIndex
  <2>1. TableType(index') BY <1>2, TablesTyped, SaveType DEF SaveIndex
  <2>2. /\ catalog' \in [DOMAIN catalog' -> Seq(Chunk)]
        /\ DOMAIN catalog' \subseteq Nat
    <3>1. CASE task = "delete"
      BY <1>2, <3>1 DEF SaveIndex, TypeOK, Drop, Restrict
    <3>2. CASE task # "delete"
      <4>1. catalog' = Put(catalog, target, recipe) BY <1>2, <3>2 DEF SaveIndex
      <4> QED BY <4>1 DEF TypeOK, Put
    <3> QED BY <3>1, <3>2
  <2> QED BY <1>2, <2>1, <2>2, ExitType DEF SaveIndex, TypeOK, TableType
<1>3. CASE Crash
  <2>1. TableType(index')
    <3>1. CASE pc = "save"
      <4>1. PICK s \in SUBSET (DOMAIN added \cup DOMAIN origin) :
              index' = Restrict(save(origin, added), s)
        BY <1>3, <3>1 DEF Crash
      <4> QED BY <4>1, TablesTyped, SaveType, RestrictTableType
    <3> QED BY <1>3, <3>1, TablesTyped DEF Crash, TableType
  <2>2. /\ catalog' \in [DOMAIN catalog' -> Seq(Chunk)]
        /\ DOMAIN catalog' \subseteq Nat
    BY <1>3, DropType DEF Crash, TypeOK
  <2>3. mishaps' \subseteq Mishap BY <1>3 DEF Crash, Note, TypeOK, Mishap
  <2> QED BY <1>3, <2>1, <2>2, <2>3, ExitType DEF Crash, TypeOK, TableType
<1> QED BY <1>1, <1>2, <1>3


LEMMA TypeDelete ==
    ASSUME TypeOK,
           \/ \E v \in DOMAIN catalog \cup DOMAIN recipes : StartDelete(v)
           \/ DeleteRef \/ DeleteFatal \/ DeleteUndefined \/ Unlink
    PROVE  TypeOK'
<1>1. ASSUME NEW v \in DOMAIN catalog \cup DOMAIN recipes, StartDelete(v)
      PROVE  TypeOK'
  <2>1. /\ TableType(origin') /\ TableType(added')
        /\ ntasks' \in Nat /\ mishaps' \subseteq Mishap
    BY <1>1, LoadIndexType DEF StartDelete
  <2>2. v \in Nat /\ recipes[RecipeFile(v)] \in Seq(Chunk)
    BY <1>1 DEF StartDelete, TypeOK
  <2> QED BY <1>1, <2>1, <2>2 DEF StartDelete, TypeOK, TableType, disk, buffers, PCs
<1>2. CASE DeleteRef
  <2>1. Tail(todo) \in Seq(Chunk) BY <1>2, HeadType DEF DeleteRef
  <2>2. TableType(origin') BY <1>2, TablesTyped, RefCntTypes DEF DeleteRef
  <2> QED BY <1>2, <2>1, <2>2 DEF DeleteRef, TypeOK, TableType, disk, buffers
<1>3. CASE DeleteFatal
  <2>1. DirType(containers', Seq(Cell))
    <3>1. CASE UNCHANGED containers BY <3>1, DirsTyped DEF DirType
    <3>2. CASE ReleasesLast /\ CutContainer(origin[Head(todo)])
      <4>1. origin[Head(todo)] \in EntryType
        BY <3>2, TablesTyped, EntryFields DEF ReleasesLast
      <4> QED BY <3>2, <4>1, CutContainerType
    <3> QED BY <1>3, <3>1, <3>2 DEF DeleteFatal
  <2>2. mishaps' \subseteq Mishap BY <1>3 DEF DeleteFatal, Note, TypeOK, Mishap
  <2> QED BY <1>3, <2>1, <2>2, ExitType DEF DeleteFatal, TypeOK, TableType, DirType
<1>4. CASE DeleteUndefined
  <2>1. mishaps' \subseteq Mishap BY <1>4 DEF DeleteUndefined, Note, TypeOK, Mishap
  <2> QED BY <1>4, <2>1, ExitType DEF DeleteUndefined, TypeOK, TableType, disk
<1>5. CASE Unlink
  <2>1. DirType(recipes', Seq(Chunk)) BY <1>5, DirsTyped, DirDrop DEF Unlink
  <2> QED BY <1>5, <2>1 DEF Unlink, TypeOK, DirType, input, tables, buffers, PCs
<1> QED BY <1>1, <1>2, <1>3, <1>4, <1>5

LEMMA TypeDeleteChunk ==
    ASSUME TypeOK, DeleteChunk
    PROVE  TypeOK'
<1> DEFINE c == Head(todo)
           e == origin[c]
           n == e.container_number
           left == decRefCnt(origin, c)
           others == Listed(n) \ {c}
<1>1. c \in DOMAIN origin /\ todo # <<>> BY DEF DeleteChunk, ReleasesLast
<1>2. e \in EntryType /\ n \in Nat /\ e.offset \in Nat /\ e.chunk_length \in Nat
  BY <1>1, TablesTyped, EntryFields
<1>3. TableType(left) BY <1>1, TablesTyped, RefCntTypes
<1>4. DirType(containers', Seq(Cell)) BY <1>2, CutContainerType DEF DeleteChunk
<1>5. /\ TableType(origin') /\ DirType(revs', Seq(Chunk)) /\ revCnt' \in Nat
  <2>1. CASE revs' = Drop(revs, n) /\ origin' = left /\ revCnt' = 1
    BY <2>1, <1>3, DirsTyped, DirDrop
  <2>2. CASE /\ HasRev(n) /\ RevCount(n) > 1 /\ c \in Listed(n)
             /\ origin' = chunkOffsetDec(left, others, e.offset, e.chunk_length)
             /\ revs' = Put(revs, n, del_seg(revs[n], d_pos(n, c), 1))
             /\ revCnt' = RevCount(n) - 1
    <3>1. TableType(origin') BY <2>2, <1>2, <1>3, ChunkOffsetDecType
    <3>2. revs[n] \in Seq(Chunk) /\ RevCount(n) = Len(revs[n]) /\ Listed(n) = Range(revs[n])
      BY <2>2 DEF HasRev, RevCount, Listed, TypeOK
    <3>3. d_pos(n, c) \in 0..(Len(revs[n]) - 1)
      <4>1. PICK i \in 1..Len(revs[n]) : revs[n][i] = c
        BY <2>2, <3>2, FunctionOfSeq DEF Range
      <4>2. i - 1 \in 0..(Len(revs[n]) - 1) /\ revs[n][(i - 1) + 1] = c BY <4>1, <3>2
      <4> QED BY <4>2 DEF d_pos
    <3>4. del_seg(revs[n], d_pos(n, c), 1) \in Seq(Chunk) BY <3>2, <3>3, ListCut
    <3>5. DirType(revs', Seq(Chunk)) BY <2>2, <3>4, <1>2, DirsTyped, DirPut
    <3>6. revCnt' \in Nat
      <4>1. PICK l \in Nat : l = Len(revs[n]) BY <3>2
      <4>2. l > 1 /\ revCnt' = l - 1 BY <2>2, <3>2, <4>1
      <4> QED BY <4>1, <4>2
    <3> QED BY <3>1, <3>5, <3>6
  <2>3. CASE /\ revs' = Put(revs, n, <<>>) /\ origin' = left
             /\ revCnt' = U32 - 1
    <3>1. <<>> \in Seq(Chunk) OBVIOUS
    <3>2. DirType(revs', Seq(Chunk)) BY <2>3, <3>1, <1>2, DirsTyped, DirPut
    <3> QED BY <2>3, <3>2, <1>3, WidthAssumption
  <2> QED BY <2>1, <2>2, <2>3 DEF DeleteChunk
<1>6. mishaps' \subseteq Mishap BY DEF DeleteChunk, Note, TypeOK, Mishap
<1>7. Tail(todo) \in Seq(Chunk) BY <1>1, HeadType
<1> QED BY <1>4, <1>5, <1>6, <1>7 DEF DeleteChunk, TypeOK, DirType, TableType

LEMMA TypeNext == TypeOK /\ [Next]_vars => TypeOK'
<1> SUFFICES ASSUME TypeOK, [Next]_vars PROVE TypeOK'
  OBVIOUS
<1>1. CASE UNCHANGED vars
  BY <1>1 DEF vars, disk, input, tables, buffers, TypeOK
<1>2. CASE Next
  BY <1>2, TypeWrite, TypeFlush, TypeSave, TypeDelete, TypeDeleteChunk DEF Next
<1> QED BY <1>1, <1>2

\* Every variable keeps its type along every behaviour: directories stay
\* finite maps from numbers to files, reverse lists and recipes name chunks
\* only, and offsets stay natural numbers through chunkOffsetDec.
THEOREM TypeCorrect == Spec => []TypeOK
BY TypeInit, TypeNext, PTL DEF Spec

-------------------------------------------------------------------------------
(***************************************************************************)
(* Cutting a chunk out of a container.                                     *)
(***************************************************************************)
\* Cells name their chunk, so two chunks stored in one file do not overlap.
LEMMA Disjoint ==
    ASSUME NEW file, NEW c \in Chunk, NEW x \in Chunk, x # c,
           NEW e \in EntryType, NEW g \in EntryType,
           StoredAt(file, e, c), StoredAt(file, g, x)
    PROVE  \/ g.offset + ChunkLen[x] <= e.offset
           \/ e.offset + ChunkLen[c] <= g.offset
<1>1. /\ e.offset \in Nat /\ g.offset \in Nat
      /\ ChunkLen[c] \in Nat \ {0} /\ ChunkLen[x] \in Nat \ {0}
  BY ChunkAssumption DEF EntryType
<1>2. ASSUME e.offset <= g.offset, g.offset < e.offset + ChunkLen[c] PROVE FALSE
  <2> DEFINE i == g.offset - e.offset + 1
  <2>1. i \in 1..ChunkLen[c] /\ e.offset + i = g.offset + 1 BY <1>1, <1>2
  <2>2. file[e.offset + i] = <<c, i>> BY <2>1 DEF StoredAt
  <2>3. 1 \in 1..ChunkLen[x] BY <1>1
  <2>4. file[g.offset + 1] = <<x, 1>> BY <2>3 DEF StoredAt
  <2> QED BY <2>1, <2>2, <2>4
<1>3. ASSUME g.offset <= e.offset, e.offset < g.offset + ChunkLen[x] PROVE FALSE
  <2> DEFINE i == e.offset - g.offset + 1
  <2>1. i \in 1..ChunkLen[x] /\ g.offset + i = e.offset + 1 BY <1>1, <1>3
  <2>2. file[g.offset + i] = <<x, i>> BY <2>1 DEF StoredAt
  <2>3. 1 \in 1..ChunkLen[c] BY <1>1
  <2>4. file[e.offset + 1] = <<c, 1>> BY <2>3 DEF StoredAt
  <2> QED BY <2>1, <2>2, <2>4
<1> QED BY <1>1, <1>2, <1>3

\* Places in front of a cut of len at oft, in a file of n, and behind one.
LEMMA InFront ==
    ASSUME NEW n \in Nat, NEW oft \in Nat, NEW len \in Nat, oft + len <= n,
           NEW o \in Nat, NEW size \in Nat, o + size <= oft
    PROVE  \A i \in 1..size : o + i \in 1..(n - len) /\ o + i <= oft
OBVIOUS

LEMMA InFrontMore ==
    ASSUME NEW n \in Nat, NEW more \in Nat, NEW o \in Nat, NEW size \in Nat, o + size <= n
    PROVE  \A i \in 1..size : o + i \in 1..(n + more) /\ o + i <= n
OBVIOUS

LEMMA WithinEnd ==
    ASSUME NEW n \in Nat, NEW len \in Nat, NEW o \in Nat, NEW size \in Nat, o + size <= n,
           NEW i \in Nat, i <= size, NEW j \in Int, j + len = o + i
    PROVE  j <= n - len
OBVIOUS

\* del_seg leaves every other chunk of the file readable: one in front of the
\* cut where it was, one behind it as far forward as chunkOffsetDec moves it.
LEMMA CutKeepsOthers ==
    ASSUME NEW file \in Seq(Cell), NEW c \in Chunk, NEW x \in Chunk, x # c,
           NEW e \in EntryType, NEW g \in EntryType,
           StoredAt(file, e, c), StoredAt(file, g, x),
           NEW h \in EntryType, h.chunk_length = g.chunk_length,
           h.offset = IF g.offset > e.offset THEN g.offset - e.chunk_length ELSE g.offset
    PROVE  /\ StoredAt(del_seg(file, e.offset, e.chunk_length), h, x)
           /\ ~CutRemovesFile(file, e.offset, e.chunk_length)
<1> DEFINE oft == e.offset
           len == e.chunk_length
           new == del_seg(file, oft, len)
<1>1. /\ oft \in Nat /\ g.offset \in Nat /\ h.offset \in Nat /\ len = ChunkLen[c]
      /\ ChunkLen[c] \in Nat \ {0} /\ ChunkLen[x] \in Nat \ {0}
  BY ChunkAssumption DEF EntryType, StoredAt
<1>2. Len(file) \in Nat /\ oft + len <= Len(file) /\ g.offset + ChunkLen[x] <= Len(file)
  BY <1>1 DEF StoredAt
<1>3. oft + Rest(file, oft, len) = Len(file) - len BY <1>1, <1>2 DEF Rest
<1>4. Len(new) = Len(file) - len BY <1>1, <1>3, DelSegType
<1>5. \A i \in 1..(Len(file) - len) :
         new[i] = IF i <= oft THEN file[i] ELSE file[i + len]
  BY <1>1, <1>2, <1>3 DEF del_seg
<1>6. h.chunk_length = ChunkLen[x] BY DEF StoredAt
<1>7. CASE g.offset + ChunkLen[x] <= oft
  <2>1. h.offset = g.offset BY <1>1, <1>7
  <2>2. h.offset + ChunkLen[x] <= Len(new) BY <1>1, <1>2, <1>4, <1>7, <2>1
  <2>3. ASSUME NEW i \in 1..ChunkLen[x] PROVE new[h.offset + i] = <<x, i>>
    <3>1. g.offset + i \in 1..(Len(file) - len) /\ g.offset + i <= oft
      BY <1>1, <1>2, <1>7, InFront
    <3> QED BY <3>1, <2>1, <1>5 DEF StoredAt
  <2>4. ~CutRemovesFile(file, oft, len) BY <1>1, <1>7 DEF CutRemovesFile
  <2> QED BY <1>6, <2>2, <2>3, <2>4 DEF StoredAt
<1>8. CASE oft + ChunkLen[c] <= g.offset
  <2>1. h.offset = g.offset - len BY <1>1, <1>8
  <2>2. h.offset + ChunkLen[x] <= Len(new) BY <1>1, <1>2, <1>4, <2>1
  <2>3. ASSUME NEW i \in 1..ChunkLen[x] PROVE new[h.offset + i] = <<x, i>>
    <3> DEFINE j == h.offset + i
    <3>0. i \in Nat /\ 1 <= i /\ i <= ChunkLen[x] BY <1>1
    <3>1. j \in Int /\ j + len = g.offset + i BY <1>1, <2>1, <3>0
    <3>2. j > oft BY <1>1, <1>8, <2>1, <3>0
    <3>3. j <= Len(file) - len BY <1>1, <1>2, <3>0, <3>1, WithinEnd
    <3>4. j \in 1..(Len(file) - len) /\ ~(j <= oft)
      <4> HIDE DEF j
      <4> QED BY <1>1, <1>2, <3>1, <3>2, <3>3
    <3> HIDE DEF j
    <3>5. new[j] = file[j + len] BY <3>4, <1>5
    <3>6. file[g.offset + i] = <<x, i>> BY DEF StoredAt
    <3> QED BY <3>1, <3>5, <3>6 DEF j
  <2>4. ~CutRemovesFile(file, oft, len)
    BY <1>1, <1>2, <1>8 DEF CutRemovesFile, Rest
  <2> QED BY <1>6, <2>2, <2>3, <2>4 DEF StoredAt
<1> QED BY <1>7, <1>8, Disjoint

\* The same cut seen from a table: an entry behind it moves by the length of
\* the cut, without wrapping around, and no entry changes its container.
LEMMA ShiftedEntry ==
    ASSUME NEW table, TableType(table), NEW chunks, NEW oft \in Nat, NEW len \in Nat,
           NEW x \in DOMAIN table, table[x].offset < U32,
           table[x].offset > oft => table[x].offset >= len
    PROVE  LET h == chunkOffsetDec(table, chunks, oft, len)[x]
           IN  /\ h.container_number = table[x].container_number
               /\ h.chunk_length = table[x].chunk_length
               /\ h.offset = IF x \in chunks /\ table[x].offset > oft
                             THEN table[x].offset - len ELSE table[x].offset
<1>1. table[x] \in EntryType /\ table[x].offset \in Nat BY EntryFields
<1>2. CASE x \in chunks /\ table[x].offset > oft
  <2> DEFINE h == [table[x] EXCEPT !.offset = (@ - len) % U32]
  <2>1. chunkOffsetDec(table, chunks, oft, len)[x] = h BY <1>2 DEF chunkOffsetDec
  <2>2. table[x].offset - len \in 0..(U32 - 1) BY <1>1, <1>2, WidthAssumption
  <2>3. (table[x].offset - len) % U32 = table[x].offset - len BY <2>2, WidthAssumption
  <2>4. /\ h.container_number = table[x].container_number
        /\ h.chunk_length = table[x].chunk_length
        /\ h.offset = (table[x].offset - len) % U32
    BY <1>1 DEF EntryType
  <2> QED BY <1>2, <2>1, <2>3, <2>4
<1>3. CASE ~(x \in chunks /\ table[x].offset > oft)
  BY <1>3 DEF chunkOffsetDec
<1> QED BY <1>2, <1>3

-------------------------------------------------------------------------------
(***************************************************************************)
(* The inductive invariant: tasks start and end.                           *)
(***************************************************************************)
LEMMA SaveNothing ==
    ASSUME NEW table, TableType(table)
    PROVE  save(table, EmptyTable) = table
BY EmptyTableType DEF save, TableType

LEMMA NoEntries ==
    /\ Durable(EmptyTable) /\ Narrow(EmptyTable)
    /\ \A n : Exact(n, Placed(EmptyTable, n))
BY EmptyTableType DEF Durable, Narrow, Exact, Placed

LEMMA InvInit == Init => IInv
<1> SUFFICES ASSUME Init PROVE IInv
  OBVIOUS
<1>1. TypeOK BY TypeInit
<1>2. ControlInv BY DEF Init, ControlInv
<1>3. Table = EmptyTable BY DEF Init, Table
<1>4. EntriesIntact /\ RevExact /\ Narrow(Table)
  BY <1>3, NoEntries, EmptyTableType DEF EntriesIntact, RevExact, Exact, Placed
<1>5. FileInv BY NoEntries DEF Init, FileInv
<1>6. TablesInv /\ BufferInv
  BY EmptyTableType DEF Init, TablesInv, BufferInv
<1> QED BY <1>1, <1>2, <1>4, <1>5, <1>6 DEF IInv, StoreInv

LEMMA ControlStep ==
    ASSUME TypeOK, ControlInv, [Next]_vars
    PROVE  ControlInv'
<1> USE DEF ControlInv
<1>1. CASE UNCHANGED vars BY <1>1 DEF vars, input, tables, buffers
<1>2. ASSUME NEW kind \in WriteTasks, NEW file \in Files, StartWrite(kind, file)
      PROVE  ControlInv'
  BY <1>2 DEF StartWrite, WriteTasks, LoadIndex
<1>3. CASE DedupChunk BY <1>3 DEF DedupChunk, buffers
<1>4. CASE UniqueChunk BY <1>4 DEF UniqueChunk
<1>5. CASE SaveContainer BY <1>5 DEF SaveContainer, input, tables, WriteTasks
<1>6. CASE SaveRev BY <1>6 DEF SaveRev, input, tables, WriteTasks
<1>7. CASE SaveRecipe BY <1>7 DEF SaveRecipe, tables, buffers
<1>8. ASSUME NEW v \in DOMAIN catalog \cup DOMAIN recipes, StartDelete(v)
      PROVE  ControlInv'
  BY <1>8 DEF StartDelete, LoadIndex
<1>9. CASE DeleteRef BY <1>9 DEF DeleteRef, buffers
<1>10. CASE DeleteChunk BY <1>10 DEF DeleteChunk, ReleasesLast
<1>11. CASE DeleteFatal BY <1>11 DEF DeleteFatal, Exit
<1>12. CASE DeleteUndefined BY <1>12 DEF DeleteUndefined, Exit
<1>13. CASE Unlink BY <1>13 DEF Unlink, input, tables, buffers
<1>14. CASE TruncIndex BY <1>14 DEF TruncIndex, input, tables, buffers
<1>15. CASE SaveIndex BY <1>15 DEF SaveIndex, Exit
<1>16. CASE Crash BY <1>16 DEF Crash, Exit
<1> QED
  BY <1>1, <1>2, <1>3, <1>4, <1>5, <1>6, <1>7, <1>8, <1>9, <1>10, <1>11,
     <1>12, <1>13, <1>14, <1>15, <1>16 DEF Next

\* A mishap is never forgotten.
LEMMA MishapsStay == ASSUME [Next]_vars PROVE mishaps \subseteq mishaps'
BY DEF Next, vars, StartWrite, DedupChunk, UniqueChunk, SaveContainer, SaveRev,
       SaveRecipe, StartDelete, DeleteRef, DeleteChunk, DeleteFatal, DeleteUndefined,
       Unlink, TruncIndex, SaveIndex, Crash, LoadIndex, Note

\* A task starts with the tables the index file holds.
LEMMA StartInv ==
    ASSUME TypeOK, ControlInv, StoreInv, LoadIndex, mishaps' = {},
           UNCHANGED <<containers, revs, index, rbuf>>, pc' \in {"loop", "del"}
    PROVE  StoreInv'
<1>1. pc = "idle" /\ task = "none" /\ rbuf = <<>> BY DEF LoadIndex, ControlInv
<1>2. origin' = index /\ added' = EmptyTable BY DEF LoadIndex, Note
<1>3. Table' = index BY <1>2, SaveNothing, TablesTyped DEF Table
<1>4. \A c : ~(Buffered(c)') BY <1>2, EmptyTableType DEF Buffered
<1>5. /\ Durable(index) /\ Narrow(index)
      /\ \A n \in DOMAIN revs : Exact(n, Placed(index, n))
  BY <1>1 DEF StoreInv, FileInv
<1>6. EntriesIntact' BY <1>3, <1>4, <1>5 DEF EntriesIntact, Durable, OnDisk
<1>7. RevExact' BY <1>3, <1>4, <1>5 DEF RevExact, Exact, Placed
<1>8. Narrow(Table)' BY <1>3, <1>5 DEF Narrow
<1>9. FileInv' BY <1>5 DEF FileInv, Durable, OnDisk, Narrow, Exact, Placed
<1>10. TablesInv' BY <1>2, EmptyTableType DEF TablesInv
<1>11. BufferInv'
  <2>1. Range(rbuf') = {} /\ IsInjective(rbuf') BY <1>1 DEF Range, IsInjective
  <2>2. Placed(added, cindex)' = {} BY <1>2, EmptyTableType DEF Placed
  <2> QED BY <2>1, <2>2 DEF BufferInv
<1> QED BY <1>6, <1>7, <1>8, <1>9, <1>10, <1>11 DEF StoreInv

\* A task that ends leaves an index file that is sound by itself.
LEMMA ExitInv ==
    ASSUME Exit, Durable(index)', Narrow(index)',
           \A n \in DOMAIN revs' : Exact(n, Placed(index, n))'
    PROVE  StoreInv'
<1>1. pc' = "idle" /\ Table' = index' BY DEF Exit, Table
<1>2. \A c : ~(Buffered(c)') BY <1>1 DEF Buffered
<1>3. EntriesIntact' BY <1>1, <1>2 DEF EntriesIntact, Durable, OnDisk
<1>4. RevExact' BY <1>1, <1>2 DEF RevExact, Exact, Placed
<1>5. Narrow(Table)' BY <1>1 DEF Narrow
<1>6. FileInv' BY DEF FileInv
<1>7. TablesInv' /\ BufferInv'
  BY <1>1, EmptyTableType DEF Exit, TablesInv, BufferInv
<1> QED BY <1>3, <1>4, <1>5, <1>6, <1>7 DEF StoreInv

-------------------------------------------------------------------------------
(***************************************************************************)
(* The inductive invariant: steps of a write.                              *)
(***************************************************************************)
\* Two tables that differ in reference counts only.
SamePlaces(t, u) ==
    /\ DOMAIN u = DOMAIN t
    /\ \A c \in DOMAIN t :
         /\ u[c].container_number = t[c].container_number
         /\ u[c].offset = t[c].offset /\ u[c].chunk_length = t[c].chunk_length

LEMMA WithRefCntPlaces ==
    ASSUME NEW table, TableType(table), NEW c, NEW cnt
    PROVE  SamePlaces(table, WithRefCnt(table, c, cnt))
<1>1. ASSUME NEW x \in DOMAIN table
      PROVE  LET e == [table[x] EXCEPT !.ref_cnt = cnt]
             IN  /\ e.container_number = table[x].container_number
                 /\ e.offset = table[x].offset /\ e.chunk_length = table[x].chunk_length
  BY EntryFields DEF EntryType
<1> QED BY <1>1 DEF SamePlaces, WithRefCnt

LEMMA RefCntInv ==
    ASSUME StoreInv, SamePlaces(origin, origin'), SamePlaces(added, added'), pc # "idle",
           UNCHANGED <<containers, revs, index, pc, task, cindex, cbuf, rbuf>>
    PROVE  StoreInv'
<1>1. SamePlaces(Table, Table')
  BY DEF SamePlaces, Table, save
<1>2. \A c : Buffered(c) <=> Buffered(c)' BY DEF SamePlaces, Buffered
<1>3. EntriesIntact'
  <2> SUFFICES ASSUME NEW c \in DOMAIN Table'
               PROVE  (IF Buffered(c) THEN StoredAt(cbuf, added[c], c) ELSE OnDisk(Table, c))'
    BY DEF EntriesIntact
  <2>1. c \in DOMAIN Table BY <1>1 DEF SamePlaces
  <2>2. CASE Buffered(c)
    BY <1>2, <2>1, <2>2 DEF StoreInv, EntriesIntact, StoredAt, SamePlaces, Buffered
  <2>3. CASE ~Buffered(c)
    <3>1. OnDisk(Table, c) BY <2>1, <2>3 DEF StoreInv, EntriesIntact
    <3>2. /\ Table'[c].container_number = Table[c].container_number
          /\ Table'[c].offset = Table[c].offset
          /\ Table'[c].chunk_length = Table[c].chunk_length
      BY <1>1, <2>1 DEF SamePlaces
    <3> QED BY <1>2, <2>3, <3>1, <3>2 DEF OnDisk, StoredAt
  <2> QED BY <2>2, <2>3
<1>4. RevExact'
  <2> SUFFICES ASSUME NEW n \in DOMAIN revs
               PROVE  Exact(n, {c \in Placed(Table, n) : ~Buffered(c)})'
    BY DEF RevExact
  <2>1. {c \in Placed(Table, n) : ~Buffered(c)}' = {c \in Placed(Table, n) : ~Buffered(c)}
    BY <1>1, <1>2 DEF Placed, SamePlaces
  <2> QED BY <2>1 DEF StoreInv, RevExact, Exact
<1>5. Narrow(Table)' BY <1>1 DEF StoreInv, Narrow, SamePlaces
<1>6. FileInv' BY DEF StoreInv, FileInv, Durable, OnDisk, Narrow, Exact, Placed
<1>7. TablesInv' BY DEF StoreInv, TablesInv, SamePlaces
<1>8. BufferInv'
  <2>1. /\ Placed(added, cindex)' = Placed(added, cindex)
        /\ Placed(origin, cindex)' = Placed(origin, cindex)
        /\ Placed(index, cindex)' = Placed(index, cindex)
    BY DEF Placed, SamePlaces
  <2> QED BY <2>1 DEF StoreInv, BufferInv
<1> QED BY <1>3, <1>4, <1>5, <1>6, <1>7, <1>8 DEF StoreInv

LEMMA DedupChunkInv == ASSUME TypeOK, StoreInv, DedupChunk PROVE StoreInv'
<1>1. SamePlaces(origin, origin') /\ SamePlaces(added, added')
  <2>1. SamePlaces(origin, origin) /\ SamePlaces(added, added) BY DEF SamePlaces
  <2> QED BY <2>1, WithRefCntPlaces, TablesTyped DEF DedupChunk, addRefCnt
<1> QED BY <1>1, RefCntInv DEF DedupChunk, disk, buffers

LEMMA DeleteRefInv == ASSUME TypeOK, StoreInv, DeleteRef PROVE StoreInv'
<1>1. SamePlaces(origin, origin') /\ SamePlaces(added, added')
  <2>1. SamePlaces(added, added) BY DEF SamePlaces
  <2>2. SamePlaces(origin, origin')
    BY WithRefCntPlaces, TablesTyped DEF DeleteRef, decRefCnt
  <2> QED BY <2>1, <2>2 DEF DeleteRef
<1> QED BY <1>1, RefCntInv DEF DeleteRef, disk, buffers

\* The chunk that memcpy puts behind the buffer, and those already in it.
LEMMA AppendStores ==
    ASSUME NEW buf \in Seq(Cell), NEW c \in Chunk
    PROVE  /\ StoredAt(AppendChunk(buf, c), Entry(cindex, Len(buf), ChunkLen[c], 1), c)
           /\ \A x \in Chunk, e \in EntryType :
                StoredAt(buf, e, x) => StoredAt(AppendChunk(buf, c), e, x)
<1> DEFINE new == AppendChunk(buf, c)
<1>1. Len(buf) \in Nat /\ ChunkLen[c] \in Nat BY ChunkAssumption
<1>2. Len(new) = Len(buf) + ChunkLen[c] BY AppendChunkType
<1>3. \A i \in 1..(Len(buf) + ChunkLen[c]) :
         new[i] = IF i <= Len(buf) THEN buf[i] ELSE <<c, i - Len(buf)>>
  BY <1>1 DEF AppendChunk
<1>4. StoredAt(new, Entry(cindex, Len(buf), ChunkLen[c], 1), c)
  <2>1. ASSUME NEW i \in 1..ChunkLen[c] PROVE new[Len(buf) + i] = <<c, i>>
    <3>1. Len(buf) + i \in 1..(Len(buf) + ChunkLen[c]) /\ ~(Len(buf) + i <= Len(buf))
          /\ (Len(buf) + i) - Len(buf) = i
      BY <1>1
    <3> QED BY <3>1, <1>3
  <2> QED BY <1>1, <1>2, <2>1 DEF StoredAt, Entry
<1>5. ASSUME NEW x \in Chunk, NEW e \in EntryType, StoredAt(buf, e, x)
      PROVE  StoredAt(new, e, x)
  <2>1. e.offset \in Nat /\ ChunkLen[x] \in Nat /\ e.offset + ChunkLen[x] <= Len(buf)
    BY <1>5, ChunkAssumption DEF EntryType, StoredAt
  <2>2. ASSUME NEW i \in 1..ChunkLen[x] PROVE new[e.offset + i] = <<x, i>>
    <3>1. e.offset + i \in 1..(Len(buf) + ChunkLen[c]) /\ e.offset + i <= Len(buf)
      BY <1>1, <2>1, InFrontMore
    <3> QED BY <3>1, <1>3, <1>5 DEF StoredAt
  <2> QED BY <1>1, <1>2, <1>5, <2>1, <2>2 DEF StoredAt
<1> QED BY <1>4, <1>5

LEMMA UniqueChunkInv == ASSUME TypeOK, ControlInv, StoreInv, UniqueChunk PROVE StoreInv'
<1>1. PICK c \in Chunk : c = Head(todo) BY HeadType DEF UniqueChunk
<1> DEFINE new == Entry(cindex, Len(cbuf), ChunkLen[c], 1)
<1>2. /\ c \notin DOMAIN origin /\ c \notin DOMAIN added
      /\ added' = [x \in DOMAIN added \cup {c} |-> IF x \in DOMAIN added THEN added[x] ELSE new]
      /\ cbuf' = AppendChunk(cbuf, c)
      /\ Len(cbuf) + ChunkLen[c] < ContainerSize
  <2>1. Len(cbuf) \in Nat /\ ChunkLen[c] \in Nat /\ ContainerSize \in Nat
    BY <1>1, ChunkAssumption DEF TypeOK
  <2> QED BY <1>1, <2>1 DEF UniqueChunk, IsDedup, Full, addNewEntry
<1>3. /\ UNCHANGED <<containers, revs, index, pc, task, origin, cindex>>
      /\ pc = "loop" /\ cbuf \in Seq(Cell) /\ cindex \in Nat
  BY DEF UniqueChunk, disk, TypeOK
<1>4. DOMAIN Table = DOMAIN origin \cup DOMAIN added
      /\ DOMAIN Table' = DOMAIN Table \cup {c}
      /\ Table'[c] = new /\ \A x \in DOMAIN Table : Table'[x] = Table[x]
  BY <1>2, <1>3 DEF Table, save
<1>5. /\ Buffered(c)'
      /\ \A x \in DOMAIN Table : Buffered(x)' <=> Buffered(x)
  BY <1>2, <1>3, <1>4 DEF Buffered, Entry
<1>6. EntriesIntact'
  <2> SUFFICES ASSUME NEW x \in DOMAIN Table'
               PROVE  (IF Buffered(x) THEN StoredAt(cbuf, added[x], x) ELSE OnDisk(Table, x))'
    BY DEF EntriesIntact
  <2>1. CASE x = c
    <3>1. StoredAt(cbuf', new, c) BY <1>1, <1>2, <1>3, AppendStores
    <3>2. added'[c] = new BY <1>2
    <3> QED BY <2>1, <3>1, <3>2, <1>5
  <2>2. CASE x # c /\ Buffered(x)
    <3>1. x \in DOMAIN Table BY <1>4, <2>2
    <3>2. StoredAt(cbuf, added[x], x) BY <2>2, <3>1 DEF StoreInv, EntriesIntact
    <3>3. x \in DOMAIN added /\ x \in Chunk /\ added[x] \in EntryType /\ added'[x] = added[x]
      BY <2>2, <1>2, TablesTyped, EntryFields DEF Buffered
    <3> QED BY <2>2, <3>1, <3>2, <3>3, <1>1, <1>2, <1>3, <1>5, AppendStores
  <2>3. CASE x # c /\ ~Buffered(x)
    <3>1. x \in DOMAIN Table BY <1>4, <2>3
    <3>2. OnDisk(Table, x) BY <2>3, <3>1 DEF StoreInv, EntriesIntact
    <3> QED BY <2>3, <3>1, <3>2, <1>3, <1>4, <1>5 DEF OnDisk
  <2> QED BY <2>1, <2>2, <2>3
<1>7. RevExact'
  <2> SUFFICES ASSUME NEW n \in DOMAIN revs
               PROVE  Exact(n, {x \in Placed(Table, n) : ~Buffered(x)})'
    BY <1>3 DEF RevExact
  <2>1. {x \in Placed(Table, n) : ~Buffered(x)}' = {x \in Placed(Table, n) : ~Buffered(x)}
    BY <1>4, <1>5 DEF Placed
  <2> QED BY <2>1, <1>3 DEF StoreInv, RevExact, Exact
<1>8. Narrow(Table)'
  <2>1. new.offset < U32
    BY <1>1, <1>2, <1>3, ChunkAssumption, WidthAssumption, StoreAssumption DEF Entry
  <2> QED BY <2>1, <1>4 DEF StoreInv, Narrow
<1>9. FileInv' BY <1>3 DEF StoreInv, FileInv, Durable, OnDisk, Narrow, Exact, Placed
<1>10. TablesInv'
  <2>1. new.container_number <= cindex BY <1>3 DEF Entry
  <2> QED BY <2>1, <1>2, <1>3 DEF StoreInv, TablesInv
<1>11. BufferInv'
  <2> SUFFICES ASSUME task = "write"
               PROVE  Range(rbuf') = Placed(added, cindex)' /\ IsInjective(rbuf')
    BY <1>3 DEF BufferInv
  <2>1. rbuf' = Append(rbuf, c) /\ rbuf \in Seq(Chunk) BY <1>1 DEF UniqueChunk, TypeOK
  <2>2. Range(rbuf) = Placed(added, cindex) /\ IsInjective(rbuf)
    BY <1>3 DEF StoreInv, BufferInv
  <2>3. c \notin Range(rbuf) BY <1>2, <2>2 DEF Placed
  <2>4. /\ Len(rbuf) \in Nat /\ DOMAIN rbuf = 1..Len(rbuf)
        /\ DOMAIN rbuf' = 1..(Len(rbuf) + 1)
        /\ \A i \in 1..Len(rbuf) : rbuf'[i] = rbuf[i]
        /\ rbuf'[Len(rbuf) + 1] = c
    BY <1>1, <2>1, AppendProperties, FunctionOfSeq
  <2>5. Range(rbuf') = Range(rbuf) \cup {c} BY <2>4 DEF Range
  <2>6. Placed(added, cindex)' = Placed(added, cindex) \cup {c}
    BY <1>2, <1>3 DEF Placed, Entry
  <2>7. IsInjective(rbuf')
    <3> SUFFICES ASSUME NEW i \in 1..(Len(rbuf) + 1), NEW j \in 1..(Len(rbuf) + 1),
                        rbuf'[i] = rbuf'[j]
                 PROVE  i = j
      BY <2>4 DEF IsInjective
    <3>1. CASE i \in 1..Len(rbuf) /\ j \in 1..Len(rbuf)
      BY <3>1, <2>2, <2>4 DEF IsInjective
    <3>2. CASE i = Len(rbuf) + 1 /\ j \in 1..Len(rbuf) BY <3>2, <2>3, <2>4 DEF Range
    <3>3. CASE j = Len(rbuf) + 1 /\ i \in 1..Len(rbuf) BY <3>3, <2>3, <2>4 DEF Range
    <3> QED BY <3>1, <3>2, <3>3, <2>4
  <2> QED BY <2>2, <2>5, <2>6, <2>7
<1> QED BY <1>6, <1>7, <1>8, <1>9, <1>10, <1>11 DEF StoreInv


\* An empty buffer stores no chunk.
LEMMA NothingBuffered ==
    ASSUME StoreInv, TypeOK, pc = "loop" => cbuf = <<>>
    PROVE  \A c \in DOMAIN Table : ~Buffered(c)
<1> SUFFICES ASSUME NEW c \in DOMAIN Table, Buffered(c) PROVE FALSE
  OBVIOUS
<1>1. StoredAt(cbuf, added[c], c) /\ cbuf = <<>>
  BY DEF StoreInv, EntriesIntact, Buffered
<1>2. c \in Chunk /\ added[c].offset \in Nat
  BY TablesTyped, EntryFields DEF Buffered
<1>3. Len(cbuf) = 0 /\ ChunkLen[c] \in Nat \ {0} BY <1>1, <1>2, ChunkAssumption
<1> QED BY <1>1, <1>2, <1>3 DEF StoredAt

\* The buffer becomes a file of its own: no file of that number was there.
LEMMA SaveContainerInv ==
    ASSUME TypeOK, ControlInv, StoreInv, SaveContainer, mishaps' = {}
    PROVE  StoreInv'
<1>1. cindex \notin DOMAIN containers /\ cindex \notin DOMAIN revs
  BY DEF SaveContainer, Note
<1>2. /\ UNCHANGED <<revs, index, origin, added, task, rbuf>>
      /\ pc = "loop" /\ cindex \in Nat /\ cbuf \in Seq(Cell)
  BY DEF SaveContainer, input, tables, TypeOK
<1>3. Overlay(cbuf, <<>>) = cbuf
  <2>1. Len(cbuf) \in Nat /\ Larger(Len(cbuf), Len(<<>>)) = Len(cbuf) BY <1>2 DEF Larger
  <2> QED BY <2>1, <1>2, FunctionOfSeq DEF Overlay
<1>4. containers' = Put(containers, cindex, cbuf) BY <1>1, <1>3 DEF SaveContainer
<1>5. /\ DOMAIN containers' = DOMAIN containers \cup {cindex}
      /\ (containers')[cindex] = cbuf
      /\ \A n \in DOMAIN containers : (containers')[n] = containers[n]
  BY <1>1, <1>4 DEF Put
<1>6. Table' = Table
  BY <1>2 DEF SaveContainer, Table
<1>7. \A c : ~(Buffered(c)')
  <2>1. CASE pc' = "rev" BY <2>1 DEF Buffered
  <2>2. CASE cindex' = cindex + 1
    <3>1. \A c \in DOMAIN added : added[c].container_number <= cindex
      BY DEF StoreInv, TablesInv
    <3>2. \A c \in DOMAIN added : added[c].container_number \in Nat
      BY TablesTyped, EntryFields
    <3> QED BY <2>2, <3>1, <3>2, <1>2 DEF Buffered
  <2> QED BY <2>1, <2>2 DEF SaveContainer
<1>8. \A c \in DOMAIN Table : OnDisk(Table, c)'
  <2> SUFFICES ASSUME NEW c \in DOMAIN Table PROVE OnDisk(Table, c)'
    OBVIOUS
  <2>1. CASE Buffered(c)
    <3>1. StoredAt(cbuf, added[c], c) BY <2>1 DEF StoreInv, EntriesIntact
    <3>2. Table[c] = added[c] /\ added[c].container_number = cindex
      BY <2>1 DEF Buffered, Table, save
    <3> QED BY <3>1, <3>2, <1>5, <1>6 DEF OnDisk
  <2>2. CASE ~Buffered(c)
    <3>1. OnDisk(Table, c) BY <2>2 DEF StoreInv, EntriesIntact
    <3> QED BY <3>1, <1>5, <1>6 DEF OnDisk
  <2> QED BY <2>1, <2>2
<1>9. EntriesIntact' BY <1>6, <1>7, <1>8 DEF EntriesIntact
<1>10. RevExact'
  <2> SUFFICES ASSUME NEW n \in DOMAIN revs
               PROVE  Exact(n, {c \in Placed(Table, n) : ~Buffered(c)})'
    BY <1>2 DEF RevExact
  <2>1. {c \in Placed(Table, n) : ~Buffered(c)}' = {c \in Placed(Table, n) : ~Buffered(c)}
    <3>1. ASSUME NEW c \in Placed(Table, n) PROVE ~Buffered(c)
      BY <3>1, <1>1 DEF Placed, Buffered, Table, save
    <3> QED BY <3>1, <1>6, <1>7 DEF Placed
  <2> QED BY <2>1, <1>2 DEF StoreInv, RevExact, Exact
<1>11. Narrow(Table)' BY <1>6 DEF StoreInv, Narrow
<1>12. FileInv'
  BY <1>2, <1>5 DEF StoreInv, FileInv, Durable, OnDisk, Narrow, Exact, Placed
<1>13. TablesInv'
  <2>1. \A c \in DOMAIN added : added[c].container_number \in Nat
    BY TablesTyped, EntryFields
  <2>2. cindex' = cindex \/ cindex' = cindex + 1 BY DEF SaveContainer
  <2> QED BY <2>1, <2>2, <1>2 DEF StoreInv, TablesInv
<1>14. BufferInv'
  <2> SUFFICES ASSUME task = "write" PROVE BufferInv'
    BY <1>2 DEF BufferInv, SaveContainer
  <2>1. pc' = "rev" /\ cindex' = cindex BY DEF SaveContainer
  <2>2. Range(rbuf) = Placed(added, cindex) /\ IsInjective(rbuf)
    BY <1>2 DEF StoreInv, BufferInv
  <2>3. Placed(origin, cindex) = {}
    <3> SUFFICES ASSUME NEW c \in DOMAIN origin, origin[c].container_number = cindex
                 PROVE  FALSE
      BY DEF Placed
    <3>1. c \notin DOMAIN added BY DEF StoreInv, TablesInv
    <3>2. c \in DOMAIN Table /\ Table[c] = origin[c] BY <1>2, <3>1 DEF Table, save
    <3>3. OnDisk(Table, c) BY <3>1, <3>2 DEF StoreInv, EntriesIntact, Buffered
    <3> QED BY <3>2, <3>3, <1>1 DEF OnDisk
  <2>4. Placed(index, cindex) = {}
    <3>1. Durable(index) BY DEF StoreInv, FileInv
    <3> QED BY <3>1, <1>1 DEF Placed, Durable, OnDisk
  <2> QED BY <2>1, <2>2, <2>3, <2>4, <1>2 DEF BufferInv, Placed
<1> QED BY <1>9, <1>10, <1>11, <1>12, <1>13, <1>14 DEF StoreInv

\* The reverse list follows the container it describes.
LEMMA SaveRevInv ==
    ASSUME TypeOK, ControlInv, StoreInv, SaveRev
    PROVE  StoreInv'
<1>1. /\ UNCHANGED <<containers, index, origin, added, task>>
      /\ pc = "rev" /\ pc' = "loop" /\ task = "write" /\ cindex \in Nat
      /\ cindex' = cindex + 1 /\ rbuf' = <<>> /\ cbuf' = <<>>
      /\ revs' = Put(revs, cindex, rbuf)
  BY DEF SaveRev, input, tables, ControlInv, TypeOK
<1>2. Table' = Table BY <1>1 DEF Table
<1>3. \A c \in DOMAIN added : added[c].container_number < cindex'
  <2>1. \A c \in DOMAIN added : added[c].container_number \in Nat
    BY TablesTyped, EntryFields
  <2> QED BY <2>1, <1>1 DEF StoreInv, TablesInv
<1>4. \A c : ~Buffered(c) /\ ~(Buffered(c)')
  <2>1. \A c \in DOMAIN added : added[c].container_number \in Nat
    BY TablesTyped, EntryFields
  <2> QED BY <2>1, <1>1, <1>3 DEF Buffered
<1>5. /\ Range(rbuf) = Placed(added, cindex) /\ IsInjective(rbuf)
      /\ Placed(origin, cindex) = {} /\ Placed(index, cindex) = {}
  BY <1>1 DEF StoreInv, BufferInv
<1>6. /\ DOMAIN revs' = DOMAIN revs \cup {cindex}
      /\ (revs')[cindex] = rbuf
      /\ \A n \in DOMAIN revs : n # cindex => (revs')[n] = revs[n]
  BY <1>1 DEF Put
<1>7. EntriesIntact' BY <1>1, <1>2, <1>4 DEF StoreInv, EntriesIntact, OnDisk
<1>8. RevExact'
  <2> SUFFICES ASSUME NEW n \in DOMAIN revs'
               PROVE  Exact(n, {c \in Placed(Table, n) : ~Buffered(c)})'
    BY DEF RevExact
  <2>1. {c \in Placed(Table, n) : ~Buffered(c)}' = Placed(Table, n)
        /\ {c \in Placed(Table, n) : ~Buffered(c)} = Placed(Table, n)
    BY <1>2, <1>4 DEF Placed
  <2>2. CASE n = cindex
    <3>1. Placed(Table, n) = Placed(added, n)
      BY <2>2, <1>1, <1>5 DEF Placed, Table, save
    <3> QED BY <2>1, <2>2, <3>1, <1>5, <1>6 DEF Exact
  <2>3. CASE n # cindex
    BY <2>1, <2>3, <1>6 DEF StoreInv, RevExact, Exact
  <2> QED BY <2>2, <2>3
<1>9. Narrow(Table)' BY <1>2 DEF StoreInv, Narrow
<1>10. FileInv'
  <2>1. Durable(index)' /\ Narrow(index)'
    BY <1>1 DEF StoreInv, FileInv, Durable, OnDisk, Narrow
  <2>2. ASSUME NEW n \in DOMAIN revs' PROVE Exact(n, Placed(index, n))'
    <3>1. CASE n = cindex BY <3>1, <1>1, <1>5 DEF Exact, Placed
    <3>2. CASE n # cindex
      BY <3>2, <1>1, <1>6 DEF StoreInv, FileInv, Exact, Placed
    <3> QED BY <3>1, <3>2
  <2> QED BY <2>1, <2>2 DEF FileInv
<1>11. TablesInv'
  <2>1. \A c \in DOMAIN added : added[c].container_number \in Nat
    BY TablesTyped, EntryFields
  <2> QED BY <2>1, <1>1, <1>3 DEF StoreInv, TablesInv
<1>12. BufferInv'
  <2>1. Range(rbuf') = {} /\ IsInjective(rbuf') BY <1>1 DEF Range, IsInjective
  <2>2. Placed(added, cindex)' = {}
    <3>1. \A c \in DOMAIN added : added[c].container_number \in Nat
      BY TablesTyped, EntryFields
    <3> QED BY <3>1, <1>1, <1>3 DEF Placed
  <2> QED BY <2>1, <2>2, <1>1 DEF BufferInv
<1> QED BY <1>7, <1>8, <1>9, <1>10, <1>11, <1>12 DEF StoreInv


\* The recipe and the truncation of the index file leave the tables alone.
LEMMA RecipeInv ==
    ASSUME TypeOK, ControlInv, StoreInv, SaveRecipe \/ Unlink \/ TruncIndex
    PROVE  StoreInv'
<1>1. /\ UNCHANGED <<containers, revs, task, origin, added, cindex, cbuf, rbuf>>
      /\ pc # "idle" /\ pc # "rev" /\ pc' \in {"trunc", "save"}
      /\ index' = index \/ index' = EmptyTable
      /\ pc = "loop" => ~FlushDue /\ todo = <<>>
  BY DEF SaveRecipe, Unlink, TruncIndex, input, tables, buffers
<1>2. Table' = Table BY <1>1 DEF Table
<1>3. \A c \in DOMAIN Table : ~Buffered(c)
  BY <1>1, NothingBuffered DEF FlushDue
<1>4. \A c : ~(Buffered(c)') BY <1>1 DEF Buffered
<1>5. EntriesIntact' BY <1>1, <1>2, <1>3, <1>4 DEF StoreInv, EntriesIntact, OnDisk
<1>6. RevExact'
  <2> SUFFICES ASSUME NEW n \in DOMAIN revs
               PROVE  Exact(n, {c \in Placed(Table, n) : ~Buffered(c)})'
    BY <1>1 DEF RevExact
  <2>1. {c \in Placed(Table, n) : ~Buffered(c)}' = {c \in Placed(Table, n) : ~Buffered(c)}
    BY <1>2, <1>3, <1>4 DEF Placed
  <2> QED BY <2>1, <1>1 DEF StoreInv, RevExact, Exact
<1>7. Narrow(Table)' BY <1>2 DEF StoreInv, Narrow
<1>8. FileInv'
  <2>1. CASE index' = index
    BY <2>1, <1>1 DEF StoreInv, FileInv, Durable, OnDisk, Narrow, Exact, Placed
  <2>2. CASE index' = EmptyTable
    BY <2>2, EmptyTableType DEF FileInv, Durable, Narrow, Exact, Placed
  <2> QED BY <1>1, <2>1, <2>2
<1>9. TablesInv' BY <1>1 DEF StoreInv, TablesInv
<1>10. BufferInv' BY <1>1 DEF BufferInv
<1> QED BY <1>5, <1>6, <1>7, <1>8, <1>9, <1>10 DEF StoreInv

LEMMA SaveIndexInv ==
    ASSUME TypeOK, StoreInv, SaveIndex
    PROVE  StoreInv'
<1>1. /\ UNCHANGED <<containers, revs>> /\ pc = "save" /\ Exit /\ index' = Table
  BY DEF SaveIndex, Table
<1>2. \A c : ~Buffered(c) BY <1>1 DEF Buffered
<1>3. Durable(index)'
  BY <1>1, <1>2 DEF StoreInv, EntriesIntact, Durable, OnDisk
<1>4. Narrow(index)' BY <1>1 DEF StoreInv, Narrow
<1>5. \A n \in DOMAIN revs' : Exact(n, Placed(index, n))'
  <2> SUFFICES ASSUME NEW n \in DOMAIN revs PROVE Exact(n, Placed(index, n))'
    BY <1>1
  <2>1. Placed(index, n)' = {c \in Placed(Table, n) : ~Buffered(c)}
    BY <1>1, <1>2 DEF Placed
  <2> QED BY <2>1, <1>1 DEF StoreInv, RevExact, Exact
<1> QED BY <1>1, <1>3, <1>4, <1>5, ExitInv

\* A write that dies before its recipe is saved leaves the index it found.
LEMMA CrashInv ==
    ASSUME TypeOK, StoreInv, Crash, mishaps' = {}
    PROVE  StoreInv'
<1>1. /\ UNCHANGED <<containers, revs, index>> /\ Exit /\ task # "delete"
  BY DEF Crash, Note
<1>2. /\ Durable(index) /\ Narrow(index)
      /\ \A n \in DOMAIN revs : Exact(n, Placed(index, n))
  BY <1>1 DEF StoreInv, FileInv
<1>3. /\ Durable(index)' /\ Narrow(index)'
      /\ \A n \in DOMAIN revs' : Exact(n, Placed(index, n))'
  BY <1>1, <1>2 DEF Durable, OnDisk, Narrow, Exact, Placed
<1> QED BY <1>1, <1>3, ExitInv

-------------------------------------------------------------------------------
(***************************************************************************)
(* The inductive invariant: the last reference to a chunk goes.            *)
(***************************************************************************)
\* What the step does to chunk c with entry e in container n, and to the
\* entries that stay.
DeleteEffect(c, e, n) ==
    /\ c = Head(todo) /\ e = origin[c] /\ n = e.container_number
    /\ Table = origin /\ Table' = origin'
    /\ UNCHANGED <<index, task, added, pc, cindex, cbuf, rbuf>>
    /\ pc = "del" /\ task = "delete" /\ added = EmptyTable
    /\ n \in DOMAIN revs /\ revs[n] \in Seq(Chunk) /\ IsInjective(revs[n])
    /\ Range(revs[n]) = Placed(origin, n)
    /\ n \in DOMAIN containers /\ containers[n] \in Seq(Cell)
    /\ \A x \in DOMAIN origin : OnDisk(origin, x) /\ origin[x].offset < U32
    /\ containers' =
         IF CutRemovesFile(containers[n], e.offset, e.chunk_length)
         THEN Drop(containers, n)
         ELSE Put(containers, n, del_seg(containers[n], e.offset, e.chunk_length))
    /\ \/ Len(revs[n]) = 1 /\ revs' = Drop(revs, n)
       \/ Len(revs[n]) > 1 /\ revs' = Put(revs, n, del_seg(revs[n], d_pos(n, c), 1))
    /\ DOMAIN origin' = DOMAIN origin \ {c}
    /\ \A x \in DOMAIN origin' :
         /\ (origin')[x].container_number = origin[x].container_number
         /\ (origin')[x].chunk_length = origin[x].chunk_length
         /\ (origin')[x].offset =
              IF origin[x].container_number = n /\ origin[x].offset > e.offset
              THEN origin[x].offset - e.chunk_length ELSE origin[x].offset

LEMMA DeleteChunkEffect ==
    ASSUME TypeOK, ControlInv, StoreInv, DeleteChunk, mishaps' = {}
    PROVE  \E c \in DOMAIN origin, e \in EntryType, n \in Nat : DeleteEffect(c, e, n)
<1>1. PICK c \in DOMAIN origin : c = Head(todo) /\ origin[c].ref_cnt <= 1
  BY DEF DeleteChunk, ReleasesLast
<1>2. PICK e \in EntryType : e = origin[c]
  BY TablesTyped, EntryFields
<1>3. PICK n \in Nat : n = e.container_number BY <1>2 DEF EntryType
<1> DEFINE left == Restrict(origin, DOMAIN origin \ {c})
<1>4. /\ UNCHANGED <<index, task, added, pc, cindex, cbuf, rbuf>>
      /\ pc = "del" /\ task = "delete" /\ added = EmptyTable
  BY DEF DeleteChunk, ReleasesLast, ControlInv
<1>5. Table = origin /\ Table' = origin'
  <2>1. Table = save(origin, EmptyTable) /\ Table' = save(origin', EmptyTable)
    BY <1>4 DEF Table
  <2>2. TableType(origin) /\ TableType(origin')
    BY TablesTyped, TypeDeleteChunk DEF TypeOK, TableType
  <2> QED BY <2>1, <2>2, SaveNothing
<1>6. \A x : ~Buffered(x) /\ ~(Buffered(x)') BY <1>4 DEF Buffered
<1>7. decRefCnt(origin, c) = left
  <2>1. origin[c].ref_cnt \in Nat BY <1>2 DEF EntryType
  <2> QED BY <1>1, <2>1 DEF decRefCnt
<1>8. /\ c \in Chunk /\ e.offset \in Nat /\ e.chunk_length \in Nat
      /\ TableType(left) /\ DOMAIN left = DOMAIN origin \ {c}
      /\ \A x \in DOMAIN left : left[x] = origin[x] /\ x # c
  BY <1>2, TablesTyped, EntryFields, RestrictTableType DEF Restrict, EntryType, TableType
<1>9. ASSUME NEW x \in DOMAIN origin PROVE OnDisk(origin, x) /\ origin[x].offset < U32
  BY <1>5, <1>6 DEF StoreInv, EntriesIntact, Narrow
<1>10. HasRev(n) /\ RevCount(n) = Len(revs[n]) /\ Listed(n) = Range(revs[n])
       /\ n \in DOMAIN revs /\ revs[n] \in Seq(Chunk)
  <2>1. HasRev(n) BY <1>1, <1>2, <1>3 DEF DeleteChunk, Note
  <2> QED BY <2>1 DEF HasRev, RevCount, Listed, TypeOK
<1>11. Range(revs[n]) = Placed(origin, n) /\ IsInjective(revs[n])
  <2>1. {x \in Placed(Table, n) : ~Buffered(x)} = Placed(origin, n)
    BY <1>5, <1>6 DEF Placed
  <2>2. c \in Placed(origin, n) BY <1>2, <1>3 DEF Placed
  <2> QED BY <2>1, <2>2, <1>10 DEF StoreInv, RevExact, Exact
<1>12. /\ n \in DOMAIN containers /\ StoredAt(containers[n], e, c)
       /\ containers[n] \in Seq(Cell)
  BY <1>2, <1>3, <1>9 DEF OnDisk, TypeOK
<1>13. containers' =
         IF CutRemovesFile(containers[n], e.offset, e.chunk_length)
         THEN Drop(containers, n)
         ELSE Put(containers, n, del_seg(containers[n], e.offset, e.chunk_length))
  BY <1>1, <1>2, <1>3, <1>12 DEF DeleteChunk, CutContainer
\* The entries left, and where they are now.
<1>14. /\ DOMAIN origin' = DOMAIN left
       /\ \A x \in DOMAIN left :
            /\ (origin')[x].container_number = left[x].container_number
            /\ (origin')[x].chunk_length = left[x].chunk_length
            /\ (origin')[x].offset =
                 IF left[x].container_number = n /\ left[x].offset > e.offset
                 THEN left[x].offset - e.chunk_length ELSE left[x].offset
  <2>1. CASE RevCount(n) = 1 /\ origin' = left
    <3>1. \A x \in DOMAIN left : left[x].container_number # n
      <4> SUFFICES ASSUME NEW x \in DOMAIN left, left[x].container_number = n
                   PROVE  FALSE
        OBVIOUS
      <4>1. x \in Range(revs[n]) /\ c \in Range(revs[n]) /\ x # c
        BY <1>2, <1>3, <1>8, <1>11 DEF Placed
      <4>2. DOMAIN revs[n] = 1..1 BY <2>1, <1>10, FunctionOfSeq
      <4> QED BY <4>1, <4>2 DEF Range
    <3> QED BY <2>1, <3>1
  <2>2. CASE origin' = chunkOffsetDec(left, Listed(n) \ {c}, e.offset, e.chunk_length)
    <3> SUFFICES ASSUME NEW x \in DOMAIN left
                 PROVE  /\ (origin')[x].container_number = left[x].container_number
                        /\ (origin')[x].chunk_length = left[x].chunk_length
                        /\ (origin')[x].offset =
                             IF left[x].container_number = n /\ left[x].offset > e.offset
                             THEN left[x].offset - e.chunk_length ELSE left[x].offset
      BY <2>2 DEF chunkOffsetDec
    <3>1. x \in Listed(n) \ {c} <=> left[x].container_number = n
      BY <1>8, <1>10, <1>11 DEF Placed
    <3>2. CASE left[x].container_number = n
      <4>1. StoredAt(containers[n], left[x], x) /\ left[x].offset < U32
        BY <3>2, <1>8, <1>9 DEF OnDisk
      <4>2. left[x] \in EntryType /\ x \in Chunk /\ x # c BY <1>8, EntryFields
      <4>3. \/ left[x].offset + ChunkLen[x] <= e.offset
            \/ e.offset + ChunkLen[c] <= left[x].offset
        BY <4>1, <4>2, <1>8, <1>12, Disjoint
      <4>4. e.chunk_length = ChunkLen[c] /\ ChunkLen[x] \in Nat \ {0} /\ left[x].offset \in Nat
        BY <4>2, <1>12, ChunkAssumption DEF StoredAt, EntryType
      <4>5. left[x].offset > e.offset => left[x].offset >= e.chunk_length
        BY <4>3, <4>4, <1>8
      <4> QED BY <2>2, <3>1, <4>1, <4>5, <1>8, ShiftedEntry
    <3>3. CASE left[x].container_number # n
      BY <2>2, <3>1, <3>3 DEF chunkOffsetDec
    <3> QED BY <3>2, <3>3
  <2>3. ~(RevCount(n) = 0)
    <3>1. Len(revs[n]) # 0 BY <1>10 DEF HasRev
    <3> QED BY <3>1, <1>10
  <2> QED BY <2>1, <2>2, <2>3, <1>1, <1>2, <1>3, <1>7 DEF DeleteChunk
<1>15. \/ Len(revs[n]) = 1 /\ revs' = Drop(revs, n)
       \/ Len(revs[n]) > 1 /\ revs' = Put(revs, n, del_seg(revs[n], d_pos(n, c), 1))
  <2>1. ~(RevCount(n) = 0)
    <3>1. Len(revs[n]) # 0 BY <1>10 DEF HasRev
    <3> QED BY <3>1, <1>10
  <2> QED BY <2>1, <1>1, <1>2, <1>3, <1>10 DEF DeleteChunk
<1>16. \A x \in DOMAIN origin' :
         /\ (origin')[x].container_number = origin[x].container_number
         /\ (origin')[x].chunk_length = origin[x].chunk_length
         /\ (origin')[x].offset =
              IF origin[x].container_number = n /\ origin[x].offset > e.offset
              THEN origin[x].offset - e.chunk_length ELSE origin[x].offset
  BY <1>8, <1>14
<1>17. DOMAIN origin' = DOMAIN origin \ {c} BY <1>8, <1>14
<1>18. DeleteEffect(c, e, n)
  BY <1>1, <1>2, <1>3, <1>4, <1>5, <1>9, <1>10, <1>11, <1>12, <1>13, <1>15, <1>16, <1>17
  DEF DeleteEffect
<1> QED BY <1>18

LEMMA DeleteChunkInv ==
    ASSUME TypeOK, ControlInv, StoreInv, DeleteChunk, mishaps' = {}
    PROVE  StoreInv'
<1>1. PICK c \in DOMAIN origin, e \in EntryType, n \in Nat : DeleteEffect(c, e, n)
  BY DeleteChunkEffect
<1>2. /\ c \in Chunk /\ e.offset \in Nat /\ e.chunk_length \in Nat /\ TableType(origin)
      /\ e = origin[c] /\ n = e.container_number
      /\ DOMAIN origin' = DOMAIN origin \ {c} /\ Table = origin /\ Table' = origin'
      /\ \A x \in DOMAIN origin : OnDisk(origin, x) /\ origin[x].offset < U32
      /\ n \in DOMAIN containers /\ containers[n] \in Seq(Cell)
  BY <1>1, TablesTyped, EntryFields DEF DeleteEffect
<1>3. StoredAt(containers[n], e, c) BY <1>2 DEF OnDisk
<1>4. /\ UNCHANGED <<index, task, added, pc, cindex, cbuf, rbuf>>
      /\ pc = "del" /\ task = "delete" /\ added = EmptyTable
  BY <1>1 DEF DeleteEffect
<1>5. \A x : ~Buffered(x) /\ ~(Buffered(x)') BY <1>4 DEF Buffered
<1>6. containers' =
         IF CutRemovesFile(containers[n], e.offset, e.chunk_length)
         THEN Drop(containers, n)
         ELSE Put(containers, n, del_seg(containers[n], e.offset, e.chunk_length))
  BY <1>1 DEF DeleteEffect
<1>7. \A x \in DOMAIN origin' :
         /\ (origin')[x].container_number = origin[x].container_number
         /\ (origin')[x].chunk_length = origin[x].chunk_length
         /\ (origin')[x].offset =
              IF origin[x].container_number = n /\ origin[x].offset > e.offset
              THEN origin[x].offset - e.chunk_length ELSE origin[x].offset
  BY <1>1 DEF DeleteEffect
<1>8. ASSUME NEW x \in DOMAIN origin' PROVE OnDisk(origin, x)' /\ (origin')[x].offset < U32
  <2> DEFINE g == origin[x]
             h == (origin')[x]
  <2>1. x \in DOMAIN origin /\ x # c /\ x \in Chunk BY <1>2, EntryFields
  <2>2. g \in EntryType /\ h \in EntryType
    BY <2>1, <1>2, <1>8, EntryFields, TypeDeleteChunk DEF TypeOK
  <2>3. CASE g.container_number = n
    <3>1. StoredAt(containers[n], g, x) BY <2>1, <2>3, <1>2 DEF OnDisk
    <3>2. h.chunk_length = g.chunk_length
          /\ h.offset = IF g.offset > e.offset THEN g.offset - e.chunk_length ELSE g.offset
      BY <1>8, <2>3, <1>7
    <3>3. /\ StoredAt(del_seg(containers[n], e.offset, e.chunk_length), h, x)
          /\ ~CutRemovesFile(containers[n], e.offset, e.chunk_length)
      BY <2>1, <2>2, <3>1, <3>2, <1>2, <1>3, CutKeepsOthers
    <3>4. /\ n \in DOMAIN containers'
          /\ (containers')[n] = del_seg(containers[n], e.offset, e.chunk_length)
      BY <3>3, <1>6 DEF Put
    <3>5. h.container_number = n BY <1>8, <2>3, <1>7
    <3>6. g.offset < U32 /\ h.offset <= g.offset
      BY <2>1, <2>2, <3>2, <1>2 DEF EntryType
    <3>7. h.offset < U32 BY <3>6, <2>2, WidthAssumption DEF EntryType
    <3> QED BY <3>3, <3>4, <3>5, <3>7 DEF OnDisk
  <2>4. CASE g.container_number # n
    <3>1. OnDisk(origin, x) /\ g.offset < U32 BY <2>1, <1>2
    <3>2. /\ h.container_number = g.container_number
          /\ h.chunk_length = g.chunk_length /\ h.offset = g.offset
      BY <1>8, <2>4, <1>7
    <3>3. /\ g.container_number \in DOMAIN containers'
          /\ (containers')[g.container_number] = containers[g.container_number]
      BY <2>1, <2>4, <3>1, <1>6 DEF OnDisk, Put, Drop, Restrict
    <3> QED BY <2>1, <3>1, <3>2, <3>3 DEF OnDisk, StoredAt
  <2> QED BY <2>3, <2>4
<1>9. EntriesIntact' /\ Narrow(Table)'
  BY <1>2, <1>5, <1>8 DEF EntriesIntact, Narrow, OnDisk
<1>10. /\ n \in DOMAIN revs /\ revs[n] \in Seq(Chunk) /\ IsInjective(revs[n])
       /\ Range(revs[n]) = Placed(origin, n) /\ c \in Range(revs[n])
       /\ \/ Len(revs[n]) = 1 /\ revs' = Drop(revs, n)
          \/ Len(revs[n]) > 1 /\ revs' = Put(revs, n, del_seg(revs[n], d_pos(n, c), 1))
  BY <1>1, <1>2 DEF DeleteEffect, Placed
<1>11. RevExact'
  <2> SUFFICES ASSUME NEW m \in DOMAIN revs'
               PROVE  Exact(m, {x \in Placed(Table, m) : ~Buffered(x)})'
    BY DEF RevExact
  <2>1. {x \in Placed(Table, m) : ~Buffered(x)}' = Placed(origin, m) \ {c}
    <3>1. Placed(Table, m)' = Placed(origin, m) \ {c}
      BY <1>2, <1>7 DEF Placed
    <3> QED BY <3>1, <1>5
  <2>2. CASE m # n
    <3>1. m \in DOMAIN revs /\ (revs')[m] = revs[m]
      BY <2>2, <1>10 DEF Put, Drop, Restrict
    <3>2. Placed(origin, m) \ {c} = {x \in Placed(Table, m) : ~Buffered(x)}
      BY <2>2, <1>2, <1>5 DEF Placed
    <3> QED BY <2>1, <3>1, <3>2 DEF StoreInv, RevExact, Exact
  <2>3. CASE m = n
    <3>1. revs' = Put(revs, n, del_seg(revs[n], d_pos(n, c), 1))
      BY <2>3, <1>10 DEF Drop, Restrict
    <3> DEFINE list == revs[n]
    <3>2. PICK p \in 0..(Len(list) - 1) : p = d_pos(n, c) /\ list[p + 1] = c
      <4>1. PICK i \in 1..Len(list) : list[i] = c
        BY <1>10, FunctionOfSeq DEF Range
      <4>2. i - 1 \in 0..(Len(list) - 1) /\ list[(i - 1) + 1] = c BY <4>1, <1>10
      <4> QED BY <4>2 DEF d_pos
    <3>3. PICK new \in Seq(Chunk) :
            /\ new = del_seg(list, p, 1) /\ Len(new) = Len(list) - 1
            /\ \A i \in 1..(Len(list) - 1) : new[i] = IF i <= p THEN list[i] ELSE list[i + 1]
      BY <1>10, ListCut
    <3>4. /\ DOMAIN new = 1..(Len(list) - 1) /\ DOMAIN list = 1..Len(list)
          /\ Len(list) \in Nat /\ p \in Nat
      BY <3>3, <1>10, FunctionOfSeq
    <3>5. Range(new) = Range(list) \ {c}
      <4>1. ASSUME NEW i \in 1..(Len(list) - 1) PROVE new[i] \in Range(list) \ {c}
        <5>1. CASE i <= p
          <6>1. i \in DOMAIN list /\ p + 1 \in DOMAIN list /\ i # p + 1 BY <5>1, <3>4
          <6>2. new[i] = list[i] BY <5>1, <3>3
          <6>3. list[i] # c BY <6>1, <3>2, <1>10 DEF IsInjective
          <6> QED BY <6>1, <6>2, <6>3 DEF Range
        <5>2. CASE ~(i <= p)
          <6>1. i + 1 \in DOMAIN list /\ p + 1 \in DOMAIN list /\ i + 1 # p + 1 BY <5>2, <3>4
          <6>2. new[i] = list[i + 1] BY <5>2, <3>3
          <6>3. list[i + 1] # c BY <6>1, <3>2, <1>10 DEF IsInjective
          <6> QED BY <6>1, <6>2, <6>3 DEF Range
        <5> QED BY <5>1, <5>2
      <4>2. ASSUME NEW j \in 1..Len(list), list[j] # c PROVE list[j] \in Range(new)
        <5>1. j # p + 1 BY <4>2, <3>2
        <5>2. CASE j <= p
          <6>1. j \in 1..(Len(list) - 1) /\ new[j] = list[j] BY <5>2, <3>3, <3>4
          <6> QED BY <6>1, <3>4 DEF Range
        <5>3. CASE j > p + 1
          <6>1. j - 1 \in 1..(Len(list) - 1) /\ ~(j - 1 <= p) /\ (j - 1) + 1 = j
            BY <5>3, <3>4
          <6>2. new[j - 1] = list[j] BY <6>1, <3>3
          <6> QED BY <6>1, <6>2, <3>4 DEF Range
        <5> QED BY <5>1, <5>2, <5>3, <3>4
      <4> QED BY <4>1, <4>2, <3>4 DEF Range
    <3>6. IsInjective(new)
      <4> SUFFICES ASSUME NEW i \in 1..(Len(list) - 1), NEW j \in 1..(Len(list) - 1),
                          new[i] = new[j]
                   PROVE  i = j
        BY <3>4 DEF IsInjective
      <4> DEFINE at(k) == IF k <= p THEN k ELSE k + 1
      <4>1. /\ at(i) \in DOMAIN list /\ at(j) \in DOMAIN list
            /\ new[i] = list[at(i)] /\ new[j] = list[at(j)]
        <5>1. ASSUME NEW k \in 1..(Len(list) - 1)
              PROVE  at(k) \in DOMAIN list /\ new[k] = list[at(k)]
          <6>1. CASE k <= p
            <7>1. at(k) = k /\ k \in DOMAIN list BY <6>1, <3>4
            <7>2. new[k] = list[k] BY <6>1, <3>3
            <7> QED BY <7>1, <7>2
          <6>2. CASE ~(k <= p)
            <7>1. at(k) = k + 1 /\ k + 1 \in DOMAIN list BY <6>2, <3>4
            <7>2. new[k] = list[k + 1] BY <6>2, <3>3
            <7> QED BY <7>1, <7>2
          <6> QED BY <6>1, <6>2
        <5> QED BY <5>1
      <4>2. at(i) = at(j) BY <4>1, <1>10 DEF IsInjective
      <4> QED BY <4>2, <3>4
    <3>7. (revs')[n] = new BY <3>1, <3>2, <3>3 DEF Put
    <3> QED BY <2>1, <2>3, <3>5, <3>6, <3>7, <1>10 DEF Exact
  <2> QED BY <2>2, <2>3
<1>12. FileInv' BY <1>4 DEF FileInv
<1>13. TablesInv' BY <1>4, EmptyTableType DEF TablesInv
<1>14. BufferInv' BY <1>4 DEF BufferInv
<1> QED BY <1>9, <1>11, <1>12, <1>13, <1>14 DEF StoreInv

-------------------------------------------------------------------------------
LEMMA InvNext == IInv /\ [Next]_vars => IInv'
<1> SUFFICES ASSUME TypeOK, ControlInv, mishaps = {} => StoreInv, [Next]_vars
             PROVE  IInv'
  BY DEF IInv
<1>1. TypeOK' BY TypeNext
<1>2. ControlInv' BY ControlStep
<1>3. ASSUME mishaps' = {} PROVE StoreInv'
  <2>1. StoreInv BY <1>3, MishapsStay
  <2>2. ASSUME NEW kind \in WriteTasks, NEW file \in Files, StartWrite(kind, file)
        PROVE  StoreInv'
    <3>1. LoadIndex /\ UNCHANGED <<containers, revs, index, rbuf>> /\ pc' = "loop"
      BY <2>2 DEF StartWrite, disk
    <3> QED BY <3>1, <1>3, <2>1, StartInv
  <2>3. ASSUME NEW v \in DOMAIN catalog \cup DOMAIN recipes, StartDelete(v)
        PROVE  StoreInv'
    <3>1. LoadIndex /\ UNCHANGED <<containers, revs, index, rbuf>> /\ pc' = "del"
      BY <2>3 DEF StartDelete, disk, buffers
    <3> QED BY <3>1, <1>3, <2>1, StartInv
  <2>4. CASE UNCHANGED vars
    <3>1. /\ SamePlaces(origin, origin') /\ SamePlaces(added, added')
          /\ UNCHANGED <<containers, revs, index, pc, task, cindex, cbuf, rbuf>>
      BY <2>4 DEF vars, disk, input, tables, buffers, SamePlaces
    <3>2. CASE pc # "idle" BY <2>1, <3>1, <3>2, RefCntInv
    <3>3. CASE pc = "idle"
      BY <2>1, <2>4, <3>3
      DEF vars, disk, input, tables, buffers, StoreInv, EntriesIntact, RevExact, Narrow,
          FileInv, TablesInv, BufferInv, Durable, Exact, Placed, OnDisk, Buffered, Table
    <3> QED BY <3>2, <3>3
  <2>5. ~DeleteFatal /\ ~DeleteUndefined
    BY <1>3 DEF DeleteFatal, DeleteUndefined, Note
  <2> QED
    BY <1>3, <2>1, <2>2, <2>3, <2>4, <2>5, DedupChunkInv, UniqueChunkInv,
       SaveContainerInv, SaveRevInv, RecipeInv, DeleteRefInv, DeleteChunkInv,
       SaveIndexInv, CrashInv
    DEF Next
<1> QED BY <1>1, <1>2, <1>3 DEF IInv

\* The invariant of the whole store, for every index, container size, crash
\* and mix of tasks.
THEOREM InvHolds == Spec => []IInv
BY InvInit, InvNext, PTL DEF Spec

\* Until a mishap, every entry of the index leads to the bytes of its own chunk
\* and every reverse list is exact, at every step of every task.
THEOREM SoundUntilMishapHolds == Spec => []SoundUntilMishap
<1>1. IInv => SoundUntilMishap BY DEF IInv, StoreInv, SoundUntilMishap
<1> QED BY <1>1, InvHolds, PTL

\* Until a mishap, the index file names only what is on disk, at every step of
\* a write: a write may die anywhere before it saves its recipe.
THEOREM DurableUntilMishapHolds == Spec => []DurableUntilMishap
<1>1. IInv => DurableUntilMishap
  BY DEF IInv, StoreInv, FileInv, DurableUntilMishap
<1> QED BY <1>1, InvHolds, PTL

-------------------------------------------------------------------------------
(***************************************************************************)
(* A shelf is a family of chunk lists: the recipes, and under the number   *)
(* -1 the recipe in memory.  Its places that hold chunk c.                 *)
(***************************************************************************)
ShelfType(f) ==
    f \in [DOMAIN f -> Seq(Chunk)] /\ DOMAIN f \subseteq Int /\ IsFiniteSet(DOMAIN f)

HoldersIn(f, c) ==
    {p \in Int \X Nat : p[1] \in DOMAIN f /\ p[2] \in DOMAIN f[p[1]] /\ f[p[1]][p[2]] = c}

\* The table counts the places of the shelf.
Counted(table, f) ==
    \A c \in Chunk :
      /\ c \in DOMAIN table <=> HoldersIn(f, c) # {}
      /\ c \in DOMAIN table => table[c].ref_cnt = Cardinality(HoldersIn(f, c))

\* A shelf has finitely many places.
LEMMA HoldersFinite ==
    ASSUME NEW f, ShelfType(f), NEW c
    PROVE  IsFiniteSet(HoldersIn(f, c))
<1> DEFINE Row(v) == {v} \X (1..Len(f[v]))
           rows == {Row(v) : v \in DOMAIN f}
           row == [v \in DOMAIN f |-> Row(v)]
<1>1. \A v \in DOMAIN f : Len(f[v]) \in Nat /\ DOMAIN f[v] = 1..Len(f[v])
  BY FunctionOfSeq DEF ShelfType
<1>2. \A T \in rows : IsFiniteSet(T)
  <2>1. ASSUME NEW v \in DOMAIN f PROVE IsFiniteSet(Row(v))
    <3>1. IsFiniteSet(1..Len(f[v])) BY <1>1, FS_Interval
    <3>2. IsFiniteSet({v}) BY FS_Singleton
    <3> QED BY <3>1, <3>2, FS_Product
  <2> QED BY <2>1
<1>3. IsFiniteSet(rows)
  <2>1. row \in Surjection(DOMAIN f, rows) BY DEF Surjection
  <2> QED BY <2>1, FS_Surjection DEF ShelfType
<1>4. IsFiniteSet(UNION rows) BY <1>2, <1>3, FS_UNION
<1>5. HoldersIn(f, c) \subseteq UNION rows
  <2> SUFFICES ASSUME NEW p \in HoldersIn(f, c) PROVE p \in Row(p[1]) /\ p[1] \in DOMAIN f
    OBVIOUS
  <2>1. p \in Int \X Nat /\ p[1] \in DOMAIN f /\ p[2] \in 1..Len(f[p[1]])
    BY <1>1 DEF HoldersIn
  <2> QED BY <2>1
<1> QED BY <1>4, <1>5, FS_Subset

\* Lists without a chunk hold no place.
LEMMA EmptyLists ==
    ASSUME NEW f, ShelfType(f), NEW g, ShelfType(g),
           \A v \in DOMAIN f : f[v] # <<>> => v \in DOMAIN g /\ g[v] = f[v],
           \A v \in DOMAIN g : g[v] # <<>> => v \in DOMAIN f /\ g[v] = f[v],
           NEW c
    PROVE  HoldersIn(g, c) = HoldersIn(f, c)
<1>1. \A v \in DOMAIN f : DOMAIN f[v] = {} \/ f[v] # <<>> BY FunctionOfSeq DEF ShelfType
<1>2. \A v \in DOMAIN g : DOMAIN g[v] = {} \/ g[v] # <<>> BY FunctionOfSeq DEF ShelfType
<1> QED BY <1>1, <1>2 DEF HoldersIn

\* A chunk is put behind a list.
LEMMA CountedAppend ==
    ASSUME NEW f, ShelfType(f), NEW g, NEW v \in DOMAIN f, NEW c \in Chunk,
           DOMAIN g = DOMAIN f, g[v] = Append(f[v], c),
           \A w \in DOMAIN f : w # v => g[w] = f[w],
           NEW t, NEW u, Counted(t, f), DOMAIN u = DOMAIN t \cup {c},
           u[c].ref_cnt = IF c \in DOMAIN t THEN t[c].ref_cnt + 1 ELSE 1,
           \A x \in DOMAIN t : x # c => u[x].ref_cnt = t[x].ref_cnt
    PROVE  Counted(u, g)
<1> DEFINE k == Len(f[v]) + 1
<1>1. /\ f[v] \in Seq(Chunk) /\ k \in Nat /\ v \in Int
      /\ DOMAIN f[v] = 1..Len(f[v]) /\ DOMAIN g[v] = 1..k
      /\ g[v][k] = c /\ \A i \in 1..Len(f[v]) : g[v][i] = f[v][i]
  BY AppendProperties, FunctionOfSeq DEF ShelfType
<1>2. k \notin DOMAIN f[v] /\ DOMAIN g[v] = DOMAIN f[v] \cup {k} BY <1>1
<1>3. <<v, k>> \in Int \X Nat /\ <<v, k>>[1] = v /\ <<v, k>>[2] = k BY <1>1
<1> HIDE DEF k
<1>4. \A p \in Int \X Nat : p[1] = v /\ p[2] = k => p = <<v, k>> OBVIOUS
<1>5. \A x : x # c => HoldersIn(g, x) = HoldersIn(f, x)
  <2> SUFFICES ASSUME NEW x, x # c, NEW p \in Int \X Nat
               PROVE  p \in HoldersIn(g, x) <=> p \in HoldersIn(f, x)
    BY DEF HoldersIn
  <2>1. CASE p[1] = v BY <2>1, <1>1, <1>2 DEF HoldersIn
  <2>2. CASE p[1] # v BY <2>2 DEF HoldersIn
  <2> QED BY <2>1, <2>2
<1>6. HoldersIn(g, c) = HoldersIn(f, c) \cup {<<v, k>>}
  <2> SUFFICES ASSUME NEW p \in Int \X Nat
               PROVE  p \in HoldersIn(g, c) <=> p \in HoldersIn(f, c) \/ p = <<v, k>>
    BY <1>3 DEF HoldersIn
  <2>1. CASE p[1] = v /\ p[2] = k BY <2>1, <1>1, <1>2, <1>4 DEF HoldersIn
  <2>2. CASE p[1] = v /\ p[2] # k BY <2>2, <1>1, <1>2, <1>3 DEF HoldersIn
  <2>3. CASE p[1] # v BY <2>3, <1>3 DEF HoldersIn
  <2> QED BY <2>1, <2>2, <2>3
<1>7. <<v, k>> \notin HoldersIn(f, c) BY <1>2, <1>3 DEF HoldersIn
<1>8. IsFiniteSet(HoldersIn(f, c)) BY HoldersFinite
<1>9. Cardinality(HoldersIn(g, c)) = Cardinality(HoldersIn(f, c)) + 1
  BY <1>6, <1>7, <1>8, FS_AddElement
<1>10. HoldersIn(g, c) # {} BY <1>6
<1>11. u[c].ref_cnt = Cardinality(HoldersIn(g, c))
  <2>1. CASE c \in DOMAIN t BY <2>1, <1>9 DEF Counted
  <2>2. CASE c \notin DOMAIN t
    <3>1. HoldersIn(f, c) = {} BY <2>2 DEF Counted
    <3> QED BY <2>2, <3>1, <1>9, FS_EmptySet
  <2> QED BY <2>1, <2>2
<1> QED BY <1>5, <1>10, <1>11 DEF Counted

\* The first chunk of a list is taken away.
LEMMA CountedTail ==
    ASSUME NEW f, ShelfType(f), NEW g, ShelfType(g), NEW v \in DOMAIN f,
           f[v] # <<>>, DOMAIN g = DOMAIN f, g[v] = Tail(f[v]),
           \A w \in DOMAIN f : w # v => g[w] = f[w],
           NEW c, c = Head(f[v]),
           NEW t, NEW u, TableType(t), Counted(t, f), c \in DOMAIN t,
           IF t[c].ref_cnt > 1
           THEN DOMAIN u = DOMAIN t /\ u[c].ref_cnt = t[c].ref_cnt - 1
           ELSE DOMAIN u = DOMAIN t \ {c},
           \A x \in DOMAIN u : x # c => u[x].ref_cnt = t[x].ref_cnt
    PROVE  Counted(u, g)
<1>1. /\ f[v] \in Seq(Chunk) /\ Len(f[v]) \in Nat \ {0} /\ v \in Int
      /\ DOMAIN f[v] = 1..Len(f[v]) /\ DOMAIN g[v] = 1..(Len(f[v]) - 1)
      /\ f[v][1] = c /\ \A i \in 1..(Len(f[v]) - 1) : g[v][i] = f[v][i + 1]
  <2>1. f[v] \in Seq(Chunk) /\ v \in Int BY DEF ShelfType
  <2> QED BY <2>1, HeadTailProperties, FunctionOfSeq
<1> DEFINE first == <<v, 1>>
           Was(x) == HoldersIn(f, x) \ {first}
           Is(x) == HoldersIn(g, x)
           move(x) == [p \in Was(x) |-> IF p[1] = v THEN <<v, p[2] - 1>> ELSE p]
<1>2. first \in HoldersIn(f, c) /\ \A x : x # c => first \notin HoldersIn(f, x)
  BY <1>1 DEF HoldersIn
<1>3. ASSUME NEW x PROVE IsFiniteSet(Is(x)) /\ Cardinality(Is(x)) = Cardinality(Was(x))
  <2>1. IsFiniteSet(Was(x)) BY HoldersFinite, FS_RemoveElement
  <2>2. \A p \in Was(x) :
          /\ p \in Int \X Nat /\ p = <<p[1], p[2]>>
          /\ p[1] = v => p[2] \in 2..Len(f[v])
    <3> SUFFICES ASSUME NEW p \in Was(x)
                 PROVE  /\ p \in Int \X Nat /\ p = <<p[1], p[2]>>
                        /\ p[1] = v => p[2] \in 2..Len(f[v])
      OBVIOUS
    <3>1. p \in Int \X Nat /\ p = <<p[1], p[2]>> BY DEF HoldersIn
    <3>2. ASSUME p[1] = v PROVE p[2] \in 2..Len(f[v])
      <4>1. p[2] \in 1..Len(f[v]) BY <3>2, <1>1 DEF HoldersIn
      <4>2. p[2] # 1 BY <3>1, <3>2
      <4> QED BY <4>1, <4>2
    <3> QED BY <3>1, <3>2
  <2>3. \A p \in Was(x) : move(x)[p] \in Is(x)
    <3> SUFFICES ASSUME NEW p \in Was(x) PROVE move(x)[p] \in Is(x)
      OBVIOUS
    <3>1. CASE p[1] = v
      <4>1. p[2] \in 2..Len(f[v]) BY <2>2, <3>1
      <4>2. f[v][p[2]] = x BY <3>1 DEF HoldersIn
      <4>3. /\ p[2] - 1 \in 1..(Len(f[v]) - 1) /\ (p[2] - 1) + 1 = p[2] /\ p[2] - 1 \in Nat
        BY <4>1, <1>1
      <4>4. g[v][p[2] - 1] = x BY <4>2, <4>3, <1>1
      <4> QED BY <3>1, <4>3, <4>4, <1>1 DEF HoldersIn
    <3>2. CASE p[1] # v BY <3>2 DEF HoldersIn
    <3> QED BY <3>1, <3>2
  <2>4. \A p, q \in Was(x) : move(x)[p] = move(x)[q] => p = q
    <3> SUFFICES ASSUME NEW p \in Was(x), NEW q \in Was(x), move(x)[p] = move(x)[q]
                 PROVE  p = q
      OBVIOUS
    <3>1. p \in Int \X Nat /\ q \in Int \X Nat /\ p = <<p[1], p[2]>> /\ q = <<q[1], q[2]>>
      BY <2>2
    <3>2. p[1] = q[1] BY <3>1
    <3>3. CASE p[1] = v
      <4>1. p[2] - 1 = q[2] - 1 BY <3>2, <3>3
      <4>2. p[2] \in Nat /\ q[2] \in Nat BY <3>1
      <4>3. p[2] = q[2] BY <4>1, <4>2
      <4> QED BY <3>1, <3>2, <4>3
    <3>4. CASE p[1] # v BY <3>2, <3>4
    <3> QED BY <3>3, <3>4
  <2>5. \A q \in Is(x) : \E p \in Was(x) : move(x)[p] = q
    <3> SUFFICES ASSUME NEW q \in Is(x) PROVE \E p \in Was(x) : move(x)[p] = q
      OBVIOUS
    <3>1. q \in Int \X Nat /\ q = <<q[1], q[2]>> BY DEF HoldersIn
    <3>2. CASE q[1] = v
      <4> DEFINE p == <<v, q[2] + 1>>
      <4>1. q[2] \in 1..(Len(f[v]) - 1) /\ g[v][q[2]] = x BY <3>2, <1>1 DEF HoldersIn
      <4>2. /\ q[2] + 1 \in 1..Len(f[v]) /\ q[2] + 1 # 1 /\ q[2] + 1 \in Nat
            /\ (q[2] + 1) - 1 = q[2]
        BY <4>1, <1>1
      <4>3. f[v][q[2] + 1] = x BY <4>1, <1>1
      <4>4. p \in Was(x) BY <4>2, <4>3, <1>1 DEF HoldersIn
      <4>5. move(x)[p] = q BY <3>1, <3>2, <4>2, <4>4
      <4> QED BY <4>4, <4>5
    <3>3. CASE q[1] # v
      <4>1. q \in Was(x) BY <3>3 DEF HoldersIn
      <4>2. move(x)[q] = q BY <3>3, <4>1
      <4> QED BY <4>1, <4>2
    <3> QED BY <3>2, <3>3
  <2>6. move(x) \in Bijection(Was(x), Is(x))
    <3> HIDE DEF Was, Is
    <3>1. move(x) \in [Was(x) -> Is(x)] BY <2>3
    <3>2. DOMAIN move(x) = Was(x) OBVIOUS
    <3> HIDE DEF move
    <3> QED BY <3>1, <3>2, <2>4, <2>5 DEF Bijection, Injection, Surjection, IsInjective
  <2> QED BY <2>1, <2>6, FS_Bijection DEF ExistsBijection
<1>4. ASSUME NEW x \in Chunk, x # c
      PROVE  /\ x \in DOMAIN u <=> HoldersIn(g, x) # {}
             /\ x \in DOMAIN u => u[x].ref_cnt = Cardinality(HoldersIn(g, x))
  <2>1. Was(x) = HoldersIn(f, x) BY <1>2, <1>4
  <2>2. Cardinality(HoldersIn(g, x)) = Cardinality(HoldersIn(f, x))
        /\ IsFiniteSet(HoldersIn(g, x)) /\ IsFiniteSet(HoldersIn(f, x))
    BY <1>3, <2>1, HoldersFinite
  <2>3. HoldersIn(g, x) = {} <=> HoldersIn(f, x) = {} BY <2>2, FS_EmptySet
  <2>4. x \in DOMAIN u <=> x \in DOMAIN t BY <1>4
  <2> QED BY <2>2, <2>3, <2>4, <1>4 DEF Counted
<1>5. /\ Cardinality(HoldersIn(g, c)) = Cardinality(HoldersIn(f, c)) - 1
      /\ IsFiniteSet(HoldersIn(g, c))
  <2>1. Cardinality(Was(c)) = Cardinality(HoldersIn(f, c)) - 1
    BY <1>2, HoldersFinite, FS_RemoveElement
  <2> QED BY <1>3, <2>1
<1>6. /\ c \in DOMAIN u <=> HoldersIn(g, c) # {}
      /\ c \in DOMAIN u => u[c].ref_cnt = Cardinality(HoldersIn(g, c))
  <2>1. c \in Chunk /\ t[c].ref_cnt \in Nat BY EntryFields
  <2>2. t[c].ref_cnt = Cardinality(HoldersIn(f, c)) BY <2>1 DEF Counted
  <2>3. HoldersIn(g, c) = {} <=> t[c].ref_cnt = 1
    BY <1>5, <2>1, <2>2, FS_EmptySet
  <2>4. t[c].ref_cnt # 0
    BY <1>2, <2>2, HoldersFinite, FS_EmptySet
  <2>5. CASE t[c].ref_cnt > 1 BY <2>1, <2>2, <2>3, <2>5, <1>5
  <2>6. CASE ~(t[c].ref_cnt > 1)
    <3>1. t[c].ref_cnt = 1 BY <2>1, <2>4, <2>6
    <3> QED BY <2>3, <2>6, <3>1
  <2> QED BY <2>5, <2>6
<1> QED BY <1>4, <1>6 DEF Counted

\* A list gets another number.
LEMMA CountedMove ==
    ASSUME NEW f, ShelfType(f), NEW g, NEW v \in DOMAIN f, NEW w \in Int,
           w \notin DOMAIN f, DOMAIN g = DOMAIN f \cup {w},
           g[w] = f[v], g[v] = <<>>,
           \A x \in DOMAIN f : x # v => g[x] = f[x],
           NEW t, Counted(t, f)
    PROVE  Counted(t, g)
<1> DEFINE Was(c) == HoldersIn(f, c)
           Is(c) == HoldersIn(g, c)
           move(c) == [p \in Was(c) |-> IF p[1] = v THEN <<w, p[2]>> ELSE p]
<1>1. v \in Int /\ v # w /\ DOMAIN g[v] = {} /\ DOMAIN g[w] = DOMAIN f[v]
  BY FunctionOfSeq DEF ShelfType
<1>2. ASSUME NEW c PROVE /\ Cardinality(Is(c)) = Cardinality(Was(c))
                         /\ Is(c) = {} <=> Was(c) = {}
  <2>1. IsFiniteSet(Was(c)) BY HoldersFinite
  <2>2. \A p \in Was(c) : p \in Int \X Nat /\ p = <<p[1], p[2]>> /\ p[1] # w
    BY DEF HoldersIn
  <2>3. \A p \in Was(c) : move(c)[p] \in Is(c)
    <3> SUFFICES ASSUME NEW p \in Was(c) PROVE move(c)[p] \in Is(c)
      OBVIOUS
    <3>1. CASE p[1] = v BY <3>1, <1>1 DEF HoldersIn
    <3>2. CASE p[1] # v BY <3>2, <1>1 DEF HoldersIn
    <3> QED BY <3>1, <3>2
  <2>4. \A p, q \in Was(c) : move(c)[p] = move(c)[q] => p = q
    <3> SUFFICES ASSUME NEW p \in Was(c), NEW q \in Was(c), move(c)[p] = move(c)[q]
                 PROVE  p = q
      OBVIOUS
    <3>1. /\ p \in Int \X Nat /\ p = <<p[1], p[2]>> /\ p[1] # w
          /\ q \in Int \X Nat /\ q = <<q[1], q[2]>> /\ q[1] # w
      BY <2>2
    <3>2. CASE p[1] = v /\ q[1] = v
      <4>1. p[2] = q[2] BY <3>2
      <4> QED BY <3>1, <3>2, <4>1
    <3>3. CASE p[1] = v /\ q[1] # v
      <4>1. <<w, p[2]>> = q BY <3>3
      <4> QED BY <3>1, <4>1
    <3>4. CASE p[1] # v /\ q[1] = v
      <4>1. <<w, q[2]>> = p BY <3>4
      <4> QED BY <3>1, <4>1
    <3>5. CASE p[1] # v /\ q[1] # v BY <3>5
    <3> QED BY <3>2, <3>3, <3>4, <3>5
  <2>5. \A q \in Is(c) : \E p \in Was(c) : move(c)[p] = q
    <3> SUFFICES ASSUME NEW q \in Is(c) PROVE \E p \in Was(c) : move(c)[p] = q
      OBVIOUS
    <3>1. q \in Int \X Nat /\ q = <<q[1], q[2]>> BY DEF HoldersIn
    <3>2. CASE q[1] = w
      <4> DEFINE p == <<v, q[2]>>
      <4>1. p \in Was(c) BY <3>1, <3>2, <1>1 DEF HoldersIn
      <4>2. move(c)[p] = q BY <3>1, <3>2, <4>1
      <4> QED BY <4>1, <4>2
    <3>3. CASE q[1] # w
      <4>1. q[1] # v BY <1>1 DEF HoldersIn
      <4>2. q \in Was(c) BY <3>3, <4>1 DEF HoldersIn
      <4>3. move(c)[q] = q BY <4>1, <4>2
      <4> QED BY <4>2, <4>3
    <3> QED BY <3>2, <3>3
  <2>6. move(c) \in Bijection(Was(c), Is(c))
    <3> HIDE DEF Was, Is
    <3>1. move(c) \in [Was(c) -> Is(c)] BY <2>3
    <3>2. DOMAIN move(c) = Was(c) OBVIOUS
    <3> HIDE DEF move
    <3> QED BY <3>1, <3>2, <2>4, <2>5 DEF Bijection, Injection, Surjection, IsInjective
  <2>7. IsFiniteSet(Is(c)) /\ Cardinality(Is(c)) = Cardinality(Was(c))
    BY <2>1, <2>6, FS_Bijection DEF ExistsBijection
  <2> QED BY <2>1, <2>7, FS_EmptySet
<1> QED BY <1>2 DEF Counted

-------------------------------------------------------------------------------
(***************************************************************************)
(* The inductive invariant.  While a write runs and its recipe is not in   *)
(* the store, the index file still counts the references of the recipes:   *)
(* it is what the next task loads when this one dies.                      *)
(***************************************************************************)
Mine == IF pc \in {"loop", "rev"} THEN recipe ELSE <<>>
Shelf == [v \in DOMAIN recipes \cup {-1} |-> IF v = -1 THEN Mine ELSE Live(v)]

CountInv ==
    /\ pc = "idle" => recipe = <<>>
    /\ task = "delete" =>
         /\ pc \in {"del", "trunc", "save"}
         /\ pc = "del" <=> RecipeFile(target) \in DOMAIN recipes
    /\ Counted(Table, Shelf)
    /\ pc \in {"loop", "rev"} => Counted(index, recipes)

ShelfShape ==
    /\ ShelfType(Shelf) /\ ShelfType(recipes)
    /\ -1 \notin DOMAIN recipes /\ DOMAIN Shelf = DOMAIN recipes \cup {-1}
    /\ Shelf[-1] = Mine /\ \A v \in DOMAIN recipes : Shelf[v] = Live(v)

LEMMA ShelfTyped == TypeOK => ShelfShape
<1> SUFFICES ASSUME TypeOK PROVE ShelfShape
  OBVIOUS
<1>1. -1 \notin DOMAIN recipes /\ DOMAIN recipes \subseteq Int BY DEF TypeOK
<1>2. IsFiniteSet(DOMAIN recipes \cup {-1}) BY FS_AddElement DEF TypeOK
<1>3. Mine \in Seq(Chunk) BY DEF Mine, TypeOK
<1>4. \A v \in DOMAIN recipes : Live(v) \in Seq(Chunk) BY DEF Live, TypeOK
<1>5. Shelf \in [DOMAIN recipes \cup {-1} -> Seq(Chunk)] BY <1>3, <1>4 DEF Shelf
<1>6. ShelfType(Shelf) BY <1>1, <1>2, <1>5 DEF ShelfType
<1>7. ShelfType(recipes) BY <1>1 DEF ShelfType, TypeOK
<1> QED BY <1>1, <1>6, <1>7 DEF Shelf, ShelfShape

LEMMA ShelfTypedNext == TypeOK' => ShelfShape'
BY ShelfTyped, PTL

LEMMA HoldersOnShelf ==
    ASSUME TypeOK, NEW c
    PROVE  Holders(c) = HoldersIn(Shelf, c)
<1>1. \A v \in DOMAIN recipes : v \in Int /\ v # -1 /\ Shelf[v] = Live(v)
  BY ShelfTyped DEF ShelfShape, TypeOK
<1>2. \A v \in DOMAIN Shelf : DOMAIN Shelf[v] \subseteq Nat
  BY ShelfTyped, FunctionOfSeq DEF ShelfShape, ShelfType
<1>3. DOMAIN Shelf = DOMAIN recipes \cup {-1} /\ Shelf[-1] = Mine BY ShelfTyped DEF ShelfShape
<1>4. ASSUME NEW p \in Holders(c) PROVE p \in HoldersIn(Shelf, c)
  <2>1. CASE p \in {-1} \X Positions(Mine, c)
    <3>1. p = <<-1, p[2]>> /\ p[2] \in DOMAIN Mine /\ Mine[p[2]] = c
      BY <2>1 DEF Positions
    <3> QED BY <3>1, <1>2, <1>3 DEF HoldersIn
  <2>2. ASSUME NEW v \in DOMAIN recipes, p \in {v} \X Positions(Live(v), c)
        PROVE  p \in HoldersIn(Shelf, c)
    <3>1. p = <<v, p[2]>> /\ p[2] \in DOMAIN Live(v) /\ Live(v)[p[2]] = c
      BY <2>2 DEF Positions
    <3> QED BY <3>1, <1>1, <1>2, <1>3 DEF HoldersIn
  <2> QED BY <2>1, <2>2, <1>4 DEF Holders, Mine
<1>5. ASSUME NEW p \in HoldersIn(Shelf, c) PROVE p \in Holders(c)
  <2>1. /\ p = <<p[1], p[2]>> /\ p[1] \in DOMAIN recipes \cup {-1}
        /\ p[2] \in Positions(Shelf[p[1]], c)
    BY <1>3 DEF HoldersIn, Positions
  <2>2. CASE p[1] = -1
    <3>1. p \in {-1} \X Positions(Mine, c) BY <2>1, <2>2, <1>3
    <3> QED BY <3>1 DEF Holders, Mine
  <2>3. CASE p[1] \in DOMAIN recipes
    <3>1. p \in {p[1]} \X Positions(Live(p[1]), c) BY <2>1, <2>3, <1>1
    <3> QED BY <3>1, <2>3 DEF Holders
  <2> QED BY <2>1, <2>2, <2>3
<1> QED BY <1>4, <1>5

\* What the theorem needs of the invariant.
LEMMA CountsAreExact ==
    ASSUME TypeOK, CountInv
    PROVE  RefCountsExact
BY HoldersOnShelf DEF CountInv, Counted, RefCountsExact

\* Nothing moves: the same references on a shelf that differs in empty lists.
LEMMA CountedAlike ==
    ASSUME NEW t, NEW f, ShelfType(f), NEW g, ShelfType(g), Counted(t, f),
           \A v \in DOMAIN f : f[v] # <<>> => v \in DOMAIN g /\ g[v] = f[v],
           \A v \in DOMAIN g : g[v] # <<>> => v \in DOMAIN f /\ g[v] = f[v]
    PROVE  Counted(t, g)
<1>1. \A c : HoldersIn(g, c) = HoldersIn(f, c) BY EmptyLists
<1> QED BY <1>1 DEF Counted

LEMMA CountInit == Init => CountInv
<1> SUFFICES ASSUME Init PROVE CountInv
  OBVIOUS
<1>1. TypeOK BY TypeInit
<1>2. Table = EmptyTable /\ index = EmptyTable /\ recipe = <<>> /\ task = "none" /\ pc = "idle"
  BY DEF Init, Table
<1>3. DOMAIN recipes = {} /\ Mine = <<>> BY DEF Init, EmptyFile, Mine
<1>4. \A c : HoldersIn(Shelf, c) = {}
  <2>1. DOMAIN Shelf = {-1} /\ DOMAIN Shelf[-1] = {} BY <1>1, <1>3, ShelfTyped DEF ShelfShape
  <2> QED BY <2>1 DEF HoldersIn
<1> QED BY <1>2, <1>4, EmptyTableType DEF CountInv, Counted

\* A task begins: it counts what the index file counts.
LEMMA CountStart ==
    ASSUME TypeOK, TypeOK', ControlInv, CountInv, LoadIndex, mishaps' = {},
           UNCHANGED <<recipes, recipe>>,
           \/ pc' = "loop" /\ task' \in WriteTasks /\ UNCHANGED index
           \/ /\ pc' = "del" /\ task' = "delete" /\ RecipeFile(target') \in DOMAIN recipes
              /\ todo' = recipes[RecipeFile(target')]
    PROVE  CountInv'
<1>1. pc = "idle" /\ task = "none" /\ recipe = <<>>
  BY DEF LoadIndex, ControlInv, CountInv
<1>2. origin' = index /\ added' = EmptyTable BY DEF LoadIndex, Note
<1>3. Table' = index BY <1>2, SaveNothing, TablesTyped DEF Table
<1>4. Table = index BY <1>1 DEF Table
<1>5. Mine = <<>> /\ Mine' = <<>> BY <1>1 DEF Mine
<1>6. \A v \in DOMAIN recipes : Live(v) = recipes[v] /\ Live(v)' = recipes[v]
  BY <1>1 DEF Live, WriteTasks
<1>7. Counted(index, recipes)
  <2>1. Counted(index, Shelf) BY <1>4 DEF CountInv
  <2> QED BY <2>1, <1>5, <1>6, ShelfTyped, CountedAlike DEF ShelfShape
<1>8. Counted(Table, Shelf)'
  <2>1. ShelfType(Shelf') /\ ShelfType(recipes)
        /\ DOMAIN Shelf' = DOMAIN recipes \cup {-1} /\ (Shelf')[-1] = <<>>
        /\ \A v \in DOMAIN recipes : (Shelf')[v] = recipes[v]
    BY <1>5, <1>6, ShelfTyped, ShelfTypedNext DEF ShelfShape
  <2>2. Counted(index, Shelf') BY <2>1, <1>7, CountedAlike
  <2> QED BY <2>2, <1>3 DEF Counted
<1>9. (pc \in {"loop", "rev"} => Counted(index, recipes))'
  BY <1>7 DEF Counted
<1> QED BY <1>8, <1>9 DEF CountInv, WriteTasks

\* A chunk of the input is counted, in whichever table it is, and added to the
\* recipe.
LEMMA CountAppend ==
    ASSUME TypeOK, TypeOK', ControlInv, CountInv, TablesInv, DedupChunk \/ UniqueChunk
    PROVE  CountInv'
<1>1. PICK c \in Chunk : c = Head(todo) BY HeadType DEF DedupChunk, UniqueChunk
<1>2. /\ UNCHANGED <<recipes, index, pc, task, target>>
      /\ recipe' = Append(recipe, c) /\ pc = "loop" /\ task \in WriteTasks
  BY <1>1 DEF DedupChunk, UniqueChunk, disk, ControlInv
<1>3. Mine = recipe /\ Mine' = Append(recipe, c) BY <1>2 DEF Mine
<1>4. \A v \in DOMAIN recipes : Live(v)' = Live(v) BY <1>2 DEF Live, WriteTasks
<1>5. /\ DOMAIN Shelf' = DOMAIN Shelf /\ -1 \in DOMAIN Shelf
      /\ (Shelf')[-1] = Append(Shelf[-1], c)
      /\ \A v \in DOMAIN Shelf : v # -1 => (Shelf')[v] = Shelf[v]
  BY <1>2, <1>3, <1>4, ShelfTyped, ShelfTypedNext DEF ShelfShape
<1>6. /\ DOMAIN Table = DOMAIN origin \cup DOMAIN added
      /\ DOMAIN Table' = DOMAIN Table \cup {c}
      /\ (Table')[c].ref_cnt = IF c \in DOMAIN Table THEN Table[c].ref_cnt + 1 ELSE 1
      /\ \A x \in DOMAIN Table : x # c => (Table')[x] = Table[x]
  <2>1. CASE DedupChunk /\ c \in DOMAIN added
    <3>1. added' = addRefCnt(added, c) /\ origin' = origin BY <1>1, <2>1 DEF DedupChunk
    <3>2. /\ DOMAIN added' = DOMAIN added
          /\ (added')[c].ref_cnt = added[c].ref_cnt + 1
          /\ \A x \in DOMAIN added : x # c => (added')[x] = added[x]
      <4>1. [added[c] EXCEPT !.ref_cnt = added[c].ref_cnt + 1].ref_cnt = added[c].ref_cnt + 1
        BY <2>1, TablesTyped, EntryFields DEF EntryType
      <4> QED BY <2>1, <3>1, <4>1 DEF addRefCnt, WithRefCnt
    <3> QED BY <1>2, <2>1, <3>1, <3>2 DEF Table, save
  <2>2. CASE DedupChunk /\ c \notin DOMAIN added
    <3>1. origin' = addRefCnt(origin, c) /\ added' = added /\ c \in DOMAIN origin
      BY <1>1, <2>2 DEF DedupChunk, IsDedup
    <3>2. /\ DOMAIN origin' = DOMAIN origin
          /\ (origin')[c].ref_cnt = origin[c].ref_cnt + 1
          /\ \A x \in DOMAIN origin : x # c => (origin')[x] = origin[x]
      <4>1. [origin[c] EXCEPT !.ref_cnt = origin[c].ref_cnt + 1].ref_cnt = origin[c].ref_cnt + 1
        BY <3>1, TablesTyped, EntryFields DEF EntryType
      <4> QED BY <3>1, <4>1 DEF addRefCnt, WithRefCnt
    <3> QED BY <1>2, <2>2, <3>1, <3>2 DEF Table, save
  <2>3. CASE UniqueChunk
    <3>1. /\ c \notin DOMAIN origin /\ c \notin DOMAIN added /\ origin' = origin
          /\ added' = addNewEntry(added, c, Entry(cindex, Len(cbuf), ChunkLen[c], 1))
      BY <1>1, <2>3 DEF UniqueChunk, IsDedup
    <3> QED BY <1>2, <3>1 DEF Table, save, addNewEntry, Entry
  <2> QED BY <2>1, <2>2, <2>3
<1>7. Counted(Table, Shelf)'
  <2>1. ShelfType(Shelf) /\ Counted(Table, Shelf) BY ShelfTyped DEF ShelfShape, CountInv
  <2>2. \A x \in DOMAIN Table : x # c => (Table')[x].ref_cnt = Table[x].ref_cnt BY <1>6
  <2>3. PICK g, u : g = Shelf' /\ u = Table' OBVIOUS
  <2>4. /\ DOMAIN g = DOMAIN Shelf /\ -1 \in DOMAIN Shelf /\ g[-1] = Append(Shelf[-1], c)
        /\ \A v \in DOMAIN Shelf : v # -1 => g[v] = Shelf[v]
    BY <1>5, <2>3
  <2>5. /\ DOMAIN u = DOMAIN Table \cup {c}
        /\ u[c].ref_cnt = IF c \in DOMAIN Table THEN Table[c].ref_cnt + 1 ELSE 1
        /\ \A x \in DOMAIN Table : x # c => u[x].ref_cnt = Table[x].ref_cnt
    BY <1>6, <2>2, <2>3
  <2>6. Counted(u, g) BY <2>1, <2>4, <2>5, CountedAppend
  <2> QED BY <2>3, <2>6 DEF Counted
<1>8. (pc \in {"loop", "rev"} => Counted(index, recipes))'
  BY <1>2 DEF CountInv, Counted
<1> QED BY <1>2, <1>7, <1>8 DEF CountInv, WriteTasks

\* The recipe moves from memory into the store, under a number of its own.
LEMMA CountSaveRecipe ==
    ASSUME TypeOK, TypeOK', ControlInv, CountInv, SaveRecipe, mishaps' = {}
    PROVE  CountInv'
<1>0. PICK n \in Nat : n = RecipesNum BY NumbersTyped
<1>1. /\ UNCHANGED <<task, origin, added, recipe>> /\ pc = "loop" /\ pc' = "trunc"
      /\ task \in WriteTasks
  BY DEF SaveRecipe, ControlInv, tables
<1>2. n \notin DOMAIN recipes /\ n \in Nat BY <1>0 DEF SaveRecipe, Note
<1>3. Overlay(recipe, <<>>) = recipe
  <2>1. recipe \in Seq(Chunk) /\ Len(recipe) \in Nat BY DEF TypeOK
  <2>2. Larger(Len(recipe), Len(<<>>)) = Len(recipe) BY <2>1 DEF Larger
  <2> QED BY <2>1, <2>2, FunctionOfSeq DEF Overlay
<1>4. recipes' = Put(recipes, n, recipe) BY <1>0, <1>2, <1>3 DEF SaveRecipe
<1>5. /\ DOMAIN recipes' = DOMAIN recipes \cup {n} /\ (recipes')[n] = recipe
      /\ \A v \in DOMAIN recipes : (recipes')[v] = recipes[v]
  BY <1>2, <1>4 DEF Put
<1>6. /\ Mine = recipe /\ Mine' = <<>>
      /\ \A v \in DOMAIN recipes : Live(v) = recipes[v] /\ Live(v)' = recipes[v]
      /\ Live(n)' = recipe
  BY <1>1, <1>2, <1>5 DEF Mine, Live, WriteTasks
<1>7. /\ -1 \in DOMAIN Shelf /\ n \in Int /\ n \notin DOMAIN Shelf
      /\ DOMAIN Shelf' = DOMAIN Shelf \cup {n}
      /\ (Shelf')[n] = Shelf[-1] /\ (Shelf')[-1] = <<>>
      /\ \A v \in DOMAIN Shelf : v # -1 => (Shelf')[v] = Shelf[v]
  BY <1>2, <1>5, <1>6, ShelfTyped, ShelfTypedNext DEF ShelfShape
<1>8. Table' = Table BY <1>1 DEF Table
<1>9. Counted(Table, Shelf)'
  <2>1. ShelfType(Shelf) /\ Counted(Table, Shelf) BY ShelfTyped DEF ShelfShape, CountInv
  <2>2. Counted(Table, Shelf') BY <1>7, <2>1, CountedMove
  <2> QED BY <2>2, <1>8 DEF Counted
<1> QED BY <1>1, <1>9 DEF CountInv, WriteTasks

\* Steps that touch neither counts nor references.
LEMMA CountSame ==
    ASSUME TypeOK, TypeOK', ControlInv, CountInv, SaveContainer \/ SaveRev \/ TruncIndex
    PROVE  CountInv'
<1>1. /\ UNCHANGED <<recipes, input, tables>>
      /\ \/ pc \in {"loop", "rev"} /\ pc' \in {"loop", "rev"} /\ index' = index
         \/ pc = "trunc" /\ pc' = "save"
  BY DEF SaveContainer, SaveRev, TruncIndex
<1>2. Table' = Table /\ pc' # "idle" BY <1>1 DEF Table, tables
<1>3. Shelf' = Shelf BY <1>1 DEF Shelf, Mine, Live, input
<1>4. Counted(Table, Shelf)' BY <1>2, <1>3 DEF CountInv, Counted
<1>5. (pc \in {"loop", "rev"} => Counted(index, recipes))' BY <1>1 DEF CountInv, Counted
<1>6. (task = "delete" => /\ pc \in {"del", "trunc", "save"}
                          /\ pc = "del" <=> RecipeFile(target) \in DOMAIN recipes)'
  BY <1>1 DEF CountInv, input
<1> QED BY <1>2, <1>4, <1>5, <1>6 DEF CountInv

\* The recipe of a deleted version goes when all its references are released.
LEMMA CountUnlink ==
    ASSUME TypeOK, TypeOK', ControlInv, CountInv, Unlink
    PROVE  CountInv'
<1> DEFINE r == RecipeFile(target)
<1>1. /\ UNCHANGED <<task, target, todo, recipe, origin, added>>
      /\ pc = "del" /\ pc' = "trunc" /\ task = "delete" /\ todo = <<>>
      /\ DOMAIN recipes' = DOMAIN recipes \ {r}
      /\ \A v \in DOMAIN recipes' : (recipes')[v] = recipes[v]
  BY DEF Unlink, ControlInv, input, tables, Drop, Restrict
<1>2. Table' = Table BY <1>1 DEF Table
<1>3. Mine = <<>> /\ Mine' = <<>> BY <1>1 DEF Mine
<1>4. /\ \A v \in DOMAIN recipes : Live(v) # <<>> => v \in DOMAIN recipes' /\ Live(v)' = Live(v)
      /\ \A v \in DOMAIN recipes' : Live(v)' = Live(v) /\ v \in DOMAIN recipes
  BY <1>1 DEF Live
<1>5. Counted(Table, Shelf')
  <2>1. Counted(Table, Shelf) BY DEF CountInv
  <2> QED BY <2>1, <1>3, <1>4, ShelfTyped, ShelfTypedNext, CountedAlike DEF ShelfShape
<1>6. Counted(Table, Shelf)' BY <1>2, <1>5 DEF Counted
<1> QED BY <1>1, <1>6 DEF CountInv

\* A process that ends leaves in the index file what it counted last.
LEMMA CountExit ==
    ASSUME TypeOK, TypeOK', ControlInv, CountInv, mishaps' = {},
           SaveIndex \/ Crash
    PROVE  CountInv'
<1>1. Exit /\ recipes' = recipes BY DEF SaveIndex, Crash
<1>2. pc' = "idle" /\ task' = "none" /\ recipe' = <<>> /\ Table' = index'
  BY <1>1 DEF Exit, Table
<1>3. Mine' = <<>> /\ \A v \in DOMAIN recipes : Live(v)' = recipes[v]
  BY <1>1, <1>2 DEF Mine, Live
<1>4. /\ ShelfType(Shelf') /\ ShelfType(recipes) /\ ShelfType(Shelf)
      /\ DOMAIN Shelf' = DOMAIN recipes \cup {-1} /\ (Shelf')[-1] = <<>>
      /\ \A v \in DOMAIN recipes : (Shelf')[v] = recipes[v]
  BY <1>1, <1>3, ShelfTyped, ShelfTypedNext DEF ShelfShape
<1>5. Counted(index', Shelf')
  <2>1. CASE SaveIndex
    <3>1. index' = Table /\ pc = "save" BY <2>1 DEF SaveIndex, Table
    <3>2. Mine = <<>> BY <3>1 DEF Mine
    <3>3. \A v \in DOMAIN recipes : Live(v) = recipes[v] BY <3>1 DEF CountInv, Live
    <3>4. Counted(Table, Shelf) BY DEF CountInv
    <3>5. Counted(Table, Shelf')
      BY <1>4, <3>2, <3>3, <3>4, ShelfTyped, CountedAlike DEF ShelfShape
    <3> QED BY <3>1, <3>5
  <2>2. CASE Crash
    <3>1. task # "delete" /\ pc \notin {"trunc", "save"} /\ pc # "idle"
      BY <2>2, StoreAssumption DEF Crash, Note
    <3>2. pc \in {"loop", "rev"} BY <3>1 DEF TypeOK, ControlInv, PCs
    <3>3. index' = index BY <2>2, <3>1 DEF Crash
    <3>4. Counted(index, recipes) BY <3>2 DEF CountInv
    <3>5. Counted(index, Shelf') BY <1>4, <3>4, CountedAlike
    <3> QED BY <3>3, <3>5
  <2> QED BY <2>1, <2>2
<1>6. Counted(Table, Shelf)' BY <1>2, <1>5 DEF Counted
<1> QED BY <1>2, <1>6 DEF CountInv

\* A reference of the recipe is released, the last one with its entry.
LEMMA CountDelete ==
    ASSUME TypeOK, TypeOK', ControlInv, CountInv, DeleteRef \/ DeleteChunk
    PROVE  CountInv'
<1> DEFINE r == RecipeFile(target)
           c == Head(todo)
<1>1. /\ UNCHANGED <<recipes, pc, task, target, recipe, added>>
      /\ pc = "del" /\ task = "delete" /\ added = EmptyTable
      /\ c \in DOMAIN origin /\ todo # <<>> /\ todo' = Tail(todo)
  BY DEF DeleteRef, DeleteChunk, ReleasesLast, ControlInv, disk
<1>2. r \in DOMAIN recipes BY <1>1 DEF CountInv
<1>3. Table = origin /\ Table' = origin'
  <2>1. TableType(origin) /\ TableType(origin') BY DEF TypeOK, TableType
  <2> QED BY <1>1, <2>1, SaveNothing DEF Table
<1>4. Mine = <<>> /\ Mine' = <<>> BY <1>1 DEF Mine
<1>5. /\ Live(r) = todo /\ Live(r)' = Tail(todo)
      /\ \A v \in DOMAIN recipes : v # r => Live(v)' = Live(v)
  BY <1>1 DEF Live
<1>6. /\ r \in DOMAIN Shelf /\ Shelf[r] = todo /\ (Shelf')[r] = Tail(todo)
      /\ DOMAIN Shelf' = DOMAIN Shelf
      /\ \A v \in DOMAIN Shelf : v # r => (Shelf')[v] = Shelf[v]
  BY <1>1, <1>2, <1>4, <1>5, ShelfTyped, ShelfTypedNext DEF ShelfShape
<1>7. origin[c].ref_cnt \in Nat /\ c \in Chunk BY <1>1, TablesTyped, EntryFields
<1>8. /\ IF origin[c].ref_cnt > 1
         THEN DOMAIN origin' = DOMAIN origin /\ (origin')[c].ref_cnt = origin[c].ref_cnt - 1
         ELSE DOMAIN origin' = DOMAIN origin \ {c}
      /\ \A x \in DOMAIN origin' : x # c => (origin')[x].ref_cnt = origin[x].ref_cnt
  <2>1. CASE DeleteRef
    <3>1. origin' = WithRefCnt(origin, c, origin[c].ref_cnt - 1) /\ origin[c].ref_cnt > 1
      BY <2>1 DEF DeleteRef, decRefCnt
    <3>2. [origin[c] EXCEPT !.ref_cnt = origin[c].ref_cnt - 1].ref_cnt = origin[c].ref_cnt - 1
      BY <1>1, TablesTyped, EntryFields DEF EntryType
    <3> QED BY <1>1, <3>1, <3>2 DEF WithRefCnt
  <2>2. CASE DeleteChunk
    <3> DEFINE left == Restrict(origin, DOMAIN origin \ {c})
    <3>1. ~(origin[c].ref_cnt > 1) BY <1>7, <2>2 DEF DeleteChunk, ReleasesLast
    <3>2. decRefCnt(origin, c) = left BY <3>1 DEF decRefCnt
    <3>3. /\ DOMAIN left = DOMAIN origin \ {c}
          /\ \A x \in DOMAIN left : left[x] = origin[x] /\ left[x] \in EntryType
      BY TablesTyped, EntryFields DEF Restrict
    <3>4. \/ origin' = left
          \/ \E others, oft, len : origin' = chunkOffsetDec(left, others, oft, len)
      BY <2>2, <3>2 DEF DeleteChunk
    <3>5. ASSUME NEW others, NEW oft, NEW len, origin' = chunkOffsetDec(left, others, oft, len)
          PROVE  /\ DOMAIN origin' = DOMAIN left
                 /\ \A x \in DOMAIN left : (origin')[x].ref_cnt = left[x].ref_cnt
      <4>1. ASSUME NEW x \in DOMAIN left
            PROVE  [left[x] EXCEPT !.offset = (@ - len) % U32].ref_cnt = left[x].ref_cnt
        BY <3>3 DEF EntryType
      <4> QED BY <3>5, <4>1 DEF chunkOffsetDec
    <3> QED BY <3>1, <3>3, <3>4, <3>5
  <2> QED BY <2>1, <2>2
<1>9. Counted(Table, Shelf)'
  <2>1. ShelfType(Shelf) /\ ShelfType(Shelf') /\ Counted(origin, Shelf) /\ TableType(origin)
    BY <1>3, ShelfTyped, ShelfTypedNext, TablesTyped DEF ShelfShape, CountInv
  <2>2. Counted(origin', Shelf')
    BY <1>1, <1>6, <1>8, <2>1, CountedTail
  <2> QED BY <2>2, <1>3 DEF Counted
<1> QED BY <1>1, <1>2, <1>9 DEF CountInv

LEMMA CountNext ==
    IInv /\ IInv' /\ (mishaps = {} => CountInv) /\ [Next]_vars => (mishaps' = {} => CountInv')
<1> SUFFICES ASSUME IInv, IInv', mishaps = {} => CountInv, [Next]_vars, mishaps' = {}
             PROVE  CountInv'
  OBVIOUS
<1>1. TypeOK /\ TypeOK' /\ ControlInv BY DEF IInv
<1>2. mishaps = {} BY MishapsStay
<1>3. CountInv /\ TablesInv BY <1>2 DEF IInv, StoreInv
<1>4. ASSUME NEW kind \in WriteTasks, NEW file \in Files, StartWrite(kind, file)
      PROVE  CountInv'
  BY <1>1, <1>3, <1>4, CountStart DEF StartWrite, disk
<1>5. ASSUME NEW v \in DOMAIN catalog \cup DOMAIN recipes, StartDelete(v)
      PROVE  CountInv'
  BY <1>1, <1>3, <1>5, CountStart DEF StartDelete, disk
<1>6. CASE UNCHANGED vars
  <2>1. /\ Table' = Table /\ Shelf' = Shelf
        /\ UNCHANGED <<pc, recipe, task, target, recipes, index>>
    BY <1>6 DEF vars, disk, input, tables, Table, Shelf, Mine, Live
  <2>2. Counted(Table, Shelf)' /\ (pc \in {"loop", "rev"} => Counted(index, recipes))'
    BY <1>3, <2>1 DEF CountInv, Counted
  <2> QED BY <1>3, <2>1, <2>2 DEF CountInv
<1>7. ~DeleteFatal /\ ~DeleteUndefined BY DEF DeleteFatal, DeleteUndefined, Note
<1> QED
  BY <1>1, <1>3, <1>4, <1>5, <1>6, <1>7, CountAppend, CountSaveRecipe, CountSame,
     CountUnlink, CountExit, CountDelete
  DEF Next

\* Until a mishap, the reference count of every chunk in the index is the
\* number of places that refer to it, over all recipes, repeats included, the
\* file being written and the rest of a recipe being deleted; a chunk nobody
\* refers to is not in the index (addRefCnt, decRefCnt, addNewEntry).
THEOREM CountsUntilMishap == Spec => [](mishaps = {} => RefCountsExact)
<1> DEFINE J == mishaps = {} => CountInv
<1>1. Init => J BY CountInit
<1>2. IInv /\ IInv' /\ J /\ [Next]_vars => J' BY CountNext
<1>3. IInv /\ J => (mishaps = {} => RefCountsExact) BY CountsAreExact DEF IInv
<1> HIDE DEF J
<1> QED BY <1>1, <1>2, <1>3, InvHolds, PTL DEF Spec

-------------------------------------------------------------------------------
(***************************************************************************)
(* The versions the user was told of.  Version numbers stay below the      *)
(* number of tasks, so that none of them is cut to uint8_t.                *)
(***************************************************************************)
Listing(v) == v \in DOMAIN recipes /\ recipes[v] = catalog[v]

CatalogInv ==
    /\ ntasks <= MaxTasks
    /\ RecipesNum + (IF pc \in {"loop", "rev"} THEN 1 ELSE 0) <= ntasks
    /\ \A v \in DOMAIN recipes \cup DOMAIN catalog : v < ntasks
    /\ task = "delete" => target < ntasks
    /\ \A v \in DOMAIN catalog :
         Listing(v) \/ (task = "delete" /\ pc # "del" /\ v = target)
    /\ task \in WriteTasks /\ pc \in {"trunc", "save"} =>
         target \in DOMAIN recipes /\ recipes[target] = recipe

LEMMA CatalogInit == Init => CatalogInv
<1> SUFFICES ASSUME Init PROVE CatalogInv
  OBVIOUS
<1>1. DOMAIN recipes = {} /\ DOMAIN catalog = {} BY DEF Init, EmptyFile
<1>2. RecipesNum = 0 BY <1>1, FS_EmptySet DEF RecipesNum
<1>3. ntasks = 0 /\ pc = "idle" /\ task = "none" /\ MaxTasks \in Nat
  BY StoreAssumption DEF Init
<1> QED BY <1>1, <1>2, <1>3 DEF CatalogInv, WriteTasks

LEMMA CatalogStart ==
    ASSUME MaxTasks <= VersionMod, TypeOK, ControlInv, CatalogInv, LoadIndex,
           UNCHANGED <<recipes, catalog>>,
           \/ pc' = "loop" /\ task' \in WriteTasks
           \/ /\ pc' = "del" /\ task' = "delete"
              /\ target' \in DOMAIN catalog \cup DOMAIN recipes
    PROVE  CatalogInv'
<1>1. pc = "idle" /\ task = "none" /\ ntasks' = ntasks + 1 /\ ntasks < MaxTasks
  BY DEF LoadIndex, ControlInv
<1>2. ntasks \in Nat /\ RecipesNum \in Nat /\ RecipesNum' = RecipesNum /\ MaxTasks \in Nat
      /\ DOMAIN catalog \subseteq Nat /\ DOMAIN recipes \subseteq Nat
  BY NumbersTyped, StoreAssumption DEF TypeOK, RecipesNum
<1>3. ntasks' <= MaxTasks /\ RecipesNum' + (IF pc' \in {"loop", "rev"} THEN 1 ELSE 0) <= ntasks'
  BY <1>1, <1>2 DEF CatalogInv
<1>4. \A v \in DOMAIN recipes' \cup DOMAIN catalog' : v < ntasks'
  BY <1>1, <1>2 DEF CatalogInv
<1>5. \A v \in DOMAIN catalog' : Listing(v)' BY <1>1 DEF CatalogInv, Listing
<1> QED BY <1>3, <1>4, <1>5 DEF CatalogInv, WriteTasks

\* Steps that leave recipes and catalog alone.
LEMMA CatalogSame ==
    ASSUME TypeOK, ControlInv, CatalogInv,
           \/ DedupChunk \/ UniqueChunk \/ SaveContainer \/ SaveRev
           \/ DeleteRef \/ DeleteChunk \/ TruncIndex
    PROVE  CatalogInv'
<1>1. /\ UNCHANGED <<recipes, catalog, ntasks, task, target>>
      /\ \/ pc \in {"loop", "rev"} /\ pc' \in {"loop", "rev"} /\ task \in WriteTasks
         \/ pc = "del" /\ pc' = "del" /\ task = "delete"
         \/ pc = "trunc" /\ pc' = "save" /\ recipe' = recipe
  BY DEF DedupChunk, UniqueChunk, SaveContainer, SaveRev, DeleteRef, DeleteChunk,
         ReleasesLast, TruncIndex, disk, input, ControlInv, WriteTasks
<1>2. RecipesNum' = RecipesNum BY <1>1 DEF RecipesNum
<1>3. \A v \in DOMAIN catalog : Listing(v)' <=> Listing(v) BY <1>1 DEF Listing
<1> QED BY <1>1, <1>2, <1>3 DEF CatalogInv, WriteTasks

LEMMA CatalogSaveRecipe ==
    ASSUME TypeOK, ControlInv, CatalogInv, SaveRecipe, mishaps' = {}
    PROVE  CatalogInv'
<1>0. PICK n \in Nat : n = RecipesNum BY NumbersTyped
<1>1. /\ UNCHANGED <<catalog, ntasks, task, recipe>> /\ target' = n
      /\ pc = "loop" /\ pc' = "trunc" /\ task \in WriteTasks
      /\ n \notin DOMAIN recipes
  BY <1>0 DEF SaveRecipe, Note, ControlInv
<1>2. Overlay(recipe, <<>>) = recipe
  <2>1. recipe \in Seq(Chunk) /\ Len(recipe) \in Nat BY DEF TypeOK
  <2>2. Larger(Len(recipe), Len(<<>>)) = Len(recipe) BY <2>1 DEF Larger
  <2> QED BY <2>1, <2>2, FunctionOfSeq DEF Overlay
<1>3. recipes' = Put(recipes, n, recipe) BY <1>0, <1>1, <1>2 DEF SaveRecipe
<1>4. /\ DOMAIN recipes' = DOMAIN recipes \cup {n} /\ (recipes')[n] = recipe
      /\ \A v \in DOMAIN recipes : (recipes')[v] = recipes[v]
  BY <1>1, <1>3 DEF Put
<1>5. RecipesNum' = n + 1
  BY <1>0, <1>1, <1>4, FS_AddElement DEF RecipesNum, TypeOK
<1>6. n + 1 <= ntasks /\ ntasks \in Nat BY <1>0, <1>1 DEF CatalogInv, TypeOK
<1>7. \A v \in DOMAIN catalog : Listing(v)'
  <2>1. \A v \in DOMAIN catalog : Listing(v) BY <1>1 DEF CatalogInv, WriteTasks
  <2> QED BY <2>1, <1>1, <1>4 DEF Listing
<1>8. \A v \in DOMAIN recipes' \cup DOMAIN catalog' : v < ntasks'
  BY <1>1, <1>4, <1>6 DEF CatalogInv
<1> QED BY <1>1, <1>4, <1>5, <1>6, <1>7, <1>8 DEF CatalogInv, WriteTasks

LEMMA CatalogUnlink ==
    ASSUME MaxTasks <= VersionMod, TypeOK, ControlInv, CatalogInv, Unlink
    PROVE  CatalogInv'
<1>1. /\ UNCHANGED <<catalog, ntasks, task, target>>
      /\ pc = "del" /\ pc' = "trunc" /\ task = "delete"
      /\ DOMAIN recipes' = DOMAIN recipes \ {RecipeFile(target)}
      /\ \A v \in DOMAIN recipes' : (recipes')[v] = recipes[v]
  BY DEF Unlink, ControlInv, input, Drop, Restrict
<1>2. RecipeFile(target) = target
  <2>1. target \in Nat /\ ntasks \in Nat /\ MaxTasks \in Nat /\ VersionMod \in Nat \ {0}
    BY StoreAssumption DEF TypeOK
  <2>2. target \in 0..(VersionMod - 1) BY <1>1, <2>1 DEF CatalogInv
  <2> QED BY <2>1, <2>2 DEF RecipeFile
<1>3. RecipesNum' <= RecipesNum /\ RecipesNum' \in Nat /\ RecipesNum \in Nat
  <2>1. IsFiniteSet(DOMAIN recipes) /\ DOMAIN recipes' \in SUBSET DOMAIN recipes
    BY <1>1 DEF TypeOK
  <2> QED BY <2>1, FS_Subset, FS_CardinalityType DEF RecipesNum
<1>4. RecipesNum' <= ntasks BY <1>1, <1>3 DEF CatalogInv, TypeOK
<1>5. \A v \in DOMAIN catalog : Listing(v)' \/ v = target
  <2>1. \A v \in DOMAIN catalog : Listing(v) BY <1>1 DEF CatalogInv
  <2> QED BY <2>1, <1>1, <1>2 DEF Listing
<1>6. ntasks' = ntasks /\ RecipesNum' + 0 <= ntasks'
  BY <1>1, <1>3, <1>4
<1> QED BY <1>1, <1>5, <1>6 DEF CatalogInv, WriteTasks

LEMMA CatalogExit ==
    ASSUME TypeOK, ControlInv, CatalogInv, mishaps' = {}, SaveIndex \/ Crash
    PROVE  CatalogInv'
<1>1. /\ UNCHANGED <<recipes, ntasks>> /\ pc' = "idle" /\ task' = "none"
      /\ pc # "idle"
  BY StoreAssumption DEF SaveIndex, Crash, Exit
<1>2. RecipesNum' = RecipesNum /\ RecipesNum \in Nat /\ ntasks \in Nat
  BY <1>1, NumbersTyped DEF RecipesNum, TypeOK
<1>3. RecipesNum' + 0 <= ntasks' BY <1>1, <1>2 DEF CatalogInv
<1>4. \A v \in DOMAIN catalog' : Listing(v)' /\ v < ntasks
  <2>1. CASE Crash
    <3>1. catalog' = catalog /\ task # "delete" BY <2>1 DEF Crash, Note
    <3> QED BY <3>1, <1>1 DEF CatalogInv, Listing
  <2>2. CASE SaveIndex /\ task = "delete"
    <3>1. DOMAIN catalog' = DOMAIN catalog \ {target}
          /\ \A v \in DOMAIN catalog' : (catalog')[v] = catalog[v]
      BY <2>2 DEF SaveIndex, Drop, Restrict
    <3> QED BY <3>1, <1>1 DEF CatalogInv, Listing
  <2>3. CASE SaveIndex /\ task # "delete"
    <3>1. /\ DOMAIN catalog' = DOMAIN catalog \cup {target} /\ (catalog')[target] = recipe
          /\ \A v \in DOMAIN catalog : v # target => (catalog')[v] = catalog[v]
      BY <2>3 DEF SaveIndex, Put
    <3>2. pc = "save" BY <2>3 DEF SaveIndex
    <3>3. task \in WriteTasks BY <2>3, <3>2 DEF TypeOK, ControlInv
    <3>4. target \in DOMAIN recipes /\ recipes[target] = recipe /\ target < ntasks
      BY <3>2, <3>3 DEF CatalogInv
    <3>5. \A v \in DOMAIN catalog : Listing(v) /\ v < ntasks BY <2>3 DEF CatalogInv
    <3> QED BY <1>1, <3>1, <3>4, <3>5 DEF Listing
  <2> QED BY <2>1, <2>2, <2>3
<1>5. \A v \in DOMAIN recipes' \cup DOMAIN catalog' : v < ntasks'
  BY <1>1, <1>4 DEF CatalogInv
<1> QED BY <1>1, <1>3, <1>4, <1>5 DEF CatalogInv, WriteTasks

LEMMA CatalogNext ==
    ASSUME MaxTasks <= VersionMod
    PROVE  IInv /\ (mishaps = {} => CatalogInv) /\ [Next]_vars => (mishaps' = {} => CatalogInv')
<1> SUFFICES ASSUME IInv, mishaps = {} => CatalogInv, [Next]_vars, mishaps' = {}
             PROVE  CatalogInv'
  OBVIOUS
<1>1. TypeOK /\ ControlInv BY DEF IInv
<1>2. CatalogInv BY MishapsStay
<1>3. ASSUME NEW kind \in WriteTasks, NEW file \in Files, StartWrite(kind, file)
      PROVE  CatalogInv'
  BY <1>1, <1>2, <1>3, CatalogStart DEF StartWrite, disk
<1>4. ASSUME NEW v \in DOMAIN catalog \cup DOMAIN recipes, StartDelete(v)
      PROVE  CatalogInv'
  BY <1>1, <1>2, <1>4, CatalogStart DEF StartDelete, disk
<1>5. CASE UNCHANGED vars
  <2>1. UNCHANGED <<pc, recipe, task, target, recipes, catalog, ntasks>>
    BY <1>5 DEF vars, disk, input
  <2> QED BY <1>2, <2>1 DEF CatalogInv, Listing, RecipesNum
<1>6. ~DeleteFatal /\ ~DeleteUndefined BY DEF DeleteFatal, DeleteUndefined, Note
<1> QED
  BY <1>1, <1>2, <1>3, <1>4, <1>5, <1>6, CatalogSame, CatalogSaveRecipe,
     CatalogUnlink, CatalogExit
  DEF Next

\* A recipe in the store names chunks the index knows.
LEMMA RecipesIndexed ==
    ASSUME TypeOK, ControlInv, CountInv, pc = "idle", NEW v \in DOMAIN recipes
    PROVE  Range(recipes[v]) \subseteq DOMAIN index
<1>1. Table = index /\ task = "none" BY DEF Table, ControlInv
<1>2. v \in DOMAIN Shelf /\ Shelf[v] = recipes[v] /\ v \in Int
  BY <1>1, ShelfTyped DEF ShelfShape, Live, TypeOK
<1>3. recipes[v] \in Seq(Chunk) BY DEF TypeOK
<1> SUFFICES ASSUME NEW i \in DOMAIN recipes[v] PROVE recipes[v][i] \in DOMAIN index
  BY DEF Range
<1>4. i \in Nat /\ recipes[v][i] \in Chunk BY <1>3, FunctionOfSeq
<1>5. <<v, i>> \in HoldersIn(Shelf, recipes[v][i]) BY <1>2, <1>4 DEF HoldersIn
<1> QED BY <1>1, <1>4, <1>5 DEF CountInv, Counted

LEMMA CatalogRestorable ==
    ASSUME MaxTasks <= VersionMod, TypeOK, ControlInv, StoreInv, CountInv, CatalogInv
    PROVE  VersionsRestorable /\ RecipesFaithful
<1> SUFFICES ASSUME pc = "idle", NEW v \in DOMAIN catalog
             PROVE  /\ RecipeFile(v) = v /\ Listing(v)
                    /\ \A c \in Range(catalog[v]) : c \in DOMAIN index /\ OnDisk(index, c)
  BY DEF VersionsRestorable, RecipesFaithful, Listing
<1>1. Table = index /\ task = "none" BY DEF Table, ControlInv
<1>2. Listing(v) BY <1>1 DEF CatalogInv
<1>3. RecipeFile(v) = v
  <2>1. v \in Nat /\ ntasks \in Nat /\ MaxTasks \in Nat /\ VersionMod \in Nat \ {0}
    BY StoreAssumption DEF TypeOK
  <2>2. v \in 0..(VersionMod - 1) BY <2>1 DEF CatalogInv
  <2> QED BY <2>1, <2>2 DEF RecipeFile
<1>4. \A c \in DOMAIN index : OnDisk(index, c)
  BY <1>1 DEF StoreInv, EntriesIntact, Buffered
<1> QED BY <1>2, <1>3, <1>4, RecipesIndexed DEF Listing

\* Until a mishap, and as long as version numbers fit their type, a version the
\* user was told is stored is found under its number with every chunk in the
\* index and on disk, and its recipe lists exactly the chunks written.
THEOREM RestorableUntilMishap ==
    ASSUME MaxTasks <= VersionMod
    PROVE  Spec => [](mishaps = {} => VersionsRestorable /\ RecipesFaithful)
<1> DEFINE J == mishaps = {} => CountInv
           L == mishaps = {} => CatalogInv
<1>1. Init => J /\ L BY CountInit, CatalogInit
<1>2. IInv /\ IInv' /\ J /\ [Next]_vars => J' BY CountNext
<1>3. IInv /\ L /\ [Next]_vars => L' BY CatalogNext
<1>4. IInv /\ J /\ L => (mishaps = {} => VersionsRestorable /\ RecipesFaithful)
  BY CatalogRestorable DEF IInv
<1> HIDE DEF J, L
<1> QED BY <1>1, <1>2, <1>3, <1>4, InvHolds, PTL DEF Spec

-------------------------------------------------------------------------------
(***************************************************************************)
(* What a task may count on: an index that fits the one read of load(),    *)
(* and a free container number to begin with.                              *)
(***************************************************************************)
IndexFits == IsFiniteSet(Chunk) /\ Cardinality(Chunk) <= IndexCap

\* With counts that are exact the index is loaded as it was saved.
LEMMA LoadsAll ==
    ASSUME IndexFits, TypeOK, CountInv, LoadIndex
    PROVE  origin' = index
<1>1. pc = "idle" /\ Table = index /\ DOMAIN index \subseteq Chunk
  BY TablesTyped DEF LoadIndex, Table, TableType
<1>2. CASE DOMAIN recipes = {}
  <2>1. Mine = <<>> BY <1>1 DEF Mine
  <2>2. \A c : HoldersIn(Shelf, c) = {}
    <3>1. DOMAIN Shelf = {-1} /\ DOMAIN Shelf[-1] = {}
      BY <1>2, <2>1, ShelfTyped DEF ShelfShape
    <3> QED BY <3>1 DEF HoldersIn
  <2>3. DOMAIN index = {} BY <1>1, <2>2 DEF CountInv, Counted
  <2>4. index = EmptyTable BY <2>3, TablesTyped DEF TableType, EmptyTable
  <2> QED BY <1>2, <2>4 DEF LoadIndex
<1>3. CASE DOMAIN recipes # {}
  <2>1. Cardinality(DOMAIN index) <= Cardinality(Chunk) BY <1>1, FS_Subset DEF IndexFits
  <2>2. Cardinality(DOMAIN index) \in Nat /\ Cardinality(Chunk) \in Nat /\ IndexCap \in Nat
    BY <1>1, FS_Subset, FS_CardinalityType, WidthAssumption DEF IndexFits
  <2>3. ~(Cardinality(DOMAIN index) > IndexCap) BY <2>1, <2>2 DEF IndexFits
  <2>4. PICK s \in SUBSET DOMAIN index : origin' = Restrict(index, s) /\ s = DOMAIN index
    BY <1>3, <2>3 DEF LoadIndex, load
  <2>5. Restrict(index, DOMAIN index) = index BY TablesTyped DEF Restrict, TableType
  <2> QED BY <2>4, <2>5
<1> QED BY <1>2, <1>3

Used == DOMAIN containers \cup DOMAIN revs

\* A store that is only written to: versions are numbered without a gap, and
\* getFilesNum is above every container number in use, also when processes
\* died between a container and its reverse list.
WriteInv ==
    /\ mishaps = {} /\ task # "delete"
    /\ DOMAIN recipes = 0..(RecipesNum - 1)
    /\ \A n \in Used : n < FilesNum
    /\ pc = "loop" => cindex <= FilesNum /\ \A n \in Used : n < cindex
    /\ pc = "rev" => cindex < FilesNum /\ \A n \in Used : n <= cindex

LEMMA DomainGrows ==
    ASSUME NEW D, IsFiniteSet(D), NEW n
    PROVE  /\ Cardinality(D) \in Nat
           /\ Cardinality(D \cup {n}) = IF n \in D THEN Cardinality(D) ELSE Cardinality(D) + 1
BY FS_AddElement, FS_CardinalityType

LEMMA WriteInitially == Init => WriteInv
<1> SUFFICES ASSUME Init PROVE WriteInv
  OBVIOUS
<1>1. DOMAIN recipes = {} /\ DOMAIN containers = {} /\ DOMAIN revs = {} BY DEF Init, EmptyFile
<1>2. RecipesNum = 0 BY <1>1, FS_EmptySet DEF RecipesNum
<1>3. DOMAIN recipes = 0..(RecipesNum - 1) BY <1>1, <1>2
<1> QED BY <1>1, <1>3 DEF Init, WriteInv, Used

LEMMA WriteNext ==
    ASSUME IndexFits, Tasks \subseteq WriteTasks, CrashPoints \subseteq {"loop", "rev"}
    PROVE  IInv /\ (mishaps = {} => CountInv) /\ WriteInv /\ [Next]_vars => WriteInv'
<1> SUFFICES ASSUME IInv, mishaps = {} => CountInv, WriteInv, [Next]_vars
             PROVE  WriteInv'
  OBVIOUS
<1>1. TypeOK /\ ControlInv /\ CountInv BY DEF IInv, WriteInv
<1>2. /\ FilesNum \in Nat /\ cindex \in Nat /\ RecipesNum \in Nat /\ Used \subseteq Nat
      /\ IsFiniteSet(DOMAIN containers) /\ IsFiniteSet(DOMAIN revs)
  BY <1>1, NumbersTyped DEF TypeOK, Used
<1>3. ASSUME NEW kind \in WriteTasks, NEW file \in Files, StartWrite(kind, file)
      PROVE  WriteInv'
  <2>1. origin' = index BY <1>1, <1>3, LoadsAll DEF StartWrite
  <2>2. mishaps' = {} BY <1>3, <2>1 DEF StartWrite, LoadIndex, Note, WriteInv
  <2>3. UNCHANGED disk /\ pc' = "loop" /\ task' = kind /\ cindex' = FilesNum
    BY <1>3 DEF StartWrite
  <2> QED BY <1>2, <2>2, <2>3 DEF WriteInv, WriteTasks, disk, Used, FilesNum, RecipesNum
<1>4. CASE UNCHANGED vars
  BY <1>4 DEF vars, disk, input, buffers, WriteInv, Used, FilesNum, RecipesNum
<1>5. CASE DedupChunk \/ UniqueChunk
  <2>1. UNCHANGED <<disk, pc, task, cindex, mishaps>>
    BY <1>5 DEF DedupChunk, UniqueChunk, buffers
  <2> QED BY <2>1 DEF WriteInv, disk, Used, FilesNum, RecipesNum
<1>6. CASE SaveContainer
  <2>1. /\ UNCHANGED <<revs, recipes, task>> /\ pc = "loop"
        /\ DOMAIN containers' = DOMAIN containers \cup {cindex}
        /\ \/ pc' = "rev" /\ cindex' = cindex
           \/ pc' = "loop" /\ cindex' = cindex + 1
    BY <1>6 DEF SaveContainer, Put, input
  <2>2. cindex \notin DOMAIN containers /\ cindex \notin DOMAIN revs
    BY <1>2, <2>1 DEF WriteInv, Used
  <2>3. mishaps' = {} BY <1>6, <2>2 DEF SaveContainer, Note, WriteInv
  <2>4. FilesNum' = FilesNum + 1
    <3>1. /\ Cardinality(DOMAIN containers) \in Nat /\ Cardinality(DOMAIN revs) \in Nat
          /\ Cardinality(DOMAIN containers') = Cardinality(DOMAIN containers) + 1
      BY <1>2, <2>1, <2>2, DomainGrows
    <3> QED BY <2>1, <3>1 DEF FilesNum
  <2>5. cindex <= FilesNum /\ (\A n \in Used : n < cindex) /\ Used' = Used \cup {cindex}
    BY <2>1 DEF WriteInv, Used
  <2>6. RecipesNum' = RecipesNum BY <2>1 DEF RecipesNum
  <2>7. \A n \in Used' : n \in Nat /\ n <= cindex BY <1>2, <2>5
  <2> HIDE DEF Used, FilesNum, RecipesNum
  <2>8. \A n \in Used' : n < FilesNum' BY <1>2, <2>4, <2>5, <2>7
  <2>9. /\ pc' = "loop" => cindex' <= FilesNum' /\ \A n \in Used' : n < cindex'
        /\ pc' = "rev" => cindex' < FilesNum' /\ \A n \in Used' : n <= cindex'
    BY <1>2, <2>1, <2>4, <2>5, <2>7
  <2> QED BY <2>1, <2>3, <2>6, <2>8, <2>9 DEF WriteInv
<1>7. CASE SaveRev
  <2>1. /\ UNCHANGED <<containers, recipes, task, mishaps>> /\ pc = "rev" /\ pc' = "loop"
        /\ DOMAIN revs' = DOMAIN revs \cup {cindex} /\ cindex' = cindex + 1
    BY <1>7 DEF SaveRev, Put, input
  <2>2. FilesNum' >= FilesNum /\ FilesNum' \in Nat
    <3>1. /\ Cardinality(DOMAIN containers) \in Nat /\ Cardinality(DOMAIN revs) \in Nat
          /\ Cardinality(DOMAIN revs') \in {Cardinality(DOMAIN revs), Cardinality(DOMAIN revs) + 1}
      BY <1>2, <2>1, DomainGrows
    <3>2. Cardinality(DOMAIN containers') = Cardinality(DOMAIN containers) BY <2>1
    <3> QED BY <3>1, <3>2 DEF FilesNum
  <2>3. cindex < FilesNum /\ (\A n \in Used : n <= cindex) /\ Used' = Used \cup {cindex}
    BY <2>1 DEF WriteInv, Used
  <2>4. RecipesNum' = RecipesNum BY <2>1 DEF RecipesNum
  <2>5. \A n \in Used' : n \in Nat /\ n <= cindex BY <1>2, <2>3
  <2> HIDE DEF Used, FilesNum, RecipesNum
  <2>6. \A n \in Used' : n < FilesNum' BY <1>2, <2>2, <2>3, <2>5
  <2>7. cindex' <= FilesNum' /\ \A n \in Used' : n < cindex'
    BY <1>2, <2>1, <2>2, <2>3, <2>5
  <2> QED BY <2>1, <2>4, <2>6, <2>7 DEF WriteInv
<1>8. CASE SaveRecipe
  <2>1. /\ UNCHANGED <<containers, revs, task>> /\ pc' = "trunc"
        /\ DOMAIN recipes' = DOMAIN recipes \cup {RecipesNum}
    BY <1>8 DEF SaveRecipe, Put
  <2>2. RecipesNum \notin DOMAIN recipes BY <1>2 DEF WriteInv
  <2>3. mishaps' = {} BY <1>8, <2>2 DEF SaveRecipe, Note, WriteInv
  <2>4. RecipesNum' = RecipesNum + 1
    <3>1. IsFiniteSet(DOMAIN recipes) BY <1>1 DEF TypeOK
    <3> QED BY <2>1, <2>2, <3>1, FS_AddElement DEF RecipesNum
  <2>5. DOMAIN recipes' = 0..(RecipesNum' - 1) BY <1>2, <2>1, <2>4 DEF WriteInv
  <2> QED BY <2>1, <2>3, <2>5 DEF WriteInv, Used, FilesNum
<1>9. CASE TruncIndex \/ SaveIndex \/ Crash
  <2>1. /\ UNCHANGED <<containers, revs, recipes>> /\ pc' \in {"save", "idle"}
        /\ task' \in {task, "none"}
    BY <1>9 DEF TruncIndex, SaveIndex, Crash, Exit, input
  <2>2. mishaps' = {}
    <3>1. CASE TruncIndex \/ SaveIndex BY <3>1 DEF TruncIndex, SaveIndex, WriteInv
    <3>2. CASE Crash
      <4>1. pc \in {"loop", "rev"} /\ task # "delete" BY <3>2 DEF Crash, WriteInv
      <4> QED BY <3>2, <4>1 DEF Crash, Note, WriteInv
    <3> QED BY <1>9, <3>1, <3>2
  <2> QED BY <2>1, <2>2 DEF WriteInv, Used, FilesNum, RecipesNum
<1>10. /\ \A v : ~StartDelete(v)
       /\ ~DeleteRef /\ ~DeleteChunk /\ ~DeleteFatal /\ ~DeleteUndefined /\ ~Unlink
  <2>1. "delete" \notin Tasks BY DEF WriteTasks
  <2>2. pc # "del" BY <1>1 DEF ControlInv, WriteInv
  <2> QED
    BY <2>1, <2>2 DEF StartDelete, DeleteRef, DeleteChunk, ReleasesLast, DeleteFatal,
                      DeleteUndefined, Unlink
<1> QED BY <1>3, <1>4, <1>5, <1>6, <1>7, <1>8, <1>9, <1>10 DEF Next

\* Both kinds of write, dying anywhere before they save their recipe, leave
\* every version restorable: an interrupted write is as if it had never begun,
\* however many of them follow one another.
THEOREM RestorableAfterCrash ==
    ASSUME IndexFits, MaxTasks <= VersionMod,
           Tasks \subseteq WriteTasks, CrashPoints \subseteq {"loop", "rev"}
    PROVE  Spec => []VersionsRestorable
<1> DEFINE J == mishaps = {} => CountInv
           L == mishaps = {} => CatalogInv
<1>1. Init => J /\ L /\ WriteInv BY CountInit, CatalogInit, WriteInitially
<1>2. IInv /\ IInv' /\ J /\ [Next]_vars => J' BY CountNext
<1>3. IInv /\ L /\ [Next]_vars => L' BY CatalogNext
<1>4. IInv /\ J /\ WriteInv /\ [Next]_vars => WriteInv' BY WriteNext
<1>5. IInv /\ J /\ L /\ WriteInv => VersionsRestorable
  BY CatalogRestorable DEF IInv, WriteInv
<1> HIDE DEF J, L
<1> QED BY <1>1, <1>2, <1>3, <1>4, <1>5, InvHolds, PTL DEF Spec

\* Such writes meet none of the mishaps.
THEOREM CrashNoMishap ==
    ASSUME IndexFits, Tasks \subseteq WriteTasks, CrashPoints \subseteq {"loop", "rev"}
    PROVE  Spec => []NoMishap
<1> DEFINE J == mishaps = {} => CountInv
<1>1. Init => J /\ WriteInv BY CountInit, WriteInitially
<1>2. IInv /\ IInv' /\ J /\ [Next]_vars => J' BY CountNext
<1>3. IInv /\ J /\ WriteInv /\ [Next]_vars => WriteInv' BY WriteNext
<1>4. WriteInv => NoMishap BY DEF WriteInv, NoMishap
<1> HIDE DEF J
<1> QED BY <1>1, <1>2, <1>3, <1>4, InvHolds, PTL DEF Spec

-------------------------------------------------------------------------------
(***************************************************************************)
(* A store that is written serially and deleted from, by a user who writes *)
(* only when no version number is free.  Why getFilesNum is then always a  *)
(* free container number: it counts two files for every container, so it   *)
(* is twice their number; and the containers that the versions 0..k-1 use  *)
(* keep their numbers below twice *their* number, for every k, whatever is *)
(* deleted behind them.                                                    *)
(***************************************************************************)
Flushed == {c \in DOMAIN Table : ~Buffered(c)}
Places(table, S) == {table[c].container_number : c \in S}
Mentioned(k) == UNION {Range(recipes[v]) : v \in 0..(k - 1)}

\* The versions 0..k-1 are stored, and none of them is being deleted.
Settled(k) ==
    /\ 0..(k - 1) \subseteq DOMAIN recipes
    /\ task = "delete" => RecipeFile(target) \notin 0..(k - 1)

PrefixInv ==
    \A k \in 0..RecipesNum : Settled(k) =>
      \A n \in Places(Table, Mentioned(k)) : n < 2 * Cardinality(Places(Table, Mentioned(k)))

\* Container files, reverse lists and the numbers the index uses agree.
NumbersInv ==
    /\ mishaps = {} /\ task # "write_pipeline"
    /\ DOMAIN containers = DOMAIN revs \cup (IF pc = "rev" THEN {cindex} ELSE {})
    /\ DOMAIN containers = Places(Table, Flushed)
    /\ pc \in {"loop", "rev"} => Dense
    /\ pc = "loop" => /\ cindex <= 2 * Cardinality(DOMAIN containers)
                      /\ \A n \in DOMAIN containers : n < cindex
    /\ pc = "rev" => /\ cindex + 1 <= 2 * Cardinality(DOMAIN containers)
                     /\ \A n \in DOMAIN containers : n <= cindex
                     /\ cindex \notin DOMAIN revs

\* Every cell of container n belongs to a chunk the table places there.
Holds(file, n, table) ==
    \A i \in DOMAIN file :
      LET c == file[i][1]
      IN  /\ c \in DOMAIN table /\ table[c].container_number = n
          /\ file[i][2] \in 1..ChunkLen[c] /\ table[c].offset + file[i][2] = i

CellsInv ==
    /\ \A n \in DOMAIN containers : containers[n] # <<>> /\ Holds(containers[n], n, Table)
    /\ pc = "loop" => Holds(cbuf, cindex, added)
    /\ pc = "idle" => cbuf = <<>>

SerialInv == NumbersInv /\ PrefixInv /\ CellsInv

\* Chunks of settled versions are in the index.
SettledIndexed ==
    /\ \A k \in Nat : Settled(k) => Mentioned(k) \subseteq DOMAIN Table
    /\ task # "delete" /\ pc \notin {"loop", "rev"} /\ Dense =>
         Mentioned(RecipesNum) = DOMAIN Table

LEMMA SettledAreIndexed == TypeOK /\ CountInv => SettledIndexed
<1> SUFFICES ASSUME TypeOK, CountInv PROVE SettledIndexed
  OBVIOUS
<1>1. ASSUME NEW v \in DOMAIN recipes, Live(v) = recipes[v]
      PROVE  Range(recipes[v]) \subseteq DOMAIN Table
  <2>1. v \in DOMAIN Shelf /\ Shelf[v] = recipes[v] /\ v \in Int /\ recipes[v] \in Seq(Chunk)
    BY <1>1, ShelfTyped DEF ShelfShape, TypeOK
  <2> SUFFICES ASSUME NEW i \in DOMAIN recipes[v] PROVE recipes[v][i] \in DOMAIN Table
    BY DEF Range
  <2>2. i \in Nat /\ recipes[v][i] \in Chunk BY <2>1, FunctionOfSeq
  <2>3. <<v, i>> \in HoldersIn(Shelf, recipes[v][i]) BY <2>1, <2>2 DEF HoldersIn
  <2> QED BY <2>2, <2>3 DEF CountInv, Counted
<1>2. ASSUME NEW k \in Nat, Settled(k) PROVE Mentioned(k) \subseteq DOMAIN Table
  <2>1. \A v \in 0..(k - 1) : v \in DOMAIN recipes /\ Live(v) = recipes[v]
    BY <1>2 DEF Settled, Live
  <2> QED BY <2>1, <1>1 DEF Mentioned
<1>3. ASSUME task # "delete", pc \notin {"loop", "rev"}, Dense
      PROVE  Mentioned(RecipesNum) = DOMAIN Table
  <2>1. Settled(RecipesNum) /\ RecipesNum \in Nat BY <1>3, NumbersTyped DEF Settled, Dense
  <2>2. Mine = <<>> /\ \A v \in DOMAIN recipes : Live(v) = recipes[v] BY <1>3 DEF Mine, Live
  <2>3. ASSUME NEW c \in DOMAIN Table PROVE c \in Mentioned(RecipesNum)
    <3>1. c \in Chunk BY TablesTyped, SaveType DEF Table, TableType
    <3>2. PICK p \in HoldersIn(Shelf, c) : TRUE BY <3>1 DEF CountInv, Counted
    <3>3. p[1] \in DOMAIN recipes /\ p[2] \in DOMAIN recipes[p[1]] /\ recipes[p[1]][p[2]] = c
      <4>1. DOMAIN Shelf[-1] = {} BY <2>2, ShelfTyped DEF ShelfShape
      <4> QED BY <2>2, <3>2, <4>1, ShelfTyped DEF ShelfShape, HoldersIn
    <3> QED BY <1>3, <3>3 DEF Mentioned, Dense, Range
  <2> QED BY <2>1, <2>3, <1>2
<1> QED BY <1>2, <1>3 DEF SettledIndexed

LEMMA SettledAreIndexedNext == TypeOK' /\ CountInv' => SettledIndexed'
BY SettledAreIndexed, PTL

LEMMA PlacesAlike ==
    ASSUME NEW t, NEW u, NEW S, \A c \in S : u[c].container_number = t[c].container_number
    PROVE  Places(u, S) = Places(t, S)
BY DEF Places

\* The prefixes stay as they are when no entry moves to another container.
LEMMA PrefixStays ==
    ASSUME TypeOK, PrefixInv, RecipesNum' \in 0..RecipesNum,
           \A c \in DOMAIN Table' : c \in DOMAIN Table,
           \A c \in DOMAIN Table' : (Table')[c].container_number = Table[c].container_number,
           \A k \in Nat : Settled(k)' => Settled(k) /\ Mentioned(k)' = Mentioned(k),
           SettledIndexed'
    PROVE  PrefixInv'
<1> SUFFICES ASSUME NEW k \in 0..RecipesNum', Settled(k)'
             PROVE  (\A n \in Places(Table, Mentioned(k)) :
                        n < 2 * Cardinality(Places(Table, Mentioned(k))))'
  BY DEF PrefixInv
<1>1. RecipesNum \in Nat /\ k \in Nat /\ k \in 0..RecipesNum BY NumbersTyped
<1>2. Settled(k) /\ Mentioned(k)' = Mentioned(k) BY <1>1
<1>3. Mentioned(k)' \subseteq DOMAIN Table' BY <1>1 DEF SettledIndexed
<1>4. Places(Table, Mentioned(k))' = Places(Table, Mentioned(k))
  <2>1. Places(Table', Mentioned(k)) = Places(Table, Mentioned(k))
    BY <1>2, <1>3, PlacesAlike
  <2> QED BY <2>1, <1>2 DEF Places
<1> QED BY <1>1, <1>2, <1>4 DEF PrefixInv

-------------------------------------------------------------------------------
(***************************************************************************)
(* No step of such a store is a mishap.                                    *)
(***************************************************************************)
\* The chunk to be released is in the index, in a container with a list that
\* names it.
LEMMA ReleaseIsSafe ==
    ASSUME TypeOK, ControlInv, StoreInv, CountInv, NumbersInv, pc = "del", todo # <<>>
    PROVE  LET c == Head(todo)
               n == origin[c].container_number
           IN  /\ c \in DOMAIN origin /\ HasRev(n)
               /\ c \in Listed(n) /\ Listed(n) \subseteq DOMAIN origin
<1>1. PICK c : c = Head(todo) OBVIOUS
<1>2. /\ task = "delete" /\ added = EmptyTable /\ Table = origin
      /\ RecipeFile(target) \in DOMAIN recipes
  BY SaveNothing, TablesTyped DEF ControlInv, CountInv, Table
<1>3. PICK r \in DOMAIN recipes : r = RecipeFile(target) BY <1>2
<1>4. Shelf[r] = todo /\ r \in DOMAIN Shelf /\ r \in Int
  BY <1>2, <1>3, ShelfTyped DEF ShelfShape, Live, TypeOK
<1>5. todo \in Seq(Chunk) /\ 1 \in DOMAIN todo /\ todo[1] = c /\ c \in Chunk
  BY <1>1, HeadTailProperties DEF TypeOK
<1>6. <<r, 1>> \in HoldersIn(Shelf, c) BY <1>4, <1>5 DEF HoldersIn
<1>7. c \in DOMAIN origin BY <1>2, <1>5, <1>6 DEF CountInv, Counted
<1>8. \A x : ~Buffered(x) BY DEF Buffered
<1>9. PICK n : n = origin[c].container_number OBVIOUS
<1>10. n \in DOMAIN revs
  <2>1. c \in Flushed BY <1>2, <1>7, <1>8 DEF Flushed
  <2>2. n \in Places(Table, Flushed) BY <2>1, <1>2, <1>9 DEF Places
  <2> QED BY <2>2 DEF NumbersInv
<1>11. Range(revs[n]) = Placed(origin, n) /\ c \in Placed(origin, n)
  <2>1. {x \in Placed(Table, n) : ~Buffered(x)} = Placed(origin, n)
    BY <1>2, <1>8 DEF Placed
  <2>2. c \in Placed(origin, n) BY <1>7, <1>9 DEF Placed
  <2> QED BY <2>1, <2>2, <1>10 DEF StoreInv, RevExact, Exact
<1>12. revs[n] # <<>>
  <2>1. DOMAIN revs[n] # {} BY <1>11 DEF Range
  <2> QED BY <2>1
<1> QED BY <1>1, <1>7, <1>9, <1>10, <1>11, <1>12 DEF HasRev, Listed, Placed

\* The promises of the user and of the machine.
SerialUse ==
    /\ Tasks \subseteq {"write", "delete"} /\ DenseOnly
    /\ CrashPoints = {} /\ IndexFits

LEMMA SerialSafe ==
    ASSUME SerialUse, IInv, CountInv, SerialInv, [Next]_vars
    PROVE  mishaps' = {} /\ ~DeleteFatal /\ ~DeleteUndefined /\ ~Crash
<1>1. TypeOK /\ ControlInv /\ NumbersInv /\ mishaps = {} /\ StoreInv
  BY DEF IInv, SerialInv, NumbersInv
<1>2. ~Crash BY DEF Crash, SerialUse
<1>3. ~DeleteFatal
  <2> SUFFICES ASSUME DeleteFatal PROVE FALSE
    OBVIOUS
  <2>1. pc = "del" /\ todo # <<>> BY DEF DeleteFatal, ReleasesLast
  <2> QED BY <1>1, <2>1, ReleaseIsSafe DEF DeleteFatal
<1>4. ~DeleteUndefined
  <2> SUFFICES ASSUME DeleteUndefined PROVE FALSE
    OBVIOUS
  <2>1. pc = "del" /\ todo # <<>> BY DEF DeleteUndefined, ReleasesLast
  <2> QED BY <1>1, <2>1, ReleaseIsSafe DEF DeleteUndefined
<1>5. ASSUME LoadIndex PROVE mishaps' = {}
  <2>1. origin' = index BY <1>1, <1>5, LoadsAll DEF SerialUse
  <2> QED BY <1>1, <1>5, <2>1 DEF LoadIndex, Note
<1>6. ASSUME SaveContainer PROVE mishaps' = {}
  <2>1. pc = "loop" /\ cindex \in Nat BY <1>1, <1>6 DEF SaveContainer, TypeOK
  <2>2. (\A n \in DOMAIN containers : n < cindex) /\ DOMAIN revs = DOMAIN containers
    BY <1>1, <2>1 DEF NumbersInv
  <2>3. cindex \notin DOMAIN containers \cup DOMAIN revs BY <2>1, <2>2
  <2> QED BY <1>1, <1>6, <2>3 DEF SaveContainer, Note
<1>7. ASSUME SaveRecipe PROVE mishaps' = {}
  <2>1. Dense /\ RecipesNum \in Nat BY <1>1, <1>7, NumbersTyped DEF SaveRecipe, NumbersInv
  <2>2. RecipesNum \notin DOMAIN recipes BY <2>1 DEF Dense
  <2> QED BY <1>1, <1>7, <2>2 DEF SaveRecipe, Note
<1>8. ASSUME DeleteChunk PROVE mishaps' = {}
  <2>1. pc = "del" /\ todo # <<>> BY <1>8 DEF DeleteChunk, ReleasesLast
  <2> QED BY <1>1, <1>8, <2>1, ReleaseIsSafe DEF DeleteChunk, Note
<1>9. mishaps' = {}
  <2>1. CASE UNCHANGED vars BY <1>1, <2>1 DEF vars
  <2>2. CASE Next
    BY <1>1, <1>2, <1>3, <1>4, <1>5, <1>6, <1>7, <1>8, <2>2
    DEF Next, StartWrite, DedupChunk, UniqueChunk, SaveRev, StartDelete, DeleteRef, Unlink,
        TruncIndex, SaveIndex
  <2> QED BY <2>1, <2>2
<1> QED BY <1>2, <1>3, <1>4, <1>9

-------------------------------------------------------------------------------
(***************************************************************************)
(* The invariant of such a store: the steps of a write.                    *)
(***************************************************************************)
LEMMA HoldsAlike ==
    ASSUME NEW file \in Seq(Cell), NEW n, NEW t, NEW u, Holds(file, n, t),
           DOMAIN t \subseteq DOMAIN u,
           \A c \in DOMAIN t : t[c].container_number = n =>
              u[c].container_number = n /\ u[c].offset = t[c].offset
    PROVE  Holds(file, n, u)
BY DEF Holds

\* Reference counts are all that changes.
LEMMA SerialSame ==
    ASSUME TypeOK, TypeOK', CountInv', SerialInv, mishaps' = {},
           SamePlaces(Table, Table'), SamePlaces(added, added'),
           UNCHANGED <<containers, revs, recipes, pc, task, target, cindex, cbuf>>
    PROVE  SerialInv'
<1>1. \A c : Buffered(c)' <=> Buffered(c) BY DEF SamePlaces, Buffered
<1>2. Flushed' = Flushed BY <1>1 DEF Flushed, SamePlaces
<1>3. RecipesNum' = RecipesNum /\ RecipesNum \in Nat BY NumbersTyped DEF RecipesNum
<1>4. NumbersInv'
  <2>1. Places(Table', Flushed) = Places(Table, Flushed)
    BY PlacesAlike DEF Flushed, SamePlaces
  <2>2. DOMAIN containers' = Places(Table, Flushed)'
    BY <1>2, <2>1 DEF SerialInv, NumbersInv, Places
  <2> QED BY <1>3, <2>2 DEF SerialInv, NumbersInv, Dense
<1>5. PrefixInv'
  <2>1. \A k \in Nat : Settled(k)' => Settled(k) /\ Mentioned(k)' = Mentioned(k)
    BY DEF Settled, Mentioned
  <2> QED BY <2>1, <1>3, PrefixStays, SettledAreIndexedNext DEF SerialInv, SamePlaces
<1>6. CellsInv'
  <2>1. ASSUME NEW n \in DOMAIN containers PROVE Holds(containers[n], n, Table')
    <3>1. Holds(containers[n], n, Table) /\ containers[n] \in Seq(Cell)
      BY DEF SerialInv, CellsInv, TypeOK
    <3> QED BY <3>1, HoldsAlike DEF SamePlaces
  <2>2. ASSUME pc = "loop" PROVE Holds(cbuf, cindex, added')
    <3>1. Holds(cbuf, cindex, added) /\ cbuf \in Seq(Cell)
      BY <2>2 DEF SerialInv, CellsInv, TypeOK
    <3> QED BY <3>1, HoldsAlike DEF SamePlaces
  <2> QED BY <2>1, <2>2 DEF SerialInv, CellsInv, Holds
<1> QED BY <1>4, <1>5, <1>6 DEF SerialInv

\* A write starts above every container, a delete changes nothing yet.
LEMMA SerialStart ==
    ASSUME SerialUse, TypeOK, TypeOK', ControlInv, CountInv, CountInv', SerialInv,
           LoadIndex, mishaps' = {}, UNCHANGED <<disk, cbuf>>,
           \/ pc' = "loop" /\ task' = "write" /\ Dense /\ cindex' = FilesNum
           \/ pc' = "del" /\ task' = "delete"
    PROVE  SerialInv'
<1>1. /\ pc = "idle" /\ task = "none" /\ origin' = index /\ added' = EmptyTable
      /\ UNCHANGED <<containers, revs, recipes>>
  BY DEF LoadIndex, ControlInv, Note, disk
<1>2. Table = index /\ Table' = index
  <2>1. save(index, EmptyTable) = index BY SaveNothing, TablesTyped
  <2> QED BY <1>1, <2>1 DEF Table
<1>3. Flushed = DOMAIN index /\ Flushed' = DOMAIN index
  BY <1>1, <1>2, EmptyTableType DEF Flushed, Buffered
<1>4. RecipesNum' = RecipesNum /\ RecipesNum \in Nat BY <1>1, NumbersTyped DEF RecipesNum
<1>5. DOMAIN containers = Places(index, DOMAIN index) /\ DOMAIN revs = DOMAIN containers
  BY <1>1, <1>2, <1>3 DEF SerialInv, NumbersInv
<1>6. ASSUME pc' = "loop", Dense, cindex' = FilesNum
      PROVE  /\ cindex' <= 2 * Cardinality(DOMAIN containers)
             /\ \A n \in DOMAIN containers : n < cindex'
  <2>1. Cardinality(DOMAIN containers) \in Nat BY FS_CardinalityType DEF TypeOK
  <2>2. cindex' = 2 * Cardinality(DOMAIN containers) BY <1>5, <1>6, <2>1 DEF FilesNum
  <2>3. Mentioned(RecipesNum) = DOMAIN index
    BY <1>1, <1>2, <1>6, SettledAreIndexed DEF SettledIndexed
  <2>4. Settled(RecipesNum) BY <1>1, <1>6 DEF Settled, Dense
  <2>5. RecipesNum \in 0..RecipesNum BY <1>4
  <2>6. \A n \in Places(Table, Mentioned(RecipesNum)) :
          n < 2 * Cardinality(Places(Table, Mentioned(RecipesNum)))
    BY <2>4, <2>5 DEF SerialInv, PrefixInv
  <2> QED BY <1>2, <1>5, <2>1, <2>2, <2>3, <2>6
<1>7. NumbersInv'
  <2>1. (Dense)' <=> Dense BY <1>1, <1>4 DEF Dense
  <2>2. DOMAIN containers' = Places(Table, Flushed)' BY <1>1, <1>2, <1>3, <1>5 DEF Places
  <2>3. pc' # "rev" /\ task' # "write_pipeline" /\ mishaps' = {}
        /\ DOMAIN containers' = DOMAIN revs'
    BY <1>1, <1>5
  <2> QED BY <1>1, <1>6, <2>1, <2>2, <2>3 DEF NumbersInv
<1>8. PrefixInv'
  <2>1. \A k \in Nat : Settled(k)' => Settled(k) /\ Mentioned(k)' = Mentioned(k)
    BY <1>1 DEF Settled, Mentioned
  <2> QED BY <2>1, <1>2, <1>4, PrefixStays, SettledAreIndexedNext DEF SerialInv
<1>9. CellsInv'
  <2>1. cbuf' = <<>> BY <1>1 DEF SerialInv, CellsInv
  <2>2. Holds(cbuf, cindex, added)'
    <3>1. DOMAIN cbuf' = {} BY <2>1
    <3> QED BY <3>1 DEF Holds
  <2>3. \A n \in DOMAIN containers : containers[n] # <<>> /\ Holds(containers[n], n, Table)
    BY DEF SerialInv, CellsInv
  <2> QED BY <1>1, <1>2, <2>2, <2>3, <2>1 DEF CellsInv, Holds
<1> QED BY <1>7, <1>8, <1>9 DEF SerialInv

\* A new chunk goes behind those in the buffer.
LEMMA SerialUnique ==
    ASSUME TypeOK, CountInv, SerialInv, mishaps' = {}, UniqueChunk
    PROVE  SerialInv'
<1>1. PICK c \in Chunk : c = Head(todo) BY HeadType DEF UniqueChunk
<1>2. PICK new : new = Entry(cindex, Len(cbuf), ChunkLen[c], 1) OBVIOUS
<1>3. /\ c \notin DOMAIN origin /\ c \notin DOMAIN added
      /\ added' = [x \in DOMAIN added \cup {c} |-> IF x \in DOMAIN added THEN added[x] ELSE new]
      /\ cbuf' = AppendChunk(cbuf, c)
      /\ UNCHANGED <<containers, revs, recipes, pc, task, target, origin, cindex>>
      /\ pc = "loop" /\ cbuf \in Seq(Cell) /\ Len(cbuf) \in Nat /\ ChunkLen[c] \in Nat \ {0}
  BY <1>1, <1>2, ChunkAssumption DEF UniqueChunk, IsDedup, addNewEntry, disk, TypeOK
<1>4. /\ DOMAIN Table' = DOMAIN Table \cup {c} /\ c \notin DOMAIN Table
      /\ \A x \in DOMAIN Table : (Table')[x] = Table[x]
  BY <1>3 DEF Table, save
<1>5. /\ Buffered(c)' /\ \A x \in DOMAIN Table : Buffered(x)' <=> Buffered(x)
  BY <1>2, <1>3, <1>4 DEF Buffered, Entry
<1>6. Flushed' = Flushed BY <1>4, <1>5 DEF Flushed
<1>7. RecipesNum' = RecipesNum /\ RecipesNum \in Nat BY <1>3, NumbersTyped DEF RecipesNum
<1>8. NumbersInv'
  <2>1. Places(Table', Flushed) = Places(Table, Flushed) BY <1>4, PlacesAlike DEF Flushed
  <2>2. DOMAIN containers' = Places(Table, Flushed)'
    BY <1>3, <1>6, <2>1 DEF SerialInv, NumbersInv, Places
  <2> QED BY <1>3, <1>7, <2>2 DEF SerialInv, NumbersInv, Dense
<1>9. PrefixInv'
  <2>1. \A k \in Nat : Settled(k)' => Settled(k) /\ Mentioned(k)' = Mentioned(k)
    BY <1>3 DEF Settled, Mentioned
  <2>2. SettledIndexed BY SettledAreIndexed
  <2> SUFFICES ASSUME NEW k \in 0..RecipesNum, Settled(k)'
               PROVE  (\A n \in Places(Table, Mentioned(k)) :
                          n < 2 * Cardinality(Places(Table, Mentioned(k))))'
    BY <1>7 DEF PrefixInv
  <2>3. Settled(k) /\ Mentioned(k)' = Mentioned(k) /\ k \in Nat BY <1>7, <2>1
  <2>4. Mentioned(k) \subseteq DOMAIN Table BY <2>2, <2>3 DEF SettledIndexed
  <2>5. Places(Table', Mentioned(k)) = Places(Table, Mentioned(k))
    BY <1>4, <2>4, PlacesAlike
  <2>6. Places(Table, Mentioned(k))' = Places(Table, Mentioned(k))
    BY <2>3, <2>5 DEF Places
  <2> QED BY <2>3, <2>6 DEF SerialInv, PrefixInv
<1>10. CellsInv'
  <2>1. ASSUME NEW n \in DOMAIN containers PROVE Holds(containers[n], n, Table')
    <3>1. Holds(containers[n], n, Table) /\ containers[n] \in Seq(Cell)
      BY DEF SerialInv, CellsInv, TypeOK
    <3> QED BY <1>4, <3>1, HoldsAlike
  <2>2. Holds(cbuf', cindex, added')
    <3>1. Holds(cbuf, cindex, added) BY <1>3 DEF SerialInv, CellsInv
    <3>2. Holds(cbuf, cindex, added') BY <1>3, <3>1, HoldsAlike
    <3>3. /\ DOMAIN cbuf = 1..Len(cbuf) /\ DOMAIN cbuf' = 1..(Len(cbuf) + ChunkLen[c])
          /\ \A i \in DOMAIN cbuf' :
               (cbuf')[i] = IF i <= Len(cbuf) THEN cbuf[i] ELSE <<c, i - Len(cbuf)>>
      BY <1>3, FunctionOfSeq DEF AppendChunk
    <3> SUFFICES ASSUME NEW i \in DOMAIN cbuf'
                 PROVE  LET x == (cbuf')[i][1]
                        IN  /\ x \in DOMAIN added' /\ (added')[x].container_number = cindex
                            /\ (cbuf')[i][2] \in 1..ChunkLen[x]
                            /\ (added')[x].offset + (cbuf')[i][2] = i
      BY DEF Holds
    <3>4. CASE i <= Len(cbuf)
      <4>1. i \in 1..(Len(cbuf) + ChunkLen[c]) BY <3>3
      <4>2. i \in 1..Len(cbuf) BY <1>3, <3>4, <4>1
      <4>3. i \in DOMAIN cbuf /\ (cbuf')[i] = cbuf[i] BY <3>3, <3>4, <4>2
      <4> QED BY <3>2, <4>3 DEF Holds
    <3>5. CASE ~(i <= Len(cbuf))
      <4>1. (cbuf')[i] = <<c, i - Len(cbuf)>> BY <3>3, <3>5
      <4>2. /\ (added')[c].container_number = cindex /\ (added')[c].offset = Len(cbuf)
            /\ c \in DOMAIN added'
        BY <1>2, <1>3 DEF Entry
      <4>3. i - Len(cbuf) \in 1..ChunkLen[c] /\ Len(cbuf) + (i - Len(cbuf)) = i
        BY <1>3, <3>3, <3>5
      <4> QED BY <4>1, <4>2, <4>3
    <3> QED BY <3>4, <3>5
  <2>3. \A n \in DOMAIN containers : containers[n] # <<>> BY DEF SerialInv, CellsInv
  <2>4. containers' = containers /\ pc' = "loop" /\ cindex' = cindex BY <1>3
  <2> HIDE DEF Holds
  <2> QED BY <2>1, <2>2, <2>3, <2>4 DEF CellsInv
<1> QED BY <1>8, <1>9, <1>10 DEF SerialInv

\* When a flush is due the buffer is not empty.
LEMMA FlushNotEmpty ==
    ASSUME TypeOK, SaveContainer
    PROVE  cbuf # <<>>
<1>1. CASE todo = <<>> BY <1>1 DEF SaveContainer, FlushDue
<1>2. CASE todo # <<>>
  <2>1. Full(cbuf, Head(todo)) /\ Head(todo) \in Chunk
    BY <1>2, HeadType DEF SaveContainer, FlushDue
  <2>2. Len(cbuf) \in Nat /\ Len(cbuf) + ChunkLen[Head(todo)] >= ContainerSize
    BY <2>1 DEF Full, TypeOK
  <2>3. Len(cbuf) # 0 BY <2>1, <2>2, ChunkAssumption
  <2> QED BY <2>3
<1> QED BY <1>1, <1>2

\* The buffer becomes a container: its number is free.
LEMMA SerialFlush ==
    ASSUME TypeOK, ControlInv, StoreInv, CountInv', TypeOK', SerialInv, mishaps' = {},
           SaveContainer
    PROVE  SerialInv'
<1>1. /\ UNCHANGED <<revs, recipes, index, input, tables>> /\ pc = "loop"
      /\ task = "write" /\ pc' = "rev" /\ UNCHANGED <<cindex, cbuf>>
      /\ cbuf \in Seq(Cell) /\ Len(cbuf) \in Nat /\ cindex \in Nat
  BY DEF SaveContainer, SerialInv, NumbersInv, TypeOK
<1>2. /\ DOMAIN revs = DOMAIN containers /\ \A n \in DOMAIN containers : n < cindex
      /\ cindex <= 2 * Cardinality(DOMAIN containers) /\ Dense
      /\ DOMAIN containers = Places(Table, Flushed) /\ task # "write_pipeline"
  BY <1>1 DEF SerialInv, NumbersInv
<1>3. cindex \notin DOMAIN containers BY <1>1, <1>2
<1>4. Overlay(cbuf, <<>>) = cbuf
  <2>1. Larger(Len(cbuf), Len(<<>>)) = Len(cbuf) BY <1>1 DEF Larger
  <2> QED BY <2>1, <1>1, FunctionOfSeq DEF Overlay
<1>5. /\ DOMAIN containers' = DOMAIN containers \cup {cindex}
      /\ (containers')[cindex] = cbuf
      /\ \A n \in DOMAIN containers : (containers')[n] = containers[n]
  BY <1>3, <1>4 DEF SaveContainer, Put
<1>6. Table' = Table BY <1>1 DEF Table, tables
<1>7. Flushed' = DOMAIN Table BY <1>1, <1>6 DEF Flushed, Buffered
<1>8. Holds(cbuf, cindex, added) BY <1>1 DEF SerialInv, CellsInv
<1>9. \E c \in DOMAIN added : Buffered(c)
  <2>1. cbuf # <<>> BY FlushNotEmpty
  <2>2. 1 \in DOMAIN cbuf BY <1>1, <2>1, FunctionOfSeq
  <2> QED BY <1>1, <1>8, <2>2 DEF Holds, Buffered
<1>10. DOMAIN containers' = Places(Table, Flushed)'
  <2>1. \A c \in DOMAIN Table : Buffered(c) => Table[c].container_number = cindex
    BY <1>1 DEF Buffered, Table, save
  <2>2. \A c \in DOMAIN added : c \in DOMAIN Table BY <1>1 DEF Table, save
  <2>3. Places(Table, DOMAIN Table) = Places(Table, Flushed) \cup {cindex}
    BY <1>9, <2>1, <2>2 DEF Places, Flushed
  <2> QED BY <1>2, <1>5, <1>6, <1>7, <2>3 DEF Places
<1>11. NumbersInv'
  <2>1. /\ Cardinality(DOMAIN containers) \in Nat
        /\ Cardinality(DOMAIN containers') = Cardinality(DOMAIN containers) + 1
    BY <1>3, <1>5, DomainGrows DEF TypeOK
  <2>2. cindex' + 1 <= 2 * Cardinality(DOMAIN containers') BY <1>1, <1>2, <2>1
  <2>3. (\A n \in DOMAIN containers' : n <= cindex') /\ cindex' \notin DOMAIN revs'
    BY <1>1, <1>2, <1>3, <1>5 DEF TypeOK
  <2>4. DOMAIN containers' = DOMAIN revs' \cup {cindex'} BY <1>1, <1>2, <1>5
  <2>5. Dense' /\ task' # "write_pipeline"
    BY <1>1, <1>2 DEF Dense, RecipesNum, input
  <2> QED BY <1>1, <1>10, <2>2, <2>3, <2>4, <2>5 DEF NumbersInv
<1>12. PrefixInv'
  <2>1. \A k \in Nat : Settled(k)' => Settled(k) /\ Mentioned(k)' = Mentioned(k)
    BY <1>1 DEF Settled, Mentioned, input
  <2>2. RecipesNum' = RecipesNum /\ RecipesNum \in Nat BY <1>1, NumbersTyped DEF RecipesNum
  <2> QED BY <2>1, <2>2, <1>6, PrefixStays, SettledAreIndexedNext DEF SerialInv
<1>13. CellsInv'
  <2>1. \A c \in DOMAIN added : c \in DOMAIN Table /\ Table[c] = added[c]
    BY <1>1 DEF Table, save
  <2>2. Holds(cbuf, cindex, Table) BY <1>1, <1>8, <2>1, HoldsAlike
  <2>3. \A n \in DOMAIN containers : containers[n] # <<>> /\ Holds(containers[n], n, Table)
    BY DEF SerialInv, CellsInv
  <2>4. cbuf # <<>> BY FlushNotEmpty
  <2>5. \A n \in DOMAIN containers' : (containers')[n] # <<>> /\ Holds((containers')[n], n, Table')
    BY <1>5, <1>6, <2>2, <2>3, <2>4
  <2> HIDE DEF Holds
  <2> QED BY <1>1, <2>5 DEF CellsInv
<1> QED BY <1>11, <1>12, <1>13 DEF SerialInv

\* The reverse list joins its container.
LEMMA SerialRev ==
    ASSUME TypeOK, ControlInv, StoreInv, CountInv', TypeOK', SerialInv, mishaps' = {}, SaveRev
    PROVE  SerialInv'
<1>1. /\ UNCHANGED <<containers, recipes, task, target, origin, added>>
      /\ pc = "rev" /\ pc' = "loop" /\ cindex' = cindex + 1 /\ cbuf' = <<>>
      /\ DOMAIN revs' = DOMAIN revs \cup {cindex} /\ cindex \in Nat
  BY DEF SaveRev, input, tables, Put, TypeOK
<1>2. /\ DOMAIN containers = DOMAIN revs \cup {cindex}
      /\ \A n \in DOMAIN containers : n <= cindex
      /\ cindex + 1 <= 2 * Cardinality(DOMAIN containers) /\ Dense
      /\ DOMAIN containers = Places(Table, Flushed) /\ task # "write_pipeline"
  BY <1>1 DEF SerialInv, NumbersInv
<1>3. Table' = Table BY <1>1 DEF Table
<1>4. Flushed' = Flushed
  <2>1. \A c \in DOMAIN added : added[c].container_number \in Nat
                                /\ added[c].container_number <= cindex
    BY TablesTyped, EntryFields DEF StoreInv, TablesInv
  <2>2. \A c : ~Buffered(c) /\ ~(Buffered(c)') BY <1>1, <2>1 DEF Buffered
  <2> QED BY <1>3, <2>2 DEF Flushed
<1>5. RecipesNum' = RecipesNum /\ RecipesNum \in Nat BY <1>1, NumbersTyped DEF RecipesNum
<1>6. NumbersInv'
  <2>1. DOMAIN containers' = Places(Table, Flushed)' BY <1>1, <1>2, <1>3, <1>4 DEF Places
  <2>2. \A n \in DOMAIN containers' : n < cindex'
    <3>1. \A n \in DOMAIN containers : n \in Int BY <1>1, <1>2 DEF TypeOK
    <3> QED BY <1>1, <1>2, <3>1
  <2> QED BY <1>1, <1>2, <1>5, <2>1, <2>2 DEF NumbersInv, Dense
<1>7. PrefixInv'
  <2>1. \A k \in Nat : Settled(k)' => Settled(k) /\ Mentioned(k)' = Mentioned(k)
    BY <1>1 DEF Settled, Mentioned
  <2> QED BY <2>1, <1>3, <1>5, PrefixStays, SettledAreIndexedNext DEF SerialInv
<1>8. CellsInv'
  <2>1. Holds(cbuf', cindex', added')
    <3>1. DOMAIN cbuf' = {} BY <1>1
    <3> QED BY <3>1 DEF Holds
  <2>2. \A n \in DOMAIN containers : containers[n] # <<>> /\ Holds(containers[n], n, Table)
    BY DEF SerialInv, CellsInv
  <2> HIDE DEF Holds
  <2> QED BY <1>1, <1>3, <2>1, <2>2 DEF CellsInv
<1> QED BY <1>6, <1>7, <1>8 DEF SerialInv

\* The new version completes the prefix: all the containers there are.
LEMMA SerialRecipe ==
    ASSUME TypeOK, ControlInv, StoreInv, CountInv', TypeOK', SerialInv, mishaps' = {}, SaveRecipe
    PROVE  SerialInv'
<1>0. PICK m \in Nat : m = RecipesNum BY NumbersTyped
<1>1. /\ UNCHANGED <<containers, revs, task, origin, added>>
      /\ pc = "loop" /\ pc' = "trunc" /\ ~FlushDue /\ todo = <<>>
      /\ DOMAIN recipes' = DOMAIN recipes \cup {m}
      /\ \A v \in DOMAIN recipes : v # m => (recipes')[v] = recipes[v]
      /\ task # "delete"
  BY <1>0 DEF SaveRecipe, tables, Put, ControlInv, WriteTasks
<1>2. /\ DOMAIN recipes = 0..(m - 1)
      /\ \A n \in DOMAIN containers : n < cindex
      /\ cindex <= 2 * Cardinality(DOMAIN containers)
      /\ DOMAIN containers = Places(Table, Flushed) /\ task # "write_pipeline"
      /\ DOMAIN containers = DOMAIN revs
  BY <1>0, <1>1 DEF SerialInv, NumbersInv, Dense
<1>3. Table' = Table BY <1>1 DEF Table
<1>4. Flushed = DOMAIN Table /\ Flushed' = DOMAIN Table
  <2>1. \A c \in DOMAIN Table : ~Buffered(c) BY <1>1, NothingBuffered DEF FlushDue
  <2>2. \A c : ~(Buffered(c)') BY <1>1 DEF Buffered
  <2> QED BY <1>3, <2>1, <2>2 DEF Flushed
<1>5. RecipesNum' = m + 1 /\ DOMAIN recipes' = 0..m
  <2>1. m \notin DOMAIN recipes BY <1>2
  <2>2. DOMAIN recipes' = 0..m BY <1>1, <1>2
  <2>3. IsFiniteSet(DOMAIN recipes) BY DEF TypeOK
  <2>4. Cardinality(DOMAIN recipes \cup {m}) = Cardinality(DOMAIN recipes) + 1
    BY <2>1, <2>3, FS_AddElement
  <2> QED BY <1>0, <1>1, <2>2, <2>4 DEF RecipesNum
<1>6. NumbersInv'
  <2>1. DOMAIN containers' = Places(Table, Flushed)' BY <1>1, <1>2, <1>3, <1>4 DEF Places
  <2> QED BY <1>1, <1>2, <2>1 DEF NumbersInv
<1>7. PrefixInv'
  <2> SUFFICES ASSUME NEW k \in 0..(m + 1), Settled(k)'
               PROVE  \A n \in Places(Table', Mentioned(k)') :
                        n < 2 * Cardinality(Places(Table', Mentioned(k)'))
    BY <1>5 DEF PrefixInv, Places
  <2>1. CASE k = m + 1
    <3>1. Dense' BY <1>5 DEF Dense
    <3>2. Mentioned(RecipesNum)' = DOMAIN Table'
      BY <1>1, <3>1, SettledAreIndexedNext DEF SettledIndexed
    <3>3. Mentioned(k)' = DOMAIN Table' BY <1>5, <2>1, <3>2 DEF Mentioned
    <3>4. Places(Table', Mentioned(k)') = DOMAIN containers
      BY <1>2, <1>3, <1>4, <3>3
    <3>5. /\ Cardinality(DOMAIN containers) \in Nat /\ cindex \in Nat
          /\ DOMAIN containers \subseteq Nat
      BY FS_CardinalityType DEF TypeOK
    <3> HIDE DEF Places, Mentioned
    <3> QED BY <1>2, <3>4, <3>5
  <2>2. CASE k # m + 1
    <3>1. k \in 0..m /\ 0..(k - 1) \subseteq 0..(m - 1) BY <2>2
    <3>2. Settled(k) BY <1>1, <1>2, <3>1 DEF Settled
    <3>3. Mentioned(k)' = Mentioned(k)
      <4>1. \A v \in 0..(k - 1) : (recipes')[v] = recipes[v] BY <1>1, <1>2, <3>1
      <4> QED BY <4>1 DEF Mentioned
    <3>4. k \in 0..RecipesNum BY <1>0, <3>1
    <3> QED BY <1>3, <3>2, <3>3, <3>4 DEF SerialInv, PrefixInv
  <2> QED BY <2>1, <2>2
<1>8. CellsInv' BY <1>1, <1>3 DEF SerialInv, CellsInv, Holds
<1> QED BY <1>6, <1>7, <1>8 DEF SerialInv

\* The index goes to disk and the process ends; or the recipe is unlinked.
LEMMA SerialEnd ==
    ASSUME TypeOK, ControlInv, CountInv, CountInv', TypeOK', SerialInv, mishaps' = {},
           TruncIndex \/ SaveIndex \/ Unlink
    PROVE  SerialInv'
<1>1. /\ UNCHANGED <<containers, revs>> /\ pc \in {"trunc", "save", "del"}
      /\ pc' \in {"save", "idle", "trunc"} /\ task' \in {task, "none"}
      /\ pc' = "idle" => cbuf' = <<>>
  BY DEF TruncIndex, SaveIndex, Unlink, input, Exit
<1>2. Table' = Table
  BY DEF Table, TruncIndex, SaveIndex, Unlink, tables, Exit
<1>3. Flushed' = Flushed BY <1>1, <1>2 DEF Flushed, Buffered
<1>4. NumbersInv'
  <2>1. DOMAIN containers' = Places(Table, Flushed)'
    BY <1>1, <1>2, <1>3 DEF SerialInv, NumbersInv, Places
  <2> QED BY <1>1, <2>1 DEF SerialInv, NumbersInv
<1>5. /\ DOMAIN recipes' \subseteq DOMAIN recipes
      /\ \A v \in DOMAIN recipes' : (recipes')[v] = recipes[v]
      /\ task = "delete" => RecipeFile(target) \notin DOMAIN recipes'
      \/ UNCHANGED <<recipes, task, target>>
  <2>1. CASE TruncIndex BY <2>1 DEF TruncIndex, input
  <2>2. CASE SaveIndex
    <3>1. pc = "save" /\ recipes' = recipes BY <2>2 DEF SaveIndex
    <3> QED BY <3>1 DEF CountInv
  <2>3. CASE Unlink BY <2>3 DEF Unlink, Drop, Restrict
  <2> QED BY <2>1, <2>2, <2>3
<1>6. \A k \in Nat : Settled(k)' => Settled(k) /\ Mentioned(k)' = Mentioned(k)
  <2> SUFFICES ASSUME NEW k \in Nat, Settled(k)'
               PROVE  Settled(k) /\ Mentioned(k)' = Mentioned(k)
    OBVIOUS
  <2>1. 0..(k - 1) \subseteq DOMAIN recipes' BY DEF Settled
  <2>2. CASE UNCHANGED <<recipes, task, target>> BY <2>2 DEF Settled, Mentioned
  <2>3. CASE ~(UNCHANGED <<recipes, task, target>>)
    <3>1. \A v \in 0..(k - 1) : v \in DOMAIN recipes /\ (recipes')[v] = recipes[v]
      BY <1>5, <2>1, <2>3
    <3>2. Settled(k) BY <1>5, <2>1, <2>3, <3>1 DEF Settled
    <3>3. Mentioned(k)' = Mentioned(k) BY <3>1 DEF Mentioned
    <3> QED BY <3>2, <3>3
  <2> QED BY <2>2, <2>3
<1>7. RecipesNum' \in 0..RecipesNum
  <2>1. DOMAIN recipes' \in SUBSET DOMAIN recipes BY <1>5
  <2>2. IsFiniteSet(DOMAIN recipes) BY DEF TypeOK
  <2>3. /\ Cardinality(DOMAIN recipes') <= Cardinality(DOMAIN recipes)
        /\ Cardinality(DOMAIN recipes') \in Nat /\ Cardinality(DOMAIN recipes) \in Nat
    BY <2>1, <2>2, FS_Subset, FS_CardinalityType
  <2> QED BY <2>3 DEF RecipesNum
<1>8. PrefixInv' BY <1>2, <1>6, <1>7, PrefixStays, SettledAreIndexedNext DEF SerialInv
<1>9. CellsInv'
  <2>1. pc' # "loop" BY <1>1
  <2> QED BY <1>1, <1>2, <2>1 DEF SerialInv, CellsInv, Holds
<1> QED BY <1>4, <1>8, <1>9 DEF SerialInv

-------------------------------------------------------------------------------
(***************************************************************************)
(* The invariant of such a store: the cut, and all steps.                  *)
(***************************************************************************)
LEMMA ShiftBack ==
    ASSUME NEW p \in Nat, NEW k \in Nat, NEW len \in Nat, NEW i \in Int, NEW o,
           p + k = i + len, o = p - len
    PROVE  o + k = i
OBVIOUS

\* The cut leaves the cells of the other chunks, where the shifted entries
\* look for them.
LEMMA CutCells ==
    ASSUME NEW file \in Seq(Cell), NEW n, NEW t, TableType(t), NEW u, Holds(file, n, t),
           NEW c \in DOMAIN t,
           \A x \in DOMAIN t : t[x].container_number = n => StoredAt(file, t[x], x),
           t[c].container_number = n,
           DOMAIN u = DOMAIN t \ {c},
           \A x \in DOMAIN u :
             /\ u[x].container_number = t[x].container_number
             /\ u[x].offset =
                  IF t[x].container_number = n /\ t[x].offset > t[c].offset
                  THEN t[x].offset - t[c].chunk_length ELSE t[x].offset
    PROVE  Holds(del_seg(file, t[c].offset, t[c].chunk_length), n, u)
<1>1. PICK oft \in Nat : oft = t[c].offset BY EntryFields
<1>2. PICK len \in Nat \ {0} : len = t[c].chunk_length /\ len = ChunkLen[c]
  BY EntryFields, ChunkAssumption DEF StoredAt
<1>3. c \in Chunk /\ t[c] \in EntryType /\ StoredAt(file, t[c], c) BY EntryFields
<1>4. PICK new : new = del_seg(file, oft, len) OBVIOUS
<1>5. Len(file) \in Nat /\ oft + len <= Len(file) /\ DOMAIN file = 1..Len(file)
  BY <1>1, <1>2, <1>3, FunctionOfSeq DEF StoredAt
<1>6. oft + Rest(file, oft, len) = Len(file) - len BY <1>1, <1>2, <1>5 DEF Rest
<1>7. /\ DOMAIN new = 1..(Len(file) - len)
      /\ \A i \in 1..(Len(file) - len) : new[i] = IF i <= oft THEN file[i] ELSE file[i + len]
  <2>1. \A i \in 1..(Len(file) - len) : i <= oft => i <= Len(file) BY <1>1, <1>5
  <2> QED BY <1>4, <1>6, <2>1 DEF del_seg
<1> SUFFICES ASSUME NEW i \in 1..(Len(file) - len)
             PROVE  LET x == new[i][1]
                    IN  /\ x \in DOMAIN u /\ u[x].container_number = n
                        /\ new[i][2] \in 1..ChunkLen[x] /\ u[x].offset + new[i][2] = i
  BY <1>1, <1>2, <1>4, <1>7 DEF Holds
<1>8. PICK j \in 1..Len(file) : j = IF i <= oft THEN i ELSE i + len
  BY <1>1, <1>2, <1>5
<1>9. new[i] = file[j] BY <1>7, <1>8
<1>10. PICK x \in DOMAIN t, k \in Nat :
         /\ x = file[j][1] /\ k = file[j][2] /\ t[x].container_number = n
         /\ k \in 1..ChunkLen[x] /\ t[x].offset + k = j
  <2>1. file[j][1] \in DOMAIN t /\ file[j][2] \in 1..ChunkLen[file[j][1]]
    BY <1>5, <1>8 DEF Holds
  <2>2. file[j] \in Cell BY <1>8, <1>5
  <2>3. file[j][2] \in Nat BY <2>2 DEF Cell
  <2> QED BY <1>5, <1>8, <2>1, <2>3 DEF Holds
<1>11. /\ x \in Chunk /\ t[x] \in EntryType /\ StoredAt(file, t[x], x)
       /\ t[x].offset \in Nat /\ ChunkLen[x] \in Nat
  BY <1>10, EntryFields, ChunkAssumption
<1>12. x # c
  <2> SUFFICES ASSUME x = c PROVE FALSE
    OBVIOUS
  <2>1. t[x].offset = oft /\ ChunkLen[x] = len BY <1>1, <1>2
  <2>2. oft + k = j /\ k \in 1..len BY <1>10, <2>1
  <2>3. j > oft /\ j <= oft + len BY <1>1, <1>2, <2>2
  <2> QED BY <1>2, <1>8, <2>3
<1>13. \/ t[x].offset + ChunkLen[x] <= oft
       \/ oft + len <= t[x].offset
  BY <1>1, <1>2, <1>3, <1>11, <1>12, Disjoint
<1>14. x \in DOMAIN u /\ u[x].container_number = n
       /\ u[x].offset = IF t[x].offset > oft THEN t[x].offset - len ELSE t[x].offset
  BY <1>1, <1>2, <1>10, <1>12
<1>15. u[x].offset + k = i
  <2> PICK p \in Nat : p = t[x].offset BY <1>11
  <2> PICK q \in Nat : q = ChunkLen[x] BY <1>11
  <2>0. i \in Int /\ j \in Int BY <1>2, <1>5
  <2>3. p + k = j /\ k <= q /\ 1 <= k BY <1>10
  <2>1. CASE i <= oft
    <3>1. j = i /\ t[x].offset < j BY <1>8, <1>10, <1>11, <2>1
    <3>2. ~(t[x].offset > oft) BY <1>1, <1>11, <2>1, <3>1
    <3> QED BY <1>10, <1>14, <3>1, <3>2
  <2>2. CASE ~(i <= oft)
    <3>1. j = i + len BY <1>8, <2>2
    <3>2. j > oft BY <2>2, <3>1
    <3>3. ~(p + q <= oft) BY <2>0, <2>3, <3>2
    <3>4. oft + len <= p BY <1>13, <3>3
    <3>5. u[x].offset = p - len BY <1>14, <3>4
    <3>6. p + k = i + len BY <2>3, <3>1
    <3> QED BY <2>0, <3>5, <3>6, ShiftBack
  <2> QED BY <2>1, <2>2
<1> QED BY <1>9, <1>10, <1>14, <1>15

\* The cut removes the file when it takes the only chunk.
LEMMA CutLast ==
    ASSUME NEW file \in Seq(Cell), file # <<>>, NEW n, NEW t, TableType(t), Holds(file, n, t),
           NEW c \in DOMAIN t, StoredAt(file, t[c], c),
           \A x \in DOMAIN t : t[x].container_number = n => x = c
    PROVE  CutRemovesFile(file, t[c].offset, t[c].chunk_length)
<1>1. PICK oft \in Nat : oft = t[c].offset BY EntryFields
<1>2. PICK len \in Nat \ {0} : len = t[c].chunk_length /\ len = ChunkLen[c]
  BY EntryFields, ChunkAssumption DEF StoredAt
<1>3. Len(file) \in Nat \ {0} /\ DOMAIN file = 1..Len(file)
  BY FunctionOfSeq
<1>4. ASSUME NEW i \in 1..Len(file) PROVE i > oft /\ i <= oft + len
  <2>1. file[i][1] = c /\ file[i][2] \in 1..len /\ oft + file[i][2] = i
    BY <1>1, <1>2, <1>3 DEF Holds
  <2> QED BY <2>1
<1>5. 1 > oft /\ Len(file) <= oft + len
  <2>1. 1 \in 1..Len(file) /\ Len(file) \in 1..Len(file) BY <1>3
  <2> QED BY <2>1, <1>4
<1>6. oft = 0 /\ ~(Len(file) > oft + len) BY <1>1, <1>2, <1>3, <1>5
<1> QED BY <1>1, <1>2, <1>6 DEF CutRemovesFile, Rest

\* The last reference goes, and with the last chunk the container and its list.
LEMMA SerialDeleteChunk ==
    ASSUME TypeOK, TypeOK', ControlInv, StoreInv, CountInv', SerialInv, mishaps' = {}, DeleteChunk
    PROVE  SerialInv'
<1>1. PICK c \in DOMAIN origin, e \in EntryType, n \in Nat : DeleteEffect(c, e, n)
  BY DeleteChunkEffect
<1>2. /\ c \in Chunk /\ e.offset \in Nat /\ e.chunk_length \in Nat /\ TableType(origin)
      /\ e = origin[c] /\ n = e.container_number
      /\ DOMAIN origin' = DOMAIN origin \ {c} /\ Table = origin /\ Table' = origin'
      /\ n \in DOMAIN containers /\ containers[n] \in Seq(Cell)
      /\ n \in DOMAIN revs /\ revs[n] \in Seq(Chunk) /\ IsInjective(revs[n])
      /\ Range(revs[n]) = Placed(origin, n)
  BY <1>1, TablesTyped, EntryFields DEF DeleteEffect
<1>3. \A x \in DOMAIN origin :
         origin[x].container_number = n => StoredAt(containers[n], origin[x], x)
  BY <1>1 DEF DeleteEffect, OnDisk
<1>4. /\ UNCHANGED <<task, pc, cindex, cbuf, recipes, target>> /\ pc = "del"
  BY <1>1 DEF DeleteEffect, DeleteChunk
<1>5. Flushed = DOMAIN origin /\ Flushed' = DOMAIN origin'
  BY <1>2, <1>4 DEF Flushed, Buffered
<1>6. \A x \in DOMAIN origin' :
         /\ (origin')[x].container_number = origin[x].container_number
         /\ (origin')[x].chunk_length = origin[x].chunk_length
         /\ (origin')[x].offset =
              IF origin[x].container_number = n /\ origin[x].offset > e.offset
              THEN origin[x].offset - e.chunk_length ELSE origin[x].offset
  BY <1>1 DEF DeleteEffect
<1>7. PICK gone \in BOOLEAN : gone = CutRemovesFile(containers[n], e.offset, e.chunk_length)
  BY DEF CutRemovesFile
<1>8. containers' = IF gone THEN Drop(containers, n)
                    ELSE Put(containers, n, del_seg(containers[n], e.offset, e.chunk_length))
  BY <1>1, <1>7 DEF DeleteEffect
<1>9. \/ Len(revs[n]) = 1 /\ revs' = Drop(revs, n)
      \/ Len(revs[n]) > 1 /\ revs' = Put(revs, n, del_seg(revs[n], d_pos(n, c), 1))
  BY <1>1 DEF DeleteEffect
<1>10. containers[n] # <<>> /\ Holds(containers[n], n, origin)
  BY <1>2 DEF SerialInv, CellsInv
\* The file goes exactly when the chunk was alone in it.
<1>11. ASSUME NEW x \in DOMAIN origin', (origin')[x].container_number = n PROVE ~gone
  <2>1. x \in DOMAIN origin /\ x # c /\ x \in Chunk /\ origin[x].container_number = n
    BY <1>2, <1>6, <1>11, EntryFields
  <2>2. origin[x] \in EntryType /\ (origin')[x] \in EntryType
    BY <2>1, <1>2, <1>11, EntryFields DEF TypeOK
  <2>3. StoredAt(containers[n], origin[x], x) /\ StoredAt(containers[n], e, c)
    BY <1>2, <1>3, <2>1
  <2>4. /\ (origin')[x].chunk_length = origin[x].chunk_length
        /\ (origin')[x].offset = IF origin[x].offset > e.offset
                                 THEN origin[x].offset - e.chunk_length ELSE origin[x].offset
    BY <1>6, <1>11, <2>1
  <2> QED BY <1>2, <1>7, <2>1, <2>2, <2>3, <2>4, CutKeepsOthers
<1>12. ASSUME \A x \in DOMAIN origin' : (origin')[x].container_number # n PROVE gone
  <2>1. \A x \in DOMAIN origin : origin[x].container_number = n => x = c
    BY <1>2, <1>6, <1>12
  <2>2. StoredAt(containers[n], origin[c], c) BY <1>2, <1>3
  <2> QED BY <1>2, <1>7, <1>10, <2>1, <2>2, CutLast
<1>13. gone <=> Len(revs[n]) = 1
  <2>1. ASSUME Len(revs[n]) = 1, NEW x \in DOMAIN origin', (origin')[x].container_number = n
        PROVE  FALSE
    <3>1. x \in Range(revs[n]) /\ c \in Range(revs[n]) /\ x # c
      BY <1>2, <1>6, <2>1 DEF Placed
    <3>2. DOMAIN revs[n] = 1..1 BY <2>1, <1>2, FunctionOfSeq
    <3> QED BY <3>1, <3>2 DEF Range
  <2>2. ASSUME Len(revs[n]) > 1 PROVE ~gone
    <3>1. 1 \in DOMAIN revs[n] /\ 2 \in DOMAIN revs[n] BY <2>2, <1>2, FunctionOfSeq
    <3>2. revs[n][1] # revs[n][2] BY <1>2, <3>1 DEF IsInjective
    <3>3. PICK x \in Range(revs[n]) : x # c BY <3>1, <3>2 DEF Range
    <3>4. x \in DOMAIN origin' /\ (origin')[x].container_number = n
      BY <1>2, <1>6, <3>3 DEF Placed
    <3> QED BY <3>4, <1>11
  <2>3. Len(revs[n]) \in Nat BY <1>2
  <2> QED BY <1>9, <1>12, <2>1, <2>2, <2>3
<1>14. /\ DOMAIN containers' = DOMAIN containers \ (IF gone THEN {n} ELSE {})
       /\ DOMAIN revs' = DOMAIN revs \ (IF gone THEN {n} ELSE {})
  <2>1. DOMAIN containers' = DOMAIN containers \ (IF gone THEN {n} ELSE {})
    BY <1>2, <1>8 DEF Put, Drop, Restrict
  <2>2. CASE gone
    <3>0. Len(revs[n]) = 1 BY <1>13, <2>2
    <3>1. revs' = Drop(revs, n) BY <1>9, <3>0
    <3>2. DOMAIN revs' = DOMAIN revs \ {n} BY <3>1 DEF Drop, Restrict
    <3> QED BY <2>1, <2>2, <3>2
  <2>3. CASE ~gone
    <3>1. DOMAIN revs' = DOMAIN revs BY <1>2, <1>9, <1>13, <2>3 DEF Put
    <3> QED BY <2>1, <2>3, <3>1
  <2> QED BY <2>2, <2>3
<1>15. /\ DOMAIN containers = Places(origin, DOMAIN origin) /\ DOMAIN revs = DOMAIN containers
       /\ task # "write_pipeline"
  BY <1>2, <1>4, <1>5 DEF SerialInv, NumbersInv
<1>16. DOMAIN containers' = Places(origin', DOMAIN origin')
  <2>1. ASSUME NEW m \in DOMAIN containers' PROVE m \in Places(origin', DOMAIN origin')
    <3>1. PICK x \in DOMAIN origin : origin[x].container_number = m
      BY <1>14, <1>15 DEF Places
    <3>2. CASE m # n
      <4>1. x \in DOMAIN origin' BY <1>2, <3>1, <3>2
      <4> QED BY <1>6, <3>1, <4>1 DEF Places
    <3>3. CASE m = n
      <4>1. ~gone BY <1>14, <3>3
      <4>2. PICK y \in DOMAIN origin' : (origin')[y].container_number = n BY <1>12, <4>1
      <4> QED BY <3>3, <4>2 DEF Places
    <3> QED BY <3>2, <3>3
  <2>2. ASSUME NEW x \in DOMAIN origin' PROVE (origin')[x].container_number \in DOMAIN containers'
    <3>1. x \in DOMAIN origin /\ (origin')[x].container_number = origin[x].container_number
      BY <1>2, <1>6
    <3>2. (origin')[x].container_number \in DOMAIN containers BY <1>15, <3>1 DEF Places
    <3> QED BY <1>11, <1>14, <3>2
  <2> QED BY <2>1, <2>2 DEF Places
<1>17. NumbersInv'
  <2>1. DOMAIN containers' = Places(Table, Flushed)' BY <1>2, <1>5, <1>16 DEF Places
  <2> QED BY <1>4, <1>14, <1>15, <2>1 DEF NumbersInv
<1>18. PrefixInv'
  <2>1. \A k \in Nat : Settled(k)' => Settled(k) /\ Mentioned(k)' = Mentioned(k)
    BY <1>4 DEF Settled, Mentioned
  <2>2. RecipesNum' = RecipesNum /\ RecipesNum \in Nat BY <1>4, NumbersTyped DEF RecipesNum
  <2>3. RecipesNum' \in 0..RecipesNum BY <2>2
  <2>4. \A x \in DOMAIN Table' : x \in DOMAIN Table
                                 /\ (Table')[x].container_number = Table[x].container_number
    BY <1>2, <1>6
  <2> QED BY <2>1, <2>3, <2>4, PrefixStays, SettledAreIndexedNext DEF SerialInv
<1>19. ASSUME NEW m \in DOMAIN containers'
       PROVE  (containers')[m] # <<>> /\ Holds((containers')[m], m, origin')
  <2>1. CASE m # n
    <3>1. m \in DOMAIN containers /\ (containers')[m] = containers[m]
      BY <1>8, <1>14, <2>1 DEF Put, Drop, Restrict
    <3>2. containers[m] # <<>> /\ Holds(containers[m], m, origin)
      BY <1>2, <3>1 DEF SerialInv, CellsInv
    <3>3. \A x \in DOMAIN origin : origin[x].container_number = m =>
            x \in DOMAIN origin' /\ (origin')[x].container_number = m
            /\ (origin')[x].offset = origin[x].offset
      BY <1>2, <1>6, <2>1
    <3>4. Holds(containers[m], m, origin') BY <3>2, <3>3 DEF Holds
    <3> QED BY <3>1, <3>2, <3>4
  <2>2. CASE m = n
    <3>1. ~gone /\ (containers')[m] = del_seg(containers[n], e.offset, e.chunk_length)
      BY <1>2, <1>8, <1>14, <2>2 DEF Put
    <3>2. Holds(del_seg(containers[n], e.offset, e.chunk_length), n, origin')
      BY <1>2, <1>3, <1>6, <1>10, CutCells
    <3>3. del_seg(containers[n], e.offset, e.chunk_length) # <<>>
      <4>1. Rest(containers[n], e.offset, e.chunk_length) \in Nat
        <5>1. Len(containers[n]) \in Nat BY <1>2
        <5> QED BY <1>2, <5>1 DEF Rest
      <4>2. 1 \in 1..(e.offset + Rest(containers[n], e.offset, e.chunk_length))
        <5>1. PICK r \in Nat : r = Rest(containers[n], e.offset, e.chunk_length)
          BY <4>1
        <5>2. ~(e.offset = 0 /\ r = 0) BY <1>7, <3>1, <5>1 DEF CutRemovesFile
        <5>3. 1 \in 1..(e.offset + r) BY <1>2, <5>2
        <5> QED BY <5>1, <5>3
      <4>3. 1 \in DOMAIN del_seg(containers[n], e.offset, e.chunk_length)
        BY <4>2 DEF del_seg
      <4> QED BY <4>3
    <3> QED BY <2>2, <3>1, <3>2, <3>3
  <2> QED BY <2>1, <2>2
<1>20. CellsInv'
  <2> HIDE DEF Holds
  <2> QED BY <1>2, <1>4, <1>19 DEF CellsInv
<1> QED BY <1>17, <1>18, <1>20 DEF SerialInv

LEMMA SerialInit == Init => SerialInv
<1> SUFFICES ASSUME Init PROVE SerialInv
  OBVIOUS
<1>1. /\ DOMAIN recipes = {} /\ DOMAIN containers = {} /\ DOMAIN revs = {}
      /\ pc = "idle" /\ task = "none" /\ mishaps = {} /\ cbuf = <<>>
      /\ Table = EmptyTable
  BY DEF Init, EmptyFile, Table
<1>2. DOMAIN Table = {} BY <1>1, EmptyTableType
<1>3. Places(Table, Flushed) = {} BY <1>2 DEF Flushed, Places
<1>4. NumbersInv BY <1>1, <1>3 DEF NumbersInv
<1>5. PrefixInv
  <2>1. RecipesNum = 0 BY <1>1, FS_EmptySet DEF RecipesNum
  <2>2. \A k \in 0..RecipesNum : Mentioned(k) = {} BY <2>1 DEF Mentioned
  <2> QED BY <2>2 DEF PrefixInv, Places
<1>6. CellsInv BY <1>1 DEF CellsInv
<1> QED BY <1>4, <1>5, <1>6 DEF SerialInv

\* A reference is counted or released: the tables differ in counts only.
LEMMA SerialCounted ==
    ASSUME TypeOK, TypeOK', CountInv', SerialInv, mishaps' = {}, DedupChunk \/ DeleteRef
    PROVE  SerialInv'
<1>1. SamePlaces(origin, origin') /\ SamePlaces(added, added')
  <2>1. SamePlaces(origin, origin) /\ SamePlaces(added, added) BY DEF SamePlaces
  <2>2. CASE DedupChunk
    BY <2>1, <2>2, WithRefCntPlaces, TablesTyped DEF DedupChunk, addRefCnt
  <2>3. CASE DeleteRef
    <3>1. SamePlaces(origin, origin')
      BY <2>3, WithRefCntPlaces, TablesTyped DEF DeleteRef, decRefCnt
    <3> QED BY <2>1, <2>3, <3>1 DEF DeleteRef
  <2> QED BY <2>2, <2>3
<1>2. /\ UNCHANGED <<containers, revs, recipes, pc, task, target, cindex, cbuf>>
      /\ pc # "idle"
  BY DEF DedupChunk, DeleteRef, disk, buffers
<1>3. SamePlaces(Table, Table') BY <1>1, <1>2 DEF SamePlaces, Table, save
<1> QED BY <1>1, <1>2, <1>3, SerialSame

LEMMA SerialNext ==
    ASSUME SerialUse
    PROVE  IInv /\ IInv' /\ CountInv /\ CountInv' /\ SerialInv /\ [Next]_vars => SerialInv'
<1> SUFFICES ASSUME IInv, IInv', CountInv, CountInv', SerialInv, [Next]_vars
             PROVE  SerialInv'
  OBVIOUS
<1>1. TypeOK /\ TypeOK' /\ ControlInv /\ StoreInv BY DEF IInv, SerialInv, NumbersInv
<1>2. mishaps' = {} /\ ~DeleteFatal /\ ~DeleteUndefined /\ ~Crash BY SerialSafe
<1>3. ASSUME NEW kind \in WriteTasks, NEW file \in Files, StartWrite(kind, file)
      PROVE  SerialInv'
  <2>1. kind = "write" /\ Dense BY <1>3 DEF StartWrite, WriteTasks, SerialUse
  <2>2. /\ LoadIndex /\ UNCHANGED <<disk, cbuf>>
        /\ pc' = "loop" /\ task' = "write" /\ cindex' = FilesNum
    BY <1>3, <2>1 DEF StartWrite
  <2> QED BY <1>1, <1>2, <2>1, <2>2, SerialStart
<1>4. ASSUME NEW v \in DOMAIN catalog \cup DOMAIN recipes, StartDelete(v)
      PROVE  SerialInv'
  <2>1. /\ LoadIndex /\ UNCHANGED <<disk, cbuf>> /\ pc' = "del" /\ task' = "delete"
    BY <1>4 DEF StartDelete, buffers
  <2> QED BY <1>1, <1>2, <2>1, SerialStart
<1>5. CASE UNCHANGED vars
  <2>1. UNCHANGED <<containers, revs, recipes, pc, task, target, cindex, cbuf, index, tables>>
    BY <1>5 DEF vars, disk, input, buffers
  <2>2. Table' = Table BY <2>1 DEF Table, tables
  <2>3. SamePlaces(Table, Table') /\ SamePlaces(added, added')
    BY <2>1, <2>2 DEF SamePlaces, tables
  <2> QED BY <1>1, <1>2, <2>1, <2>3, SerialSame
<1> QED
  BY <1>1, <1>2, <1>3, <1>4, <1>5, SerialCounted, SerialUnique, SerialFlush, SerialRev,
     SerialRecipe, SerialEnd, SerialDeleteChunk
  DEF Next

\* Nothing goes wrong, so the promises hold at every step of every task and not
\* only until a mishap.
SerialAll == IInv /\ CountInv /\ SerialInv

LEMMA SerialHolds == ASSUME SerialUse PROVE Spec => []SerialAll
<1> DEFINE J == mishaps = {} => CountInv
<1>1. Init => SerialAll
  BY InvInit, CountInit, SerialInit DEF SerialAll
<1>2. SerialAll /\ [Next]_vars => SerialAll'
  <2> SUFFICES ASSUME SerialAll, [Next]_vars PROVE SerialAll'
    OBVIOUS
  <2>1. IInv /\ CountInv /\ SerialInv /\ IInv' BY InvNext DEF SerialAll
  <2>2. mishaps' = {} BY <2>1, SerialSafe
  <2>3. CountInv' BY <2>1, <2>2, CountNext
  <2> QED BY <2>1, <2>3, SerialNext DEF SerialAll
<1> QED BY <1>1, <1>2, PTL DEF Spec

\* A write does not touch what is on disk, as long as it does not write over a
\* file.
LEMMA ContainersStay ==
    ASSUME TypeOK, ControlInv, [Next]_vars, mishaps' = {}, task \in WriteTasks
    PROVE  Restrict(containers', DOMAIN containers) = containers
<1>1. containers = [n \in DOMAIN containers |-> containers[n]] BY DEF TypeOK
<1>2. CASE SaveContainer
  <2>1. cindex \notin DOMAIN containers BY <1>2 DEF SaveContainer, Note
  <2>2. PICK new : containers' = Put(containers, cindex, new) BY <1>2 DEF SaveContainer
  <2>3. \A n \in DOMAIN containers : (containers')[n] = containers[n] BY <2>1, <2>2 DEF Put
  <2> QED BY <1>1, <2>3 DEF Restrict
<1>3. CASE ~SaveContainer
  <2>1. pc \notin {"idle", "del"} BY DEF ControlInv, WriteTasks
  <2>2. CASE UNCHANGED vars BY <1>1, <2>2 DEF vars, disk, Restrict
  <2>3. CASE Next
    <3>1. containers' = containers
      BY <1>3, <2>1, <2>3 DEF Next, StartWrite, LoadIndex, DedupChunk, UniqueChunk, SaveRev,
         SaveRecipe, StartDelete, DeleteRef, DeleteChunk, DeleteFatal, DeleteUndefined,
         ReleasesLast, Unlink, TruncIndex, SaveIndex, Crash, disk
    <3> QED BY <1>1, <3>1 DEF Restrict
  <2> QED BY <2>2, <2>3
<1> QED BY <1>2, <1>3

\* No step of such a store is a mishap: getFilesNum is always a free container
\* number although containers come and go, no list is missing when
\* container_del_chunk needs it, and no chunk of a recipe is unknown.
THEOREM SerialNoMishap == ASSUME SerialUse PROVE Spec => []NoMishap
<1>1. SerialAll => NoMishap BY DEF SerialAll, SerialInv, NumbersInv, NoMishap
<1> QED BY <1>1, SerialHolds, PTL

\* Reference counts are exact at every step of every task, under the promises of
\* SerialUse: serial writes and deletes, no death, writes only while no version
\* number is free, an index that one read takes in (decRefCnt, addRefCnt).
THEOREM SerialCountsExact == ASSUME SerialUse PROVE Spec => []RefCountsExact
<1>1. SerialAll => RefCountsExact BY CountsAreExact DEF SerialAll, IInv
<1> QED BY <1>1, SerialHolds, PTL

\* Between tasks every cell of every container belongs to a chunk of the index,
\* at its place: what versions leave behind when they are deleted is given back.
THEOREM SerialNoLeak == ASSUME SerialUse PROVE Spec => []NoLeak
<1>1. SerialAll => NoLeak
  <2> SUFFICES ASSUME SerialAll, pc = "idle"
               PROVE  /\ DOMAIN revs = DOMAIN containers
                      /\ \A n \in DOMAIN containers :
                           /\ containers[n] # <<>>
                           /\ Holds(containers[n], n, index)
    BY DEF NoLeak, Holds
  <2>1. Table = index BY DEF Table
  <2> QED BY <2>1 DEF SerialAll, SerialInv, NumbersInv, CellsInv
<1> QED BY <1>1, SerialHolds, PTL

\* A version the user was told is stored stays restorable through every write
\* and every deletion of other versions.
THEOREM SerialRestorable ==
    ASSUME SerialUse, MaxTasks <= VersionMod
    PROVE  Spec => [](VersionsRestorable /\ RecipesFaithful)
<1>1. SerialAll => mishaps = {} BY DEF SerialAll, SerialInv, NumbersInv
<1> QED BY <1>1, SerialHolds, RestorableUntilMishap, PTL

\* A write leaves every container on disk as it is.
THEOREM SerialContainersStay == ASSUME SerialUse PROVE Spec => FlushedContainersStay
<1>1. SerialAll /\ [Next]_vars =>
        [(task \in WriteTasks) => Restrict(containers', DOMAIN containers) = containers]_vars
  <2> SUFFICES ASSUME SerialAll, [Next]_vars, task \in WriteTasks
               PROVE  Restrict(containers', DOMAIN containers) = containers
    OBVIOUS
  <2>1. mishaps' = {} BY SerialSafe DEF SerialAll
  <2> QED BY <2>1, ContainersStay DEF SerialAll, IInv
<1> QED BY <1>1, SerialHolds, PTL DEF Spec, FlushedContainersStay

-------------------------------------------------------------------------------
(***************************************************************************)
(* The store implements VersionStore, as long as nothing goes wrong.  The  *)
(* history of the tasks and the recipes on disk agree, and what a write    *)
(* has listed and what it has still to read are the file it was given.     *)
(***************************************************************************)
Recorded == task \in WriteTasks /\ pc \in {"trunc", "save"}

HistoryInv ==
    /\ DOMAIN recipes \subseteq DOMAIN catalog \cup (IF Recorded THEN {target} ELSE {})
    /\ task = "delete" => target \in DOMAIN catalog
    /\ Recorded => target \notin DOMAIN catalog /\ todo = <<>>
    /\ task \in WriteTasks => recipe \o todo \in Files

LEMMA HistoryInit == Init => HistoryInv
BY DEF Init, EmptyFile, HistoryInv, WriteTasks, Recorded

\* Version numbers are not cut to uint8_t.
LEMMA RecipeFileOf ==
    ASSUME MaxTasks <= VersionMod, TypeOK, CatalogInv, NEW v \in Nat, v < ntasks
    PROVE  RecipeFile(v) = v
<1>1. ntasks \in Nat /\ MaxTasks \in Nat /\ VersionMod \in Nat \ {0}
  BY StoreAssumption DEF TypeOK
<1>2. v \in 0..(VersionMod - 1) BY <1>1 DEF CatalogInv
<1> QED BY <1>1, <1>2 DEF RecipeFile

\* A task begins.
LEMMA HistoryStart ==
    ASSUME MaxTasks <= VersionMod, TypeOK, ControlInv, CountInv, CatalogInv, HistoryInv,
           \/ \E kind \in WriteTasks, file \in Files : StartWrite(kind, file)
           \/ \E v \in DOMAIN catalog \cup DOMAIN recipes : StartDelete(v)
    PROVE  HistoryInv'
<1>1. LoadIndex /\ UNCHANGED <<recipes, catalog, recipe>>
  BY DEF StartWrite, StartDelete, disk
<1>2. pc = "idle" /\ task = "none" /\ recipe = <<>> /\ ~Recorded
  BY <1>1 DEF LoadIndex, ControlInv, CountInv, Recorded
<1>3. DOMAIN recipes \subseteq DOMAIN catalog BY <1>2 DEF HistoryInv
<1>4. ASSUME NEW kind \in WriteTasks, NEW file \in Files, StartWrite(kind, file)
      PROVE  HistoryInv'
  <2>1. pc' = "loop" /\ task' = kind /\ task' # "delete" /\ todo' = file
    BY <1>4 DEF StartWrite, WriteTasks
  <2>2. file \in Seq(Chunk) BY StoreAssumption
  <2>3. <<>> \o file = file BY <2>2
  <2> QED BY <1>1, <1>2, <1>3, <1>4, <2>1, <2>3 DEF HistoryInv, Recorded
<1>5. ASSUME NEW v \in DOMAIN catalog \cup DOMAIN recipes, StartDelete(v)
      PROVE  HistoryInv'
  <2>1. /\ pc' = "del" /\ task' = "delete" /\ target' = v /\ RecipeFile(v) \in DOMAIN recipes
        /\ task' \notin WriteTasks
    BY <1>5 DEF StartDelete, WriteTasks
  <2>2. v \in Nat /\ v < ntasks BY DEF TypeOK, CatalogInv
  <2>3. RecipeFile(v) = v BY <2>2, RecipeFileOf
  <2> QED BY <1>1, <1>3, <2>1, <2>3 DEF HistoryInv, Recorded
<1> QED BY <1>4, <1>5

\* The next chunk goes from the file to the recipe.
LEMMA HeadMoves ==
    ASSUME NEW r \in Seq(Chunk), NEW t \in Seq(Chunk), t # <<>>
    PROVE  Append(r, Head(t)) \o Tail(t) = r \o t
OBVIOUS

\* The file is read chunk by chunk.
LEMMA HistoryLoop ==
    ASSUME TypeOK, HistoryInv, DedupChunk \/ UniqueChunk
    PROVE  HistoryInv'
<1>1. /\ UNCHANGED <<recipes, pc, task, target, catalog>> /\ todo # <<>>
      /\ recipe' = Append(recipe, Head(todo)) /\ todo' = Tail(todo)
  BY DEF DedupChunk, UniqueChunk, disk
<1>2. recipe \in Seq(Chunk) /\ todo \in Seq(Chunk) BY DEF TypeOK
<1>3. recipe' \o todo' = recipe \o todo BY <1>1, <1>2, HeadMoves
<1> QED BY <1>1, <1>3 DEF HistoryInv, Recorded

\* A recipe is written under a number that was free.
LEMMA HistorySaveRecipe ==
    ASSUME TypeOK, ControlInv, CountInv, CatalogInv, HistoryInv, SaveRecipe, mishaps' = {}
    PROVE  HistoryInv'
<1> DEFINE n == RecipesNum
<1>1. /\ UNCHANGED <<task, todo, recipe, catalog>> /\ pc = "loop" /\ pc' = "trunc"
      /\ todo = <<>> /\ target' = n /\ DOMAIN recipes' = DOMAIN recipes \cup {n}
      /\ n \notin DOMAIN recipes /\ task \in WriteTasks
  BY DEF SaveRecipe, Put, Note, ControlInv
<1>2. n \notin DOMAIN catalog
  <2>1. task # "delete" BY <1>1 DEF WriteTasks
  <2> QED BY <1>1, <2>1 DEF CatalogInv, Listing
<1>3. DOMAIN recipes \subseteq DOMAIN catalog BY <1>1 DEF HistoryInv, Recorded
<1> QED BY <1>1, <1>2, <1>3 DEF HistoryInv, Recorded, WriteTasks

\* The other steps before the end of a task.
LEMMA HistorySame ==
    ASSUME TypeOK, ControlInv, HistoryInv,
           \/ SaveContainer \/ SaveRev \/ TruncIndex \/ DeleteRef \/ DeleteChunk \/ Unlink
    PROVE  HistoryInv'
<1>1. /\ UNCHANGED <<task, target, catalog, recipe>>
      /\ DOMAIN recipes' \subseteq DOMAIN recipes
  BY DEF SaveContainer, SaveRev, TruncIndex, DeleteRef, DeleteChunk, Unlink, input, disk,
         Drop, Restrict
<1>2. (Recorded)' <=> Recorded
  BY DEF SaveContainer, SaveRev, TruncIndex, DeleteRef, DeleteChunk, ReleasesLast, Unlink,
         input, disk, Recorded, ControlInv, WriteTasks
<1>3. task \in WriteTasks => todo' = todo
  BY DEF SaveContainer, SaveRev, TruncIndex, DeleteRef, DeleteChunk, ReleasesLast, Unlink,
         input, ControlInv, WriteTasks
<1>4. Recorded => todo' = todo BY <1>3 DEF Recorded
<1> QED BY <1>1, <1>2, <1>3, <1>4 DEF HistoryInv

\* A process ends.
LEMMA HistoryExit ==
    ASSUME MaxTasks <= VersionMod, TypeOK, ControlInv, CountInv, CatalogInv, HistoryInv,
           mishaps' = {}, SaveIndex \/ Crash
    PROVE  HistoryInv'
<1>1. /\ pc' = "idle" /\ task' = "none" /\ recipes' = recipes
      /\ (task' \in WriteTasks) = FALSE
  BY DEF SaveIndex, Crash, Exit, WriteTasks
<1>2. DOMAIN recipes \subseteq DOMAIN catalog'
  <2>1. CASE Crash
    <3>1. task # "delete" /\ pc \notin {"trunc", "save"} BY <2>1 DEF Crash, Note
    <3>2. catalog' = catalog BY <2>1, <3>1 DEF Crash
    <3> QED BY <3>1, <3>2 DEF HistoryInv, Recorded
  <2>2. CASE SaveIndex /\ task = "delete"
    <3>1. catalog' = Drop(catalog, target) /\ pc = "save" BY <2>2 DEF SaveIndex
    <3>2. target \in Nat /\ target < ntasks BY <2>2 DEF CatalogInv, TypeOK
    <3>3. RecipeFile(target) = target BY <3>2, RecipeFileOf
    <3>4. target \notin DOMAIN recipes BY <2>2, <3>1, <3>3 DEF CountInv
    <3> QED BY <2>2, <3>1, <3>4 DEF HistoryInv, Recorded, WriteTasks, Drop, Restrict
  <2>3. CASE SaveIndex /\ task # "delete"
    <3>1. catalog' = Put(catalog, target, recipe) BY <2>3 DEF SaveIndex
    <3> QED BY <3>1 DEF HistoryInv, Put
  <2> QED BY <2>1, <2>2, <2>3
<1> QED BY <1>1, <1>2 DEF HistoryInv, Recorded

LEMMA HistoryNext ==
    ASSUME MaxTasks <= VersionMod, IInv, CountInv, CatalogInv, HistoryInv, mishaps' = {},
           [Next]_vars
    PROVE  HistoryInv'
<1>1. TypeOK /\ ControlInv BY DEF IInv
<1>2. CASE UNCHANGED vars BY <1>2 DEF vars, disk, input, HistoryInv, Recorded
<1>3. ~DeleteFatal /\ ~DeleteUndefined BY DEF DeleteFatal, DeleteUndefined, Note
<1> QED
  BY <1>1, <1>2, <1>3, HistoryStart, HistoryLoop, HistorySaveRecipe, HistorySame, HistoryExit
  DEF Next

-------------------------------------------------------------------------------
(***************************************************************************)
(* What a restore assembles, and the steps of VersionStore.                *)
(***************************************************************************)
\* The bytes an entry names are those of its chunk.
LEMMA DataOfChunk ==
    ASSUME TypeOK, NEW c \in DOMAIN index, OnDisk(index, c)
    PROVE  /\ ChunkData(index[c]) = AppendChunk(<<>>, c)
           /\ Len(ChunkData(index[c])) = index[c].chunk_length
<1>1. PICK n : n = index[c].container_number OBVIOUS
<1>2. PICK oft \in Nat : oft = index[c].offset BY TablesTyped, EntryFields
<1>3. PICK len \in Nat : len = ChunkLen[c] /\ index[c].chunk_length = len
  BY TablesTyped, EntryFields, ChunkAssumption DEF OnDisk, StoredAt
<1>4. PICK file \in Seq(Cell) : n \in DOMAIN containers /\ file = containers[n]
  BY <1>1 DEF OnDisk, TypeOK
<1>5. oft + len <= Len(file) /\ \A i \in 1..len : file[oft + i] = <<c, i>>
  BY <1>1, <1>2, <1>3, <1>4 DEF OnDisk, StoredAt
<1>6. ChunkData(index[c]) = SubSeq(file, oft + 1, oft + len)
  BY <1>1, <1>2, <1>3, <1>4 DEF ChunkData
<1>7. PICK data : data = AppendChunk(<<>>, c) OBVIOUS
<1>8. data = [i \in 1..len |-> <<c, i>>]
  <2>1. Len(<<>>) = 0 OBVIOUS
  <2>2. 0 + len = len BY <1>3
  <2>3. \A i \in 1..len : ~(i <= 0) /\ i - 0 = i BY <1>3
  <2> QED BY <1>3, <1>7, <2>1, <2>2, <2>3 DEF AppendChunk
<1>9. SubSeq(file, oft + 1, oft + len) = [i \in 1..len |-> file[oft + i]]
  <2>1. /\ SubSeq(file, oft + 1, oft + len) \in Seq(Cell)
        /\ Len(SubSeq(file, oft + 1, oft + len)) = len
        /\ \A i \in 1..len : SubSeq(file, oft + 1, oft + len)[i] = file[oft + i]
    BY <1>5, SubSeqProperties
  <2> QED BY <2>1, FunctionOfSeq
<1>10. [i \in 1..len |-> file[oft + i]] = [i \in 1..len |-> <<c, i>>] BY <1>5
<1>11. ChunkData(index[c]) = data BY <1>6, <1>8, <1>9, <1>10
<1>12. Len(ChunkData(index[c])) = len BY <1>6, <1>9
<1> QED BY <1>3, <1>7, <1>11, <1>12

Promised == [v \in DOMAIN catalog |-> Bytes(catalog[v])]

RefInv ==
    /\ MaxTasks <= VersionMod /\ mishaps = {}
    /\ IInv /\ CountInv /\ CatalogInv /\ HistoryInv

KeepsPromise == Restored = Promised

LEMMA RestoredIsPromised == RefInv => KeepsPromise
<1> SUFFICES ASSUME RefInv PROVE Restored = Promised
  BY DEF KeepsPromise
<1>1. /\ TypeOK /\ ControlInv /\ StoreInv /\ CountInv /\ CatalogInv /\ HistoryInv
      /\ MaxTasks <= VersionMod
  BY DEF RefInv, IInv
<1>2. CASE pc # "idle" BY <1>2 DEF Restored, Promised
<1>3. CASE pc = "idle"
  <2>1. VersionsRestorable /\ RecipesFaithful BY <1>1, CatalogRestorable
  <2>2. DOMAIN recipes = DOMAIN catalog
    <3>1. ~Recorded BY <1>3 DEF Recorded
    <3> QED BY <1>1, <1>3, <2>1, <3>1 DEF HistoryInv, RecipesFaithful
  <2>3. ASSUME NEW v \in DOMAIN catalog PROVE Restore(v) = Bytes(catalog[v])
    <3>1. v \in Nat /\ v < ntasks BY <1>1 DEF TypeOK, CatalogInv
    <3>2. RecipeFile(v) = v BY <1>1, <3>1, RecipeFileOf
    <3>3. PICK file : file = catalog[v] /\ recipes[v] = file /\ v \in DOMAIN recipes
      BY <1>3, <2>1 DEF RecipesFaithful
    <3>4. \A c \in Range(file) : c \in DOMAIN index /\ OnDisk(index, c)
      BY <1>3, <2>1, <3>3 DEF VersionsRestorable
    <3>5. Restorable(v) BY <1>1, <3>2, <3>3, <3>4, DataOfChunk DEF Restorable
    <3>6. [i \in DOMAIN file |-> ChunkData(index[file[i]])]
            = [i \in DOMAIN file |-> AppendChunk(<<>>, file[i])]
      <4>1. \A i \in DOMAIN file : file[i] \in Range(file) BY DEF Range
      <4>2. \A i \in DOMAIN file : ChunkData(index[file[i]]) = AppendChunk(<<>>, file[i])
        BY <1>1, <3>4, <4>1, DataOfChunk
      <4> QED BY <4>2
    <3>7. Restore(v) = FlattenSeq([i \in DOMAIN file |-> ChunkData(index[file[i]])])
      BY <3>2, <3>3, <3>5 DEF Restore
    <3> QED BY <3>3, <3>6, <3>7 DEF Bytes
  <2> QED BY <1>3, <2>2, <2>3 DEF Restored, Promised
<1> QED BY <1>2, <1>3

LEMMA InitPromised == Init => Store!Init
<1> SUFFICES ASSUME Init PROVE Store!Init
  OBVIOUS
<1>1. pc = "idle" /\ DOMAIN recipes = {} BY DEF Init, EmptyFile
<1>2. Restored = [v \in {} |-> Restore(v)] BY <1>1 DEF Restored
<1>3. [v \in {} |-> Restore(v)] = [v \in {} |-> {}] OBVIOUS
<1> QED BY <1>2, <1>3 DEF Store!Init

\* Only the last step of a task changes what was promised, and it does what
\* VersionStore says.
LEMMA StepPromised ==
    ASSUME MaxTasks <= VersionMod, IInv, CountInv, CatalogInv, HistoryInv, mishaps' = {},
           [Next]_vars
    PROVE  \/ Promised' = Promised
           \/ /\ Recorded /\ target \in 0..MaxTasks /\ target \notin DOMAIN Promised
              /\ recipe \in Files
              /\ Promised' = [w \in DOMAIN Promised \cup {target} |->
                                IF w = target THEN Bytes(recipe) ELSE Promised[w]]
           \/ /\ target \in 0..MaxTasks /\ target \in DOMAIN Promised
              /\ Promised' = [w \in DOMAIN Promised \ {target} |-> Promised[w]]
<1>1. TypeOK /\ ControlInv BY DEF IInv
<1>2. DOMAIN Promised = DOMAIN catalog
      /\ \A v \in DOMAIN catalog : Promised[v] = Bytes(catalog[v])
  BY DEF Promised
<1>3. ASSUME SaveIndex, task = "delete"
      PROVE  /\ target \in 0..MaxTasks /\ target \in DOMAIN Promised
             /\ Promised' = [w \in DOMAIN Promised \ {target} |-> Promised[w]]
  <2>1. catalog' = Drop(catalog, target) BY <1>3 DEF SaveIndex
  <2>2. DOMAIN catalog' = DOMAIN catalog \ {target}
        /\ \A w \in DOMAIN catalog' : (catalog')[w] = catalog[w]
    BY <2>1 DEF Drop, Restrict
  <2>3. /\ target \in Nat /\ target < ntasks
        /\ ntasks \in Nat /\ MaxTasks \in Nat /\ ntasks <= MaxTasks
    BY <1>1, <1>3, StoreAssumption DEF TypeOK, CatalogInv
  <2>4. target \in DOMAIN catalog BY <1>3 DEF HistoryInv
  <2> QED BY <1>2, <2>2, <2>3, <2>4 DEF Promised
<1>4. ASSUME SaveIndex, task # "delete"
      PROVE  /\ Recorded /\ target \in 0..MaxTasks /\ target \notin DOMAIN Promised
             /\ recipe \in Files
             /\ Promised' = [w \in DOMAIN Promised \cup {target} |->
                               IF w = target THEN Bytes(recipe) ELSE Promised[w]]
  <2>1. catalog' = Put(catalog, target, recipe) /\ pc = "save" BY <1>4 DEF SaveIndex
  <2>2. Recorded BY <1>1, <1>4, <2>1 DEF Recorded, ControlInv, TypeOK
  <2>3. target \notin DOMAIN catalog /\ recipe \o todo \in Files BY <2>2 DEF HistoryInv, Recorded
  <2>4. target \in DOMAIN recipes /\ target < ntasks BY <2>2 DEF CatalogInv, Recorded
  <2>5. target \in Nat /\ ntasks \in Nat /\ MaxTasks \in Nat /\ ntasks <= MaxTasks
    BY <1>1, StoreAssumption DEF TypeOK, CatalogInv
  <2>6. recipe \in Files
    <3>1. todo = <<>> /\ recipe \in Seq(Chunk) BY <1>1, <2>2 DEF TypeOK, HistoryInv
    <3> QED BY <2>3, <3>1
  <2>7. DOMAIN catalog' = DOMAIN catalog \cup {target}
        /\ \A w \in DOMAIN catalog' : (catalog')[w] = IF w = target THEN recipe ELSE catalog[w]
    BY <2>1 DEF Put
  <2> QED BY <1>2, <2>2, <2>3, <2>4, <2>5, <2>6, <2>7 DEF Promised
<1>5. ASSUME ~SaveIndex PROVE Promised' = Promised
  <2>1. catalog' = catalog
    <3>1. CASE UNCHANGED vars BY <3>1 DEF vars
    <3>2. CASE Next
      BY <1>5, <3>2 DEF Next, StartWrite, DedupChunk, UniqueChunk, SaveContainer, SaveRev,
         SaveRecipe, StartDelete, DeleteRef, DeleteChunk, DeleteFatal, DeleteUndefined,
         Unlink, TruncIndex, Crash, Note
    <3> QED BY <3>1, <3>2
  <2> QED BY <2>1 DEF Promised
<1> QED BY <1>3, <1>4, <1>5

LEMMA RestoredIsPromisedNext == RefInv' => KeepsPromise'
BY RestoredIsPromised, PTL

LEMMA StepImplements ==
    RefInv /\ RefInv' /\ [Next]_vars => [Store!Next]_Restored
<1> SUFFICES ASSUME RefInv, RefInv', [Next]_vars PROVE [Store!Next]_Restored
  OBVIOUS
<1>1. Restored = Promised /\ Restored' = Promised'
  BY RestoredIsPromised, RestoredIsPromisedNext DEF KeepsPromise
<1>2. mishaps' = {} BY DEF RefInv
<1>3. ASSUME target \in 0..MaxTasks, target \notin DOMAIN Promised, recipe \in Files,
             Promised' = [w \in DOMAIN Promised \cup {target} |->
                            IF w = target THEN Bytes(recipe) ELSE Promised[w]]
      PROVE  Store!Next
  <2>1. Store!Write(target, Bytes(recipe)) BY <1>1, <1>3 DEF Store!Write
  <2> QED BY <1>3, <2>1 DEF Store!Next
<1>4. ASSUME target \in 0..MaxTasks, target \in DOMAIN Promised,
             Promised' = [w \in DOMAIN Promised \ {target} |-> Promised[w]]
      PROVE  Store!Next
  <2>1. Store!Delete(target) BY <1>1, <1>4 DEF Store!Delete
  <2> QED BY <1>4, <2>1 DEF Store!Next
<1>5. \/ Promised' = Promised
      \/ /\ target \in 0..MaxTasks /\ target \notin DOMAIN Promised /\ recipe \in Files
         /\ Promised' = [w \in DOMAIN Promised \cup {target} |->
                           IF w = target THEN Bytes(recipe) ELSE Promised[w]]
      \/ /\ target \in 0..MaxTasks /\ target \in DOMAIN Promised
         /\ Promised' = [w \in DOMAIN Promised \ {target} |-> Promised[w]]
  BY <1>2, StepPromised DEF RefInv
<1> QED BY <1>1, <1>3, <1>4, <1>5

\* As long as nothing goes wrong and version numbers fit their type, a restore
\* of any number returns exactly the bytes of the file written under it, until
\* that number, and no other, is deleted.
THEOREM ImplementsUntilMishap ==
    ASSUME MaxTasks <= VersionMod
    PROVE  Spec /\ []NoMishap => ImplementsVersionStore
<1>1. Init => Store!Init BY InitPromised
<1>2. Init /\ NoMishap => RefInv
  BY InvInit, CountInit, CatalogInit, HistoryInit DEF RefInv, NoMishap
<1>3. RefInv /\ NoMishap' /\ [Next]_vars => RefInv'
  <2> SUFFICES ASSUME RefInv, mishaps' = {}, [Next]_vars PROVE RefInv'
    BY DEF NoMishap
  <2>1. IInv' BY InvNext DEF RefInv
  <2>2. CountInv' BY <2>1, CountNext DEF RefInv
  <2>3. CatalogInv' BY CatalogNext DEF RefInv
  <2>4. HistoryInv' BY HistoryNext DEF RefInv
  <2> QED BY <2>1, <2>2, <2>3, <2>4 DEF RefInv
<1>4. RefInv /\ RefInv' /\ [Next]_vars => [Store!Next]_Restored BY StepImplements
<1> QED
  BY <1>1, <1>2, <1>3, <1>4, PTL DEF Spec, ImplementsVersionStore, Store!Spec

\* A store written serially and deleted from, only written when no version
\* number is free, keeps that promise without a condition.
THEOREM SerialImplements ==
    ASSUME SerialUse, MaxTasks <= VersionMod
    PROVE  Spec => ImplementsVersionStore
BY ImplementsUntilMishap, SerialNoMishap, PTL

\* So does a store of writes of either kind that may die before they save
\* their recipe: such a write is invisible.
THEOREM CrashImplements ==
    ASSUME IndexFits, MaxTasks <= VersionMod,
           Tasks \subseteq WriteTasks, CrashPoints \subseteq {"loop", "rev"}
    PROVE  Spec => ImplementsVersionStore
BY CrashNoMishap, ImplementsUntilMishap, PTL

=============================================================================
