--------------------------- MODULE MetadataManager ---------------------------
(***************************************************************************)
(* The fingerprint index of src/src/MetadataManager.cpp as operators on    *)
(* tables.  A table is a partial function from chunks to entries; a chunk  *)
(* stands for its content and its fingerprint at once, because the code    *)
(* identifies the two (SHA-1, collisions "should be zero", main.cpp:513).  *)
(* The class keeps two tables: fp_table_origin, what load() read from the  *)
(* index file, and fp_table_added, what this process added.                *)
(***************************************************************************)
EXTENDS Integers, FiniteSets, Functions

CONSTANTS
    U32,       \* the number of values of a uint32_t (2^32; smaller for TLC)
    IndexCap   \* how many entries load() can read: FILE_CACHE / META_DATA_SIZE

ASSUME WidthAssumption == U32 \in Nat \ {0} /\ IndexCap \in Nat

\* ENTRY_VALUE without container_inner_index, which only ChunkCache reads.
Entry(number, off, len, cnt) ==
    [container_number |-> number, offset |-> off,
     chunk_length |-> len, ref_cnt |-> cnt]

EntryType == [container_number : Nat, offset : Nat,
              chunk_length : Nat, ref_cnt : Nat]

EmptyTable == [c \in {} |-> Entry(0, 0, 0, 0)]

IsDedup(origin, added, c) == c \in DOMAIN origin \/ c \in DOMAIN added

\* unordered_map::emplace: an entry that is there already stays.
addNewEntry(table, c, value) ==
    [x \in DOMAIN table \cup {c} |-> IF x \in DOMAIN table THEN table[x] ELSE value]

WithRefCnt(table, c, cnt) ==
    [x \in DOMAIN table |->
        IF x = c THEN [table[x] EXCEPT !.ref_cnt = cnt] ELSE table[x]]

\* Mutant: the reference is not counted.
addRefCnt_Forgotten(table, c) == table

addRefCnt(table, c) == WithRefCnt(table, c, table[c].ref_cnt + 1)

\* Mutant: the erase is forgotten when the last reference goes.
decRefCnt_KeepsDead(table, c) == WithRefCnt(table, c, table[c].ref_cnt - 1)

decRefCnt(table, c) ==
    IF table[c].ref_cnt > 1
    THEN WithRefCnt(table, c, table[c].ref_cnt - 1)
    ELSE Restrict(table, DOMAIN table \ {c})

\* Mutant: the comparison with the cut point is reversed.
chunkOffsetDec_Before(table, chunks, oft, len) ==
    [x \in DOMAIN table |->
        IF x \in chunks /\ table[x].offset < oft
        THEN [table[x] EXCEPT !.offset = (@ - len) % U32]
        ELSE table[x]]

\* chunkOffsetDec called once for every member of chunks: the entries that
\* lie behind the cut move forward by its length, in uint32_t arithmetic.
chunkOffsetDec(table, chunks, oft, len) ==
    [x \in DOMAIN table |->
        IF x \in chunks /\ table[x].offset > oft
        THEN [table[x] EXCEPT !.offset = (@ - len) % U32]
        ELSE table[x]]

\* The tables load() may build from the index file: all of it, or as many
\* entries as one read of FILE_CACHE bytes returns.  The file is written in
\* hash-map order, so which ones are cut off is not determined.
load(file) ==
    { Restrict(file, kept) :
        kept \in { s \in SUBSET DOMAIN file :
                     \/ Cardinality(DOMAIN file) <= IndexCap /\ s = DOMAIN file
                     \/ Cardinality(DOMAIN file) > IndexCap /\ Cardinality(s) = IndexCap } }

\* What save() leaves in the index file: fp_table_added is written first,
\* and when the file is loaded the first entry of a fingerprint wins.
save(origin, added) ==
    [x \in DOMAIN added \cup DOMAIN origin |->
        IF x \in DOMAIN added THEN added[x] ELSE origin[x]]
=============================================================================
