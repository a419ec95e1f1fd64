----------------------------- MODULE FullFileStore -----------------------------
(***************************************************************************)
(* Full-file deduplication (src/src/full_file_deduplicater.cpp): a file of *)
(* fingerprints with counts and a directory with one file per entry, under *)
(* the entry's position.  Each task is a process; between two of its steps *)
(* it may die.  A content stands for its hash, as long as it fits into the *)
(* FILE_CACHE bytes that are hashed, NoContent for the hash of a file that *)
(* cannot be opened: all zeros.                                            *)
(*                                                                         *)
(* The fingerprint file is a sequence of words of four bytes, six to an    *)
(* entry: five of the hash and the count.  A write that dies between the   *)
(* two leaves five words behind, and what follows is read out of step.     *)
(***************************************************************************)
EXTENDS Integers, Sequences, FiniteSets, Functions

CONSTANTS
    Contents,       \* the contents of the input files
    NoContent,      \* in place of a file that cannot be opened
    EmptyContent,   \* the content of an empty file
    Mixed,          \* words out of step, the hash of nothing
    HashCounts,     \* the counts that a word of a hash may read as
    CacheEntries,   \* FILE_FINGERPRINTS_CACHE / ENTRY_LENGTH
    TrailingSlash,  \* storage_path ends with a slash
    CrashPoints,    \* where a process may die
    MaxTasks        \* bound on the number of tasks

ASSUME FullFileAssumption ==
    /\ NoContent \notin Contents /\ EmptyContent \in Contents
    /\ Mixed \notin Contents \cup {NoContent} /\ HashCounts \subseteq Nat
    /\ CacheEntries \in Nat
    /\ TrailingSlash \in BOOLEAN
    /\ CrashPoints \subseteq {"count", "save", "remove"}
    /\ MaxTasks \in Nat

VARIABLES
    entries,  \* the fingerprint file: [hash, count]; position 1 is file 0
    tail,     \* the words behind the last whole entry: how many, and the
              \* content they are the hash of
    files,    \* the storage directory
    pc,       \* where the running process is
    file_id,  \* the file it saves or removes
    input,    \* the content it saves, NoContent if it could not be opened
    told,     \* history: the content a user was given this id for
    owners,   \* history: how many writes were told the id and not yet deleted
    ntasks,   \* history: the tasks started
    mishaps   \* history: "crash", "unreadable", "undefined"

store == <<entries, tail, files>>
history == <<told, owners>>
vars == <<store, pc, file_id, input, history, ntasks, mishaps>>

Ids == 0..(Len(entries) - 1)
Entry(id) == entries[id + 1]
Hashes == Contents \cup {NoContent}
NoTail == [len |-> 0, hash |-> Mixed]
Put(f, x, y) == [z \in DOMAIN f \cup {x} |-> IF z = x THEN y ELSE f[z]]

Init ==
    /\ entries = <<>> /\ tail = NoTail /\ files = [id \in {} |-> NoContent]
    /\ pc = "idle" /\ file_id = -1 /\ input = NoContent
    /\ told = <<>> /\ owners = <<>>
    /\ ntasks = 0 /\ mishaps = {}

\* Mutant: an entry without references is found too.
Matches_Dead(c) == {id \in Ids : Entry(id).hash = c}

\* Mutant: the scan begins at the second entry.
Matches_SkipFirst(c) == {id \in Ids : id > 0 /\ Entry(id).hash = c /\ Entry(id).count # 0}

\* uint32not0 and the comparison of the hashes.
Matches(c) == {id \in Ids : Entry(id).hash = c /\ Entry(id).count # 0}

\* The scans go through all entries, but read CacheEntries of them only.
Scanned(c) == {id \in Matches(c) : id < CacheEntries}
ScanEnds(c) == Scanned(c) # {} \/ Len(entries) <= CacheEntries
First(S) == CHOOSE id \in S : \A other \in S : id <= other

file_uint32chg(id, delta) ==
    entries' = [entries EXCEPT ![id + 1].count = @ + delta]

\* generate_abs_file_name_from_file_id: with the slash it takes the member
\* file_id, which is -1 in a process that restores or deletes.
Name(id) == IF TrailingSlash THEN -1 ELSE id

\* The process has ended.
Idle == pc' = "idle" /\ file_id' = -1 /\ input' = NoContent

NewTask ==
    /\ pc = "idle" /\ ntasks < MaxTasks /\ "undefined" \notin mishaps
    /\ ntasks' = ntasks + 1

\* compute_file_hash of the input leaves the hash zero if it cannot be opened.
HashInput(c) == mishaps' = mishaps \cup {m \in {"unreadable"} : c = NoContent}

\* The user is told the id of the content.
Tell(id, c) ==
    /\ told' = [told EXCEPT ![id + 1] = c]
    /\ owners' = [owners EXCEPT ![id + 1] = @ + 1]

\* writeFile of a content that is there: it is counted.
WriteKnown(c) ==
    /\ NewTask /\ Scanned(c) # {} /\ HashInput(c)
    /\ LET id == First(Scanned(c)) IN file_uint32chg(id, 1) /\ Tell(id, c)
    /\ UNCHANGED <<tail, files, pc, file_id, input>>

\* Mutant: the new file takes the number of the files that are left.
NewId_Left == Cardinality(DOMAIN files)

\* files_num, counted when the process started.
NewId == Len(entries)

\* The file grows past the end of an entry.
Grow(entry, left) ==
    /\ entries' = Append(entries, entry) /\ tail' = left
    /\ told' = Append(told, NoContent) /\ owners' = Append(owners, 0)

\* It grows, and the last entry stays short of its six words.
Lengthen(left) == tail' = left /\ UNCHANGED <<entries, history>>

\* The first write of insert_hash, five words: behind a whole entry they wait
\* for their count, else the first of them complete the entry that was torn.
AppendHash(c) ==
    \/ tail.len = 0 /\ Lengthen([len |-> 5, hash |-> c])
    \/ /\ tail.len > 0
       /\ \E n \in HashCounts : Grow([hash |-> tail.hash, count |-> n],
                                     [len |-> tail.len - 1, hash |-> Mixed])

\* Its second write, the word that holds the count.
AppendCount ==
    \/ tail.len = 5 /\ Grow([hash |-> tail.hash, count |-> 1], NoTail)
    \/ tail.len < 5 /\ Lengthen([len |-> tail.len + 1, hash |-> Mixed])

\* writeFile of a new one: insert_hash, then save_file.
WriteNew(c) ==
    /\ NewTask /\ ScanEnds(c) /\ Scanned(c) = {} /\ HashInput(c)
    /\ AppendHash(c)
    /\ pc' = "count" /\ file_id' = NewId /\ input' = c
    /\ UNCHANGED files

WriteCount ==
    /\ pc = "count" /\ AppendCount
    /\ pc' = "save"
    /\ UNCHANGED <<files, file_id, input, ntasks, mishaps>>

\* save_file creates the file in any case.
Saved == IF input = NoContent THEN EmptyContent ELSE input

SaveFile ==
    /\ pc = "save"
    /\ files' = Put(files, file_id, Saved)
    /\ Tell(file_id, input)
    /\ Idle
    /\ UNCHANGED <<entries, tail, ntasks, mishaps>>

\* compute_file_hash of the stored file.
StoredHash(id) == IF Name(id) \in DOMAIN files THEN files[Name(id)] ELSE NoContent

GiveUp(id) == owners' = [owners EXCEPT ![id + 1] = IF @ > 0 THEN @ - 1 ELSE 0]

\* Mutant: the file goes with the first delete.
LastReference_Any(id) == TRUE

LastReference(id) == Entry(id).count = 1

\* deleteFile up to the count: the file goes when the count is 0 after it, or
\* when nothing is found.
DeleteCount(id) ==
    /\ NewTask /\ ScanEnds(StoredHash(id))
    /\ LET found == Scanned(StoredHash(id)) IN
         IF found = {}
         THEN pc' = "remove" /\ UNCHANGED entries
         ELSE /\ file_uint32chg(First(found), -1)
              /\ pc' = IF LastReference(First(found)) THEN "remove" ELSE "idle"
    /\ file_id' = IF pc' = "remove" THEN Name(id) ELSE -1
    /\ GiveUp(id)
    /\ UNCHANGED <<tail, files, input, told, mishaps>>

RemoveFile ==
    /\ pc = "remove"
    /\ files' = Restrict(files, DOMAIN files \ {file_id})
    /\ Idle
    /\ UNCHANGED <<entries, tail, history, ntasks, mishaps>>

\* The scan runs over the end of file_fingerprints_cache.
ScanUndefined ==
    /\ NewTask
    /\ \/ \E c \in Hashes : ~ScanEnds(c)
       \/ \E id \in Ids : ~ScanEnds(StoredHash(id))
    /\ mishaps' = mishaps \cup {"undefined"}
    /\ UNCHANGED <<store, pc, file_id, input, history>>

Crash ==
    /\ pc \in CrashPoints
    /\ mishaps' = mishaps \cup {"crash"}
    /\ Idle
    /\ UNCHANGED <<store, history, ntasks>>

Next ==
    \/ \E c \in Hashes : WriteKnown(c) \/ WriteNew(c)
    \/ \E id \in Ids : DeleteCount(id)
    \/ WriteCount \/ SaveFile \/ RemoveFile \/ ScanUndefined \/ Crash

Spec == Init /\ [][Next]_vars

-------------------------------------------------------------------------------
TypeOK ==
    /\ entries \in Seq([hash : Hashes \cup {Mixed}, count : Nat])
    /\ tail \in [len : 0..5, hash : Hashes \cup {Mixed}]
    /\ tail.len < 5 => tail.hash = Mixed
    /\ files \in [DOMAIN files -> Contents] /\ DOMAIN files \subseteq Ids
    /\ pc \in {"idle", "count", "save", "remove"}
    /\ file_id \in -1..Len(entries) /\ input \in Hashes
    /\ told \in Seq(Hashes) /\ owners \in Seq(Nat)
    /\ Len(told) = Len(entries) /\ Len(owners) = Len(entries)
    /\ ntasks \in Nat /\ mishaps \subseteq {"crash", "unreadable", "undefined"}

\* No process has died, and every input could be opened.
Unharmed == mishaps \cap {"crash", "unreadable"} = {}

\* An id that a user was given and has not deleted restores to the content it
\* was given for (the comment on writeFile: the id is needed for a restore).
HeldRestorable ==
    pc = "idle" =>
      \A id \in Ids : owners[id + 1] > 0 =>
        Name(id) \in DOMAIN files /\ files[Name(id)] = told[id + 1]

\* No order of writes, deletes and rewrites takes a held id's file away; a
\* death may (a delete that is tried again counts down another entry), and an
\* input that cannot be opened is given an id for nothing.
HeldUntilCrash == Unharmed => HeldRestorable

\* A scan can stop at one entry of a content only: its count is the only one
\* that keeps it alive, over deletes and rewrites and wherever a process dies,
\* between the two writes of insert_hash too.  What is appended behind a torn
\* entry is read out of step and is the entry of no content: such a content is
\* stored again by the next write, but no scan ever has a choice.
OneLiveEntry ==
    \A i, j \in Ids :
      /\ Entry(i).hash = Entry(j).hash /\ Entry(i).hash # Mixed
      /\ Entry(i).count > 0 /\ Entry(j).count > 0
      => i = j

\* While nothing went wrong, the counts are the numbers of owners and the
\* directory holds what has owners and nothing else.
CountsAndFilesAgree ==
    pc = "idle" /\ Unharmed =>
      /\ \A id \in Ids : Entry(id).count = owners[id + 1]
      /\ DOMAIN files = {id \in Ids : owners[id + 1] > 0}

-------------------------------------------------------------------------------
(***************************************************************************)
(* The inductive invariant behind them.                                    *)
(***************************************************************************)
\* The owners of an entry, with the one that a running save is about to have.
Pending(id) == IF pc = "save" /\ id = file_id THEN 1 ELSE 0

EntryAgrees(id) ==
    /\ Entry(id).count = owners[id + 1] + Pending(id)
    /\ owners[id + 1] > 0 => told[id + 1] = Entry(id).hash /\ id \in DOMAIN files
    /\ id \in DOMAIN files =>
         /\ files[id] = Entry(id).hash
         /\ owners[id + 1] > 0 \/ (pc = "remove" /\ id = file_id)

StepAgrees ==
    /\ tail = IF pc = "count" THEN [len |-> 5, hash |-> input] ELSE NoTail
    /\ pc \in {"count", "save"} => input \in Contents
    /\ pc = "save" => owners[file_id + 1] = 0 /\ input = Entry(file_id).hash
    /\ pc = "remove" => file_id \in Ids /\ owners[file_id + 1] = 0

Agree == StepAgrees /\ \A id \in Ids : EntryAgrees(id)

\* One entry appears with the two writes of insert_hash, torn entries before it
\* or not, and the file is saved under its number.
SaveInHand ==
    /\ pc = "count" => file_id = IF tail.len = 5 THEN Len(entries) ELSE Len(entries) - 1
    /\ pc = "save" => file_id = Len(entries) - 1
    /\ pc \in {"count", "save"} => file_id # -1

\* A hash without its count is of a content that has no live entry: it was
\* looked for before the write, and the write after it completes the entry.
TornIsUnknown ==
    tail.hash # Mixed =>
      \A id \in Ids : Entry(id).hash = tail.hash => Entry(id).count = 0

\* One live entry per content survives deaths; ids, counts and files agree as
\* long as there was none, and the names of the files are right.
FInv ==
    /\ TypeOK /\ OneLiveEntry /\ SaveInHand /\ TornIsUnknown
    /\ Unharmed /\ ~TrailingSlash => Agree
===============================================================================
