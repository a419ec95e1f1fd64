---------------------------- MODULE FullFileProofs ----------------------------
(***************************************************************************)
(* The properties of FullFileStore for any contents, any size of the       *)
(* cache, any number of tasks, deaths anywhere and words out of step.      *)
(***************************************************************************)
EXTENDS FullFileRefinement, TLAPS

EntryType == [hash : Hashes \cup {Mixed}, count : Nat]

\* An id is a position in the three sequences.
LEMMA IdsTyped ==
  ASSUME TypeOK
  PROVE  \A id \in Ids : /\ id \in Int /\ id # -1 /\ id + 1 \in 1..Len(entries)
                         /\ Entry(id) \in EntryType
                         /\ Entry(id).hash \in Hashes \cup {Mixed} /\ Entry(id).count \in Nat
                         /\ owners[id + 1] \in Nat
                         /\ told[id + 1] \in Hashes
<1> TAKE id \in Ids
<1>1. Len(entries) \in Nat /\ entries \in Seq(EntryType)
  BY DEF TypeOK, EntryType
<1>2. id \in Int /\ id # -1 /\ id + 1 \in 1..Len(entries)
  BY <1>1 DEF Ids
<1>3. entries[id + 1] \in EntryType
  BY <1>1, <1>2
<1>4. owners[id + 1] \in Nat /\ told[id + 1] \in Hashes
  BY <1>2 DEF TypeOK
<1>5. entries[id + 1].hash \in Hashes \cup {Mixed} /\ entries[id + 1].count \in Nat
  BY <1>3 DEF EntryType
<1> QED BY <1>2, <1>3, <1>4, <1>5 DEF Entry

\* With one live entry for a content, the scan can only stop at that one.
LEMMA FirstIsScanned ==
  ASSUME TypeOK, OneLiveEntry, NEW c \in Hashes, Scanned(c) # {}
  PROVE  /\ First(Scanned(c)) \in Ids
         /\ Entry(First(Scanned(c))).hash = c
         /\ Entry(First(Scanned(c))).count \in Nat \ {0}
<1>1. \A id \in Scanned(c) : /\ id \in Ids /\ id \in Int
                            /\ Entry(id).hash = c /\ Entry(id).count \in Nat \ {0}
  BY IdsTyped DEF Scanned, Matches
<1>2. PICK id \in Scanned(c) : TRUE
  OBVIOUS
<1>3. \A other \in Scanned(c) : id = other
  <2>1. c # Mixed
    BY FullFileAssumption DEF Hashes
  <2> QED BY <1>1, <1>2, <2>1 DEF OneLiveEntry
<1>4. \A other \in Scanned(c) : id <= other
  BY <1>1, <1>2, <1>3
<1>5. First(Scanned(c)) \in Scanned(c)
  BY <1>2, <1>4 DEF First
<1> QED BY <1>1, <1>5

\* A scan that ends without a match has seen every live entry.
LEMMA NothingScanned ==
  ASSUME TypeOK, NEW c, ScanEnds(c), Scanned(c) = {}
  PROVE  \A id \in Ids : Entry(id).hash = c => Entry(id).count = 0
<1>1. Len(entries) \in Nat /\ CacheEntries \in Nat /\ Len(entries) <= CacheEntries
  BY FullFileAssumption DEF ScanEnds, TypeOK
<1>2. Matches(c) = {}
  BY <1>1 DEF Scanned, Matches, Ids
<1> QED BY <1>2 DEF Matches

\* A count that changes leaves the other entries and all hashes alone.
LEMMA CountChanges ==
  ASSUME TypeOK, NEW id \in Ids, NEW delta \in Int,
         Entry(id).count + delta \in Nat, file_uint32chg(id, delta)
  PROVE  /\ entries' \in Seq(EntryType) /\ Len(entries') = Len(entries)
         /\ Ids' = Ids
         /\ \A i \in Ids : /\ Entry(i)'.hash = Entry(i).hash
                           /\ Entry(i)'.count = IF i = id THEN Entry(i).count + delta
                                                          ELSE Entry(i).count
<1>1. entries \in Seq(EntryType) /\ id + 1 \in 1..Len(entries)
  <2>1. entries \in Seq(EntryType)
    BY DEF TypeOK, EntryType
  <2>2. Len(entries) \in Nat /\ id \in 0..(Len(entries) - 1)
    BY <2>1 DEF Ids
  <2> QED BY <2>1, <2>2
<1>2. entries' = [entries EXCEPT ![id + 1] =
                    [entries[id + 1] EXCEPT !.count = @ + delta]]
  BY DEF file_uint32chg
<1>3. entries[id + 1] \in EntryType
  BY <1>1
<1>4. [entries[id + 1] EXCEPT !.count = @ + delta] \in EntryType
  BY <1>3 DEF EntryType, Entry
<1>5. entries' \in Seq(EntryType) /\ Len(entries') = Len(entries)
  BY <1>1, <1>2, <1>4
<1>6. Ids' = Ids
  BY <1>5 DEF Ids
<1>7. ASSUME NEW i \in Ids
      PROVE /\ Entry(i)'.hash = Entry(i).hash
            /\ Entry(i)'.count = IF i = id THEN Entry(i).count + delta
                                           ELSE Entry(i).count
  <2>1. i \in Int /\ i + 1 \in 1..Len(entries) /\ entries[i + 1] \in EntryType
    BY <1>1, <1>7 DEF Ids
  <2>2. /\ entries'[i + 1].hash = entries[i + 1].hash
        /\ entries'[i + 1].count = IF i = id THEN entries[i + 1].count + delta
                                             ELSE entries[i + 1].count
    <3>1. CASE i = id
      <4>1. entries'[i + 1] = [entries[i + 1] EXCEPT !.count = @ + delta]
        BY <1>1, <1>2, <2>1, <3>1
      <4> QED BY <2>1, <3>1, <4>1 DEF EntryType
    <3>2. CASE i # id
      <4>1. id \in Int /\ i + 1 # id + 1
        BY <2>1, <3>2 DEF Ids
      <4>2. entries'[i + 1] = entries[i + 1]
        BY <1>1, <1>2, <2>1, <4>1
      <4> QED BY <3>2, <4>2
    <3> QED BY <3>1, <3>2
  <2> QED BY <2>2 DEF Entry
<1> QED BY <1>5, <1>6, <1>7

\* What a user is told changes the history of one entry.
LEMMA TellChanges ==
  ASSUME TypeOK, NEW id \in Ids, NEW c \in Hashes, Tell(id, c)
  PROVE  /\ told' \in Seq(Hashes) /\ owners' \in Seq(Nat)
         /\ Len(told') = Len(told) /\ Len(owners') = Len(owners)
         /\ \A i \in Ids : /\ owners'[i + 1] = IF i = id THEN owners[i + 1] + 1
                                                         ELSE owners[i + 1]
                           /\ told'[i + 1] = IF i = id THEN c ELSE told[i + 1]
<1>1. told \in Seq(Hashes) /\ owners \in Seq(Nat)
  BY DEF TypeOK
<1>2. Len(told) = Len(entries) /\ Len(owners) = Len(entries) /\ Len(entries) \in Nat
  BY DEF TypeOK
<1>3. \A i \in Ids : i + 1 \in 1..Len(entries) /\ i \in Int
  BY <1>2 DEF Ids
<1>4. owners[id + 1] \in Nat
  BY <1>1, <1>2, <1>3
<1> QED BY <1>1, <1>2, <1>3, <1>4 DEF Tell

\* A deleted id loses an owner.
LEMMA GiveUpChanges ==
  ASSUME TypeOK, NEW id \in Ids, GiveUp(id)
  PROVE  /\ owners' \in Seq(Nat) /\ Len(owners') = Len(owners)
         /\ \A i \in Ids : owners'[i + 1] =
              IF i = id /\ owners[i + 1] > 0 THEN owners[i + 1] - 1 ELSE owners[i + 1]
<1>1. owners \in Seq(Nat) /\ Len(owners) = Len(entries)
  BY DEF TypeOK
<1>2. DEFINE less == IF owners[id + 1] > 0 THEN owners[id + 1] - 1 ELSE 0
<1>3. owners[id + 1] \in Nat /\ less \in Nat
  BY IdsTyped
<1>4. owners' = [owners EXCEPT ![id + 1] = less]
  BY DEF GiveUp
<1> HIDE DEF less
<1>5. owners' \in Seq(Nat) /\ Len(owners') = Len(owners)
  BY <1>1, <1>3, <1>4, IdsTyped
<1>6. ASSUME NEW i \in Ids
      PROVE owners'[i + 1] =
              IF i = id /\ owners[i + 1] > 0 THEN owners[i + 1] - 1 ELSE owners[i + 1]
  <2>1. i \in Int /\ id \in Int /\ i + 1 \in 1..Len(owners) /\ owners[i + 1] \in Nat
    BY <1>1, <1>6, IdsTyped
  <2>2. owners'[i + 1] = IF i = id THEN less ELSE owners[i + 1]
    BY <1>1, <1>4, <2>1
  <2> QED BY <2>1, <2>2 DEF less
<1> QED BY <1>5, <1>6

\* A new entry leaves the others alone and takes the next id.
LEMMA EntryAppears ==
  ASSUME TypeOK, NEW e \in EntryType, NEW left, Grow(e, left)
  PROVE  /\ entries' \in Seq(EntryType) /\ Len(entries') = Len(entries) + 1
         /\ told' \in Seq(Hashes) /\ owners' \in Seq(Nat)
         /\ Len(told') = Len(entries') /\ Len(owners') = Len(entries')
         /\ Ids' = Ids \cup {NewId} /\ NewId \notin Ids /\ NewId \in Nat
         /\ \A i \in Ids : /\ Entry(i)' = Entry(i) /\ owners'[i + 1] = owners[i + 1]
                           /\ told'[i + 1] = told[i + 1]
         /\ entries'[NewId + 1] = e /\ owners'[NewId + 1] = 0
<1>1. /\ entries \in Seq(EntryType) /\ told \in Seq(Hashes) /\ owners \in Seq(Nat)
      /\ Len(told) = Len(entries) /\ Len(owners) = Len(entries) /\ Len(entries) \in Nat
  BY DEF TypeOK, EntryType
<1>2. NoContent \in Hashes
  BY DEF Hashes
<1>3. entries' = Append(entries, e) /\ told' = Append(told, NoContent)
      /\ owners' = Append(owners, 0)
  BY DEF Grow
<1>4. /\ entries' \in Seq(EntryType) /\ Len(entries') = Len(entries) + 1
      /\ entries'[Len(entries) + 1] = e
      /\ \A k \in 1..Len(entries) : entries'[k] = entries[k]
  BY <1>1, <1>3
<1>5. /\ told' \in Seq(Hashes) /\ Len(told') = Len(entries) + 1
      /\ \A k \in 1..Len(entries) : told'[k] = told[k]
  BY <1>1, <1>2, <1>3
<1>6. /\ owners' \in Seq(Nat) /\ Len(owners') = Len(entries) + 1
      /\ owners'[Len(entries) + 1] = 0
      /\ \A k \in 1..Len(entries) : owners'[k] = owners[k]
  BY <1>1, <1>3
<1>7. Ids' = Ids \cup {NewId} /\ NewId \notin Ids /\ NewId \in Nat
  BY <1>1, <1>4 DEF Ids, NewId
<1>8. \A i \in Ids : i + 1 \in 1..Len(entries)
  BY IdsTyped
<1>9. \A i \in Ids : Entry(i)' = Entry(i)
  BY <1>4, <1>8 DEF Entry
<1> QED BY <1>4, <1>5, <1>6, <1>7, <1>8, <1>9 DEF NewId

\* It is the only live one of its content if there was none before.
LEMMA NewEntryAlone ==
  ASSUME TypeOK, OneLiveEntry, NEW e \in EntryType, NEW left, Grow(e, left),
         e.hash # Mixed => \A id \in Ids : Entry(id).hash = e.hash => Entry(id).count = 0
  PROVE  OneLiveEntry'
<1>1. /\ Ids' = Ids \cup {NewId} /\ entries'[NewId + 1] = e
      /\ \A i \in Ids : entries'[i + 1] = entries[i + 1]
  BY EntryAppears DEF Entry
<1> SUFFICES ASSUME NEW i \in Ids', NEW j \in Ids',
                    entries'[i + 1].hash = entries'[j + 1].hash,
                    entries'[i + 1].hash # Mixed,
                    entries'[i + 1].count > 0, entries'[j + 1].count > 0
             PROVE  i = j
  BY DEF OneLiveEntry, Entry
<1>2. CASE i \in Ids /\ j \in Ids
  BY <1>1, <1>2 DEF OneLiveEntry, Entry
<1>3. CASE i = NewId /\ j \in Ids
  BY <1>1, <1>3 DEF Entry
<1>4. CASE i \in Ids /\ j = NewId
  BY <1>1, <1>4 DEF Entry
<1>5. CASE i = NewId /\ j = NewId
  BY <1>5
<1> QED BY <1>1, <1>2, <1>3, <1>4, <1>5

\* A stored file has a hash, or the hash is zero.
LEMMA StoredHashes ==
  ASSUME TypeOK, NEW id
  PROVE  StoredHash(id) \in Hashes
BY DEF TypeOK, StoredHash, Hashes

\* What is behind the last entry.
LEMMA TailTyped ==
  ASSUME TypeOK
  PROVE  /\ tail.len \in 0..5 /\ tail.hash \in Hashes \cup {Mixed}
         /\ tail.len < 5 => tail.hash = Mixed
BY DEF TypeOK

-------------------------------------------------------------------------------
\* Writing a known content keeps the invariant.
LEMMA WriteKnownStep ==
  ASSUME FInv, NEW c \in Hashes, WriteKnown(c)
  PROVE  FInv'
<1> DEFINE known == First(Scanned(c))
<1>1. /\ TypeOK /\ OneLiveEntry /\ Scanned(c) # {} /\ pc = "idle"
      /\ UNCHANGED <<tail, files, pc, file_id, input>>
      /\ mishaps' = mishaps \cup {m \in {"unreadable"} : c = NoContent}
      /\ ntasks \in Nat /\ ntasks' = ntasks + 1
  BY DEF FInv, WriteKnown, NewTask, HashInput, TypeOK
<1>2. /\ known \in Ids /\ Entry(known).hash = c /\ Entry(known).count \in Nat \ {0}
  BY <1>1, FirstIsScanned
<1>3. file_uint32chg(known, 1) /\ Tell(known, c)
  BY DEF WriteKnown
<1> HIDE DEF known
<1>4. Entry(known).count + 1 \in Nat
  BY <1>2
<1>5. /\ entries' \in Seq(EntryType) /\ Len(entries') = Len(entries) /\ Ids' = Ids
      /\ \A i \in Ids : /\ Entry(i)'.hash = Entry(i).hash
                        /\ Entry(i)'.count = IF i = known THEN Entry(known).count + 1
                                                          ELSE Entry(i).count
  BY <1>1, <1>2, <1>3, <1>4, CountChanges
<1>6. /\ told' \in Seq(Hashes) /\ owners' \in Seq(Nat)
      /\ Len(told') = Len(told) /\ Len(owners') = Len(owners)
      /\ \A i \in Ids : /\ owners'[i + 1] = IF i = known THEN owners[i + 1] + 1
                                                         ELSE owners[i + 1]
                        /\ told'[i + 1] = IF i = known THEN c ELSE told[i + 1]
  BY <1>1, <1>2, <1>3, TellChanges
<1>7. TypeOK'
  BY <1>1, <1>5, <1>6 DEF TypeOK, EntryType
<1>8. OneLiveEntry'
  <2>1. \A i \in Ids : Entry(i)'.count > 0 => Entry(i).count > 0
    BY <1>2, <1>5
  <2> QED BY <1>1, <1>5, <2>1 DEF OneLiveEntry
<1>9. SaveInHand' /\ TornIsUnknown'
  <2>1. \A i \in Ids : Entry(i).count = 0 => Entry(i)'.count = 0
    BY <1>2, <1>5
  <2> QED BY <1>1, <1>5, <2>1 DEF FInv, SaveInHand, TornIsUnknown
<1>10. ASSUME Unharmed', ~TrailingSlash PROVE Agree'
  <2>1. StepAgrees /\ \A i \in Ids : EntryAgrees(i)
    BY <1>1, <1>10 DEF FInv, Agree, Unharmed
  <2>2. ASSUME NEW i \in Ids PROVE EntryAgrees(i)'
    <3>1. Entry(i).count \in Nat /\ owners[i + 1] \in Nat
      BY <1>1, IdsTyped
    <3>2. EntryAgrees(i) /\ Pending(i) = 0 /\ Pending(i)' = 0
      BY <1>1, <2>1 DEF Pending
    <3>3. CASE i = known
      <4>1. /\ Entry(i).count = owners[i + 1] /\ owners[i + 1] > 0
            /\ i \in DOMAIN files /\ files[i] = Entry(i).hash
        BY <1>2, <3>1, <3>2, <3>3 DEF EntryAgrees
      <4>2. /\ Entry(i)'.count = Entry(i).count + 1 /\ owners'[i + 1] = owners[i + 1] + 1
            /\ told'[i + 1] = c /\ Entry(i)'.hash = Entry(i).hash /\ Entry(i).hash = c
        BY <1>2, <1>5, <1>6, <3>3
      <4>3. Entry(i)'.count = owners'[i + 1] + Pending(i)' /\ owners'[i + 1] > 0
        BY <3>1, <3>2, <4>1, <4>2
      <4> QED BY <1>1, <4>1, <4>2, <4>3 DEF EntryAgrees
    <3>4. CASE i # known
      BY <1>1, <1>5, <1>6, <3>1, <3>2, <3>4 DEF EntryAgrees
    <3> QED BY <3>3, <3>4
  <2> QED BY <1>1, <1>5, <2>1, <2>2 DEF Agree, StepAgrees
<1> QED BY <1>7, <1>8, <1>9, <1>10 DEF FInv

\* The hash of a new content keeps it: behind whole entries it waits for its
\* count, behind a torn one it completes an entry that no scan takes for it.
LEMMA WriteNewStep ==
  ASSUME FInv, NEW c \in Hashes, WriteNew(c)
  PROVE  FInv'
<1>1. /\ TypeOK /\ OneLiveEntry /\ TornIsUnknown
      /\ pc = "idle" /\ ScanEnds(c) /\ Scanned(c) = {} /\ AppendHash(c)
      /\ pc' = "count" /\ file_id' = NewId /\ input' = c /\ UNCHANGED files
      /\ mishaps' = mishaps \cup {m \in {"unreadable"} : c = NoContent}
      /\ ntasks \in Nat /\ ntasks' = ntasks + 1
  BY DEF FInv, WriteNew, NewTask, HashInput, TypeOK
<1>2. /\ Len(entries) \in Nat /\ NewId = Len(entries) /\ DOMAIN files \subseteq Ids
      /\ mishaps' \subseteq {"crash", "unreadable", "undefined"}
  BY <1>1 DEF TypeOK, NewId
<1>3. CASE tail.len = 0 /\ Lengthen([len |-> 5, hash |-> c])
  <2>1. tail' = [len |-> 5, hash |-> c] /\ UNCHANGED <<entries, told, owners>>
    BY <1>3 DEF Lengthen, history
  <2>2. tail' \in [len : 0..5, hash : Hashes \cup {Mixed}] /\ tail'.len = 5 /\ tail'.hash = c
    BY <2>1
  <2>3. Ids' = Ids /\ \A i \in Ids : Entry(i)' = Entry(i)
    BY <2>1 DEF Ids, Entry
  <2>4. TypeOK'
    BY <1>1, <1>2, <2>1, <2>2, <2>3 DEF TypeOK
  <2>5. OneLiveEntry'
    BY <1>1, <2>3 DEF OneLiveEntry
  <2>6. SaveInHand'
    BY <1>1, <1>2, <2>1, <2>2 DEF SaveInHand
  <2>7. TornIsUnknown'
    BY <1>1, <2>2, <2>3, NothingScanned DEF TornIsUnknown
  <2>8. ASSUME Unharmed', ~TrailingSlash PROVE Agree'
    <3>1. Unharmed /\ c # NoContent /\ c \in Contents
      BY <1>1, <2>8 DEF Unharmed, Hashes
    <3>2. \A i \in Ids : EntryAgrees(i)
      BY <2>8, <3>1 DEF FInv, Agree
    <3>3. ASSUME NEW i \in Ids PROVE EntryAgrees(i)'
      BY <1>1, <2>1, <2>3, <3>2, <3>3 DEF EntryAgrees, Pending
    <3>4. StepAgrees'
      BY <1>1, <2>1, <3>1 DEF StepAgrees
    <3> QED BY <2>3, <3>3, <3>4 DEF Agree
  <2> QED BY <2>4, <2>5, <2>6, <2>7, <2>8 DEF FInv
<1>4. ASSUME NEW n \in HashCounts, tail.len > 0,
             Grow([hash |-> tail.hash, count |-> n], [len |-> tail.len - 1, hash |-> Mixed])
      PROVE  FInv'
  <2> DEFINE e == [hash |-> tail.hash, count |-> n]
             left == [len |-> tail.len - 1, hash |-> Mixed]
  <2>1. e \in EntryType /\ e.hash = tail.hash
    BY <1>1, TailTyped, FullFileAssumption DEF EntryType
  <2>2. /\ left \in [len : 0..5, hash : Hashes \cup {Mixed}]
        /\ left.len = tail.len - 1 /\ left.len < 5 /\ left.hash = Mixed
    BY <1>1, <1>4, TailTyped
  <2>3. Grow(e, left) /\ tail' = left
    BY <1>4 DEF Grow
  <2> HIDE DEF e, left
  <2>4. /\ entries' \in Seq(EntryType) /\ Len(entries') = Len(entries) + 1
        /\ told' \in Seq(Hashes) /\ owners' \in Seq(Nat)
        /\ Len(told') = Len(entries') /\ Len(owners') = Len(entries')
        /\ Ids' = Ids \cup {NewId}
    BY <1>1, <2>1, <2>3, EntryAppears
  <2>5. TypeOK'
    <3>1. file_id' \in -1..Len(entries') /\ DOMAIN files' \subseteq Ids'
      BY <1>1, <1>2, <2>4
    <3>2. tail' \in [len : 0..5, hash : Hashes \cup {Mixed}] /\ tail'.hash = Mixed
      BY <2>2, <2>3
    <3> QED BY <1>1, <1>2, <2>4, <3>1, <3>2 DEF TypeOK, EntryType
  <2>6. OneLiveEntry'
    BY <1>1, <2>1, <2>3, NewEntryAlone DEF TornIsUnknown
  <2>7. SaveInHand'
    BY <1>1, <1>2, <2>2, <2>3, <2>4 DEF SaveInHand
  <2>8. TornIsUnknown'
    BY <2>2, <2>3 DEF TornIsUnknown
  <2>9. ~Unharmed' \/ TrailingSlash
    <3>1. Agree => tail = NoTail
      BY <1>1 DEF Agree, StepAgrees
    <3>2. ~(Unharmed /\ ~TrailingSlash)
      BY <1>4, <3>1 DEF FInv, NoTail
    <3> QED BY <1>1, <3>2 DEF Unharmed
  <2> QED BY <2>5, <2>6, <2>7, <2>8, <2>9 DEF FInv
<1> QED BY <1>1, <1>3, <1>4 DEF AppendHash

\* The count behind it makes the entry of the content, which no other live one
\* has, or lies out of step.
LEMMA WriteCountStep ==
  ASSUME FInv, WriteCount
  PROVE  FInv'
<1>1. /\ TypeOK /\ OneLiveEntry /\ TornIsUnknown /\ SaveInHand
      /\ pc = "count" /\ pc' = "save" /\ AppendCount
      /\ UNCHANGED <<files, file_id, input, ntasks, mishaps>>
      /\ Len(entries) \in Nat /\ NewId = Len(entries) /\ DOMAIN files \subseteq Ids
  BY DEF FInv, WriteCount, TypeOK, NewId
<1>2. CASE tail.len = 5 /\ Grow([hash |-> tail.hash, count |-> 1], NoTail)
  <2> DEFINE e == [hash |-> tail.hash, count |-> 1]
  <2>1. e \in EntryType /\ e.hash = tail.hash /\ e.count = 1
    BY <1>1, TailTyped DEF EntryType
  <2>2. /\ NoTail \in [len : 0..5, hash : Hashes \cup {Mixed}]
        /\ NoTail.len = 0 /\ NoTail.hash = Mixed
    BY DEF NoTail
  <2>3. Grow(e, NoTail) /\ tail' = NoTail
    BY <1>2 DEF Grow
  <2> HIDE DEF e
  <2>4. /\ entries' \in Seq(EntryType) /\ Len(entries') = Len(entries) + 1
        /\ told' \in Seq(Hashes) /\ owners' \in Seq(Nat)
        /\ Len(told') = Len(entries') /\ Len(owners') = Len(entries')
        /\ Ids' = Ids \cup {NewId} /\ NewId \notin Ids
        /\ \A i \in Ids : /\ Entry(i)' = Entry(i) /\ owners'[i + 1] = owners[i + 1]
                          /\ told'[i + 1] = told[i + 1]
        /\ entries'[NewId + 1] = e /\ owners'[NewId + 1] = 0
    BY <1>1, <2>1, <2>3, EntryAppears
  <2>5. TypeOK'
    BY <1>1, <2>2, <2>3, <2>4 DEF TypeOK, EntryType
  <2>6. OneLiveEntry'
    BY <1>1, <2>1, <2>3, NewEntryAlone DEF TornIsUnknown
  <2>7. SaveInHand' /\ file_id = NewId
    BY <1>1, <1>2, <2>4 DEF SaveInHand
  <2>8. TornIsUnknown'
    BY <2>2, <2>3 DEF TornIsUnknown
  <2>9. ASSUME Unharmed', ~TrailingSlash PROVE Agree'
    <3>1. StepAgrees /\ \A i \in Ids : EntryAgrees(i)
      BY <1>1, <2>9 DEF FInv, Agree, Unharmed
    <3>2. tail.hash = input /\ input \in Contents
      BY <1>1, <3>1 DEF StepAgrees
    <3>3. ASSUME NEW i \in Ids PROVE EntryAgrees(i)'
      <4>1. Pending(i) = 0 /\ Pending(i)' = 0
        BY <1>1, <2>4, <2>7 DEF Pending
      <4> QED BY <1>1, <2>4, <3>1, <4>1 DEF EntryAgrees
    <3>4. ASSUME NEW i, i = NewId PROVE EntryAgrees(i)'
      <4>1. Pending(i)' = 1 /\ i \notin DOMAIN files'
        BY <1>1, <2>4, <2>7, <3>4 DEF Pending
      <4> QED BY <2>1, <2>4, <3>4, <4>1 DEF EntryAgrees, Entry
    <3>5. StepAgrees'
      BY <1>1, <2>1, <2>3, <2>4, <2>7, <3>2 DEF StepAgrees, Entry
    <3> QED BY <2>4, <3>3, <3>4, <3>5 DEF Agree
  <2> QED BY <2>5, <2>6, <2>7, <2>8, <2>9 DEF FInv
<1>3. CASE tail.len < 5 /\ Lengthen([len |-> tail.len + 1, hash |-> Mixed])
  <2>1. tail' = [len |-> tail.len + 1, hash |-> Mixed] /\ UNCHANGED <<entries, told, owners>>
    BY <1>3 DEF Lengthen, history
  <2>2. tail' \in [len : 0..5, hash : Hashes \cup {Mixed}] /\ tail'.hash = Mixed
    BY <1>1, <1>3, <2>1, TailTyped
  <2>3. Ids' = Ids /\ \A i \in Ids : Entry(i)' = Entry(i)
    BY <2>1 DEF Ids, Entry
  <2>4. TypeOK'
    BY <1>1, <2>1, <2>2, <2>3 DEF TypeOK
  <2>5. OneLiveEntry'
    BY <1>1, <2>3 DEF OneLiveEntry
  <2>6. SaveInHand' /\ TornIsUnknown'
    BY <1>1, <1>3, <2>1, <2>2 DEF SaveInHand, TornIsUnknown
  <2>7. ~Unharmed' \/ TrailingSlash
    <3>1. Agree => tail = [len |-> 5, hash |-> input]
      BY <1>1 DEF Agree, StepAgrees
    <3>2. ~(Unharmed /\ ~TrailingSlash)
      BY <1>3, <3>1 DEF FInv
    <3> QED BY <1>1, <3>2 DEF Unharmed
  <2> QED BY <2>4, <2>5, <2>6, <2>7 DEF FInv
<1> QED BY <1>1, <1>2, <1>3 DEF AppendCount

\* The file that is saved is the one its entry waits for.
LEMMA SaveFileStep ==
  ASSUME FInv, SaveFile
  PROVE  FInv'
<1>1. /\ TypeOK /\ OneLiveEntry /\ pc = "save" /\ file_id \in Ids /\ input \in Hashes
      /\ files' = Put(files, file_id, Saved) /\ Saved \in Contents /\ Tell(file_id, input)
      /\ pc' = "idle" /\ file_id' = -1 /\ input' = NoContent
      /\ UNCHANGED <<entries, tail, ntasks, mishaps>>
  <2>1. /\ TypeOK /\ OneLiveEntry /\ SaveInHand /\ SaveFile
    BY DEF FInv
  <2>2. file_id \in Ids /\ input \in Hashes
    BY <2>1 DEF TypeOK, SaveInHand, SaveFile, Ids
  <2>3. Saved \in Contents
    BY <2>2, FullFileAssumption DEF Saved, Hashes
  <2> QED BY <2>1, <2>2, <2>3 DEF SaveFile, Idle
<1>2. /\ told' \in Seq(Hashes) /\ owners' \in Seq(Nat)
      /\ Len(told') = Len(told) /\ Len(owners') = Len(owners)
      /\ \A i \in Ids : /\ owners'[i + 1] = IF i = file_id THEN owners[i + 1] + 1
                                                           ELSE owners[i + 1]
                        /\ told'[i + 1] = IF i = file_id THEN input ELSE told[i + 1]
  BY <1>1, TellChanges
<1>3. /\ DOMAIN files' = DOMAIN files \cup {file_id}
      /\ \A i \in DOMAIN files' : files'[i] = IF i = file_id THEN Saved ELSE files[i]
      /\ files' \in [DOMAIN files' -> Contents]
  BY <1>1 DEF Put, TypeOK
<1>4. Ids' = Ids /\ \A i \in Ids : Entry(i)' = Entry(i)
  BY <1>1 DEF Ids, Entry
<1>5. TypeOK'
  BY <1>1, <1>2, <1>3, <1>4 DEF TypeOK, Hashes
<1>6. OneLiveEntry' /\ TornIsUnknown'
  BY <1>1, <1>4 DEF FInv, OneLiveEntry, TornIsUnknown
<1>7. SaveInHand'
  BY <1>1 DEF SaveInHand
<1>8. ASSUME Unharmed', ~TrailingSlash PROVE Agree'
  <2>1. StepAgrees /\ \A i \in Ids : EntryAgrees(i)
    BY <1>1, <1>8 DEF FInv, Agree, Unharmed
  <2>2. ASSUME NEW i \in Ids PROVE EntryAgrees(i)'
    <3>1. Entry(i).count \in Nat /\ owners[i + 1] \in Nat /\ EntryAgrees(i)
      BY <1>1, <2>1, IdsTyped
    <3>2. Pending(i) = (IF i = file_id THEN 1 ELSE 0) /\ Pending(i)' = 0
      BY <1>1 DEF Pending
    <3>3. CASE i = file_id
      <4>1. Saved = input /\ input = Entry(i).hash /\ owners[i + 1] = 0
        BY <1>1, <2>1, <3>3, FullFileAssumption DEF StepAgrees, Saved
      <4> QED BY <1>1, <1>2, <1>3, <1>4, <3>1, <3>2, <3>3, <4>1 DEF EntryAgrees
    <3>4. CASE i # file_id
      BY <1>1, <1>2, <1>3, <1>4, <3>1, <3>2, <3>4 DEF EntryAgrees
    <3> QED BY <3>3, <3>4
  <2> QED BY <1>1, <1>4, <2>1, <2>2 DEF Agree, StepAgrees
<1> QED BY <1>5, <1>6, <1>7, <1>8 DEF FInv

\* While ids, counts and files agree, a delete finds the entry of its id if
\* that has owners, and no entry if not.
LEMMA DeleteFindsOwn ==
  ASSUME FInv, Agree, ~TrailingSlash, pc = "idle",
         NEW id \in Ids, ScanEnds(StoredHash(id))
  PROVE  /\ Scanned(StoredHash(id)) # {} => First(Scanned(StoredHash(id))) = id
         /\ Scanned(StoredHash(id)) = {} => owners[id + 1] = 0
<1>1. /\ TypeOK /\ OneLiveEntry /\ EntryAgrees(id) /\ Pending(id) = 0
      /\ Entry(id).count \in Nat /\ owners[id + 1] \in Nat
      /\ StoredHash(id) \in Hashes /\ StoredHash(id) # Mixed
  BY IdsTyped, StoredHashes, FullFileAssumption DEF FInv, Agree, Pending, Hashes
<1>2. StoredHash(id) = IF id \in DOMAIN files THEN files[id] ELSE NoContent
  BY DEF StoredHash, Name
<1>3. ASSUME Scanned(StoredHash(id)) # {}
      PROVE  First(Scanned(StoredHash(id))) = id
  <2> DEFINE found == First(Scanned(StoredHash(id)))
  <2>1. found \in Ids /\ Entry(found).hash = StoredHash(id) /\ Entry(found).count \in Nat \ {0}
    BY <1>1, <1>3, FirstIsScanned
  <2>2. found \in DOMAIN files /\ files[found] = StoredHash(id)
    BY <2>1, IdsTyped DEF FInv, Agree, EntryAgrees, Pending
  <2>3. id \in DOMAIN files
    BY <1>1, <1>2, <2>2, FullFileAssumption DEF TypeOK
  <2>4. StoredHash(id) = Entry(id).hash /\ Entry(id).count > 0
    BY <1>1, <1>2, <2>3 DEF EntryAgrees
  <2> QED BY <1>1, <2>1, <2>4 DEF OneLiveEntry
<1>4. ASSUME Scanned(StoredHash(id)) = {} PROVE owners[id + 1] = 0
  <2>1. Entry(id).hash = StoredHash(id) => Entry(id).count = 0
    BY <1>1, <1>4, NothingScanned
  <2> QED BY <1>1, <1>2, <2>1 DEF EntryAgrees
<1> QED BY <1>3, <1>4

\* A delete up to the count keeps the invariant.
LEMMA DeleteCountStep ==
  ASSUME FInv, NEW id \in Ids, DeleteCount(id)
  PROVE  FInv'
<1> DEFINE found == First(Scanned(StoredHash(id)))
<1>1. /\ TypeOK /\ OneLiveEntry /\ pc = "idle" /\ ScanEnds(StoredHash(id)) /\ GiveUp(id)
      /\ file_id' = (IF pc' = "remove" THEN Name(id) ELSE -1)
      /\ UNCHANGED <<tail, files, input, told, mishaps>>
      /\ ntasks \in Nat /\ ntasks' = ntasks + 1 /\ StoredHash(id) \in Hashes
  BY StoredHashes DEF FInv, DeleteCount, NewTask, TypeOK
<1>2. /\ owners' \in Seq(Nat) /\ Len(owners') = Len(owners)
      /\ \A i \in Ids : owners'[i + 1] =
           IF i = id /\ owners[i + 1] > 0 THEN owners[i + 1] - 1 ELSE owners[i + 1]
  BY <1>1, GiveUpChanges
<1>3. CASE Scanned(StoredHash(id)) = {}
  <2>1. pc' = "remove" /\ UNCHANGED entries
    BY <1>3 DEF DeleteCount
  <2>2. Ids' = Ids /\ \A i \in Ids : Entry(i)' = Entry(i)
    BY <2>1 DEF Ids, Entry
  <2>3. TypeOK'
    <3>1. file_id' \in -1..Len(entries)
      BY <1>1, <2>1 DEF Name, Ids, TypeOK
    <3> QED BY <1>1, <1>2, <2>1, <2>2, <3>1 DEF TypeOK
  <2>4. OneLiveEntry' /\ SaveInHand' /\ TornIsUnknown'
    BY <1>1, <2>1, <2>2 DEF FInv, OneLiveEntry, SaveInHand, TornIsUnknown
  <2>5. ASSUME Unharmed', ~TrailingSlash PROVE Agree'
    <3>1. Agree /\ owners[id + 1] = 0 /\ Name(id) = id
      BY <1>1, <1>3, <2>5, DeleteFindsOwn DEF FInv, Name, Unharmed
    <3>2. \A i \in Ids : owners'[i + 1] = owners[i + 1]
      BY <1>2, <3>1
    <3>3. ASSUME NEW i \in Ids PROVE EntryAgrees(i)'
      <4>1. EntryAgrees(i) /\ Pending(i) = 0 /\ Pending(i)' = 0
        BY <1>1, <2>1, <3>1 DEF Agree, Pending
      <4> QED BY <1>1, <2>2, <3>2, <4>1 DEF EntryAgrees
    <3> QED BY <1>1, <2>1, <2>2, <3>1, <3>2, <3>3 DEF Agree, StepAgrees
  <2> QED BY <2>3, <2>4, <2>5 DEF FInv
<1>4. CASE Scanned(StoredHash(id)) # {}
  <2>1. file_uint32chg(found, -1) /\ pc' = (IF LastReference(found) THEN "remove" ELSE "idle")
    BY <1>4 DEF DeleteCount
  <2>2. found \in Ids /\ Entry(found).count \in Nat \ {0}
    BY <1>1, <1>4, FirstIsScanned
  <2>3. ~TrailingSlash /\ Unharmed => Agree /\ found = id
    BY <1>1, <1>4, DeleteFindsOwn DEF FInv
  <2> HIDE DEF found
  <2>4. Entry(found).count + (-1) \in Nat
    BY <2>2
  <2>5. /\ entries' \in Seq(EntryType) /\ Len(entries') = Len(entries) /\ Ids' = Ids
        /\ \A i \in Ids : /\ Entry(i)'.hash = Entry(i).hash
                          /\ Entry(i)'.count = IF i = found THEN Entry(found).count + (-1)
                                                            ELSE Entry(i).count
    BY <1>1, <2>1, <2>2, <2>4, CountChanges
  <2>6. TypeOK'
    <3>1. file_id' \in -1..Len(entries)
      BY <1>1 DEF Name, Ids, TypeOK
    <3>2. pc' \in {"idle", "remove"}
      BY <2>1
    <3> QED BY <1>1, <1>2, <2>5, <3>1, <3>2 DEF TypeOK, EntryType
  <2>7. OneLiveEntry'
    <3>1. \A i \in Ids : Entry(i)'.count > 0 => Entry(i).count > 0
      BY <2>2, <2>5
    <3> QED BY <1>1, <2>5, <3>1 DEF OneLiveEntry
  <2>8. SaveInHand' /\ TornIsUnknown'
    <3>1. \A i \in Ids : Entry(i).count = 0 => Entry(i)'.count = 0
      BY <2>2, <2>5
    <3> QED BY <1>1, <2>1, <2>5, <3>1 DEF FInv, SaveInHand, TornIsUnknown
  <2>9. ASSUME Unharmed', ~TrailingSlash PROVE Agree'
    <3>1. Agree /\ found = id /\ Name(id) = id
      BY <1>1, <2>3, <2>9 DEF Name, Unharmed
    <3>2. \A i \in Ids : /\ EntryAgrees(i) /\ Pending(i) = 0 /\ Pending(i)' = 0
                        /\ Entry(i).count \in Nat /\ owners[i + 1] \in Nat
      BY <1>1, <2>1, <3>1, IdsTyped DEF Agree, Pending
    <3>3. owners[id + 1] = Entry(id).count /\ owners'[id + 1] = Entry(id).count - 1
      BY <1>2, <2>2, <3>1, <3>2 DEF EntryAgrees
    <3>4. EntryAgrees(id)'
      <4>1. CASE Entry(id).count = 1
        <5>1. pc' = "remove" /\ file_id' = id
          BY <1>1, <2>1, <3>1, <4>1 DEF LastReference
        <5> QED BY <1>1, <2>5, <3>1, <3>2, <3>3, <4>1, <5>1 DEF EntryAgrees
      <4>2. CASE Entry(id).count # 1
        <5>1. owners'[id + 1] > 0
          BY <2>2, <3>1, <3>3, <4>2
        <5> QED BY <1>1, <2>5, <3>1, <3>2, <3>3, <5>1 DEF EntryAgrees
      <4> QED BY <4>1, <4>2
    <3>5. ASSUME NEW i \in Ids, i # id PROVE EntryAgrees(i)'
      <4>1. owners'[i + 1] = owners[i + 1] /\ Entry(i)'.count = Entry(i).count
        BY <1>2, <2>5, <3>1, <3>5
      <4> QED BY <1>1, <2>5, <3>2, <3>5, <4>1 DEF EntryAgrees
    <3>6. StepAgrees'
      BY <1>1, <2>1, <2>5, <3>1, <3>3 DEF Agree, StepAgrees, LastReference, Name
    <3> QED BY <2>5, <3>4, <3>5, <3>6 DEF Agree
  <2> QED BY <2>6, <2>7, <2>8, <2>9 DEF FInv
<1> QED BY <1>3, <1>4

\* The file that is removed has no owner.
LEMMA RemoveFileStep ==
  ASSUME FInv, RemoveFile
  PROVE  FInv'
<1>1. /\ TypeOK /\ OneLiveEntry /\ pc = "remove" /\ pc' = "idle" /\ file_id' = -1
      /\ input' = NoContent /\ UNCHANGED <<entries, tail, told, owners, ntasks, mishaps>>
  BY DEF FInv, RemoveFile, Idle, history
<1>2. /\ DOMAIN files' = DOMAIN files \ {file_id}
      /\ \A i \in DOMAIN files' : files'[i] = files[i]
      /\ files' \in [DOMAIN files' -> Contents]
  BY <1>1 DEF RemoveFile, Restrict, TypeOK
<1>3. Ids' = Ids /\ \A i \in Ids : Entry(i)' = Entry(i)
  BY <1>1 DEF Ids, Entry
<1>4. TypeOK' /\ OneLiveEntry' /\ SaveInHand' /\ TornIsUnknown'
  BY <1>1, <1>2, <1>3 DEF FInv, TypeOK, OneLiveEntry, SaveInHand, TornIsUnknown, Hashes
<1>5. ASSUME Unharmed', ~TrailingSlash PROVE Agree'
  <2>1. Agree
    BY <1>1, <1>5 DEF FInv, Unharmed
  <2>2. file_id \in Ids /\ owners[file_id + 1] = 0
    BY <1>1, <2>1 DEF Agree, StepAgrees
  <2>3. ASSUME NEW i \in Ids PROVE EntryAgrees(i)'
    <3>1. EntryAgrees(i) /\ Pending(i) = 0 /\ Pending(i)' = 0
      BY <1>1, <2>1 DEF Agree, Pending
    <3> QED BY <1>1, <1>2, <1>3, <2>2, <3>1 DEF EntryAgrees
  <2> QED BY <1>1, <1>3, <2>1, <2>3 DEF Agree, StepAgrees
<1> QED BY <1>4, <1>5 DEF FInv

\* A step that leaves the store alone, but for a death or a stutter, keeps it.
LEMMA QuietStep ==
  ASSUME FInv, UNCHANGED <<entries, tail, files, told, owners>>, ntasks' \in Nat,
         \/ Crash
         \/ UNCHANGED <<pc, file_id, input>> /\ mishaps' \in {mishaps, mishaps \cup {"undefined"}}
  PROVE  FInv'
<1>1. Ids' = Ids /\ \A i \in Ids : Entry(i)' = Entry(i)
  BY DEF Ids, Entry
<1>2. TypeOK' /\ OneLiveEntry' /\ SaveInHand' /\ TornIsUnknown'
  BY <1>1 DEF FInv, TypeOK, OneLiveEntry, SaveInHand, TornIsUnknown, Crash, Idle, Hashes
<1>3. ASSUME Unharmed', ~TrailingSlash PROVE Agree'
  <2>1. Agree /\ UNCHANGED <<pc, file_id, input>>
    BY <1>3 DEF FInv, Crash, Unharmed
  <2>2. ASSUME NEW i \in Ids PROVE EntryAgrees(i)'
    BY <1>1, <2>1, <2>2 DEF Agree, EntryAgrees, Pending
  <2> QED BY <1>1, <2>1, <2>2 DEF Agree, StepAgrees, Entry
<1> QED BY <1>2, <1>3 DEF FInv

-------------------------------------------------------------------------------
\* Ids, counts and files agree until a process dies or an input cannot be opened,
\* and no content is live twice ever: the invariant of the store of full files,
\* with deaths anywhere and any number of tasks.
THEOREM FullFileInv == Spec => []FInv
<1>1. Init => FInv
  BY FullFileAssumption
     DEF Init, FInv, TypeOK, OneLiveEntry, SaveInHand, TornIsUnknown, Agree, StepAgrees,
         Ids, NoTail, Hashes
<1>2. FInv /\ [Next]_vars => FInv'
  <2> SUFFICES ASSUME FInv, [Next]_vars PROVE FInv'
    OBVIOUS
  <2>1. ntasks \in Nat
    BY DEF FInv, TypeOK
  <2>2. ASSUME NEW c \in Hashes, WriteKnown(c) PROVE FInv'
    BY <2>2, WriteKnownStep
  <2>3. ASSUME NEW c \in Hashes, WriteNew(c) PROVE FInv'
    BY <2>3, WriteNewStep
  <2>4. ASSUME NEW id \in Ids, DeleteCount(id) PROVE FInv'
    BY <2>4, DeleteCountStep
  <2>5. CASE SaveFile
    BY <2>5, SaveFileStep
  <2>6. CASE RemoveFile
    BY <2>6, RemoveFileStep
  <2>7. CASE ScanUndefined
    BY <2>1, <2>7, QuietStep DEF ScanUndefined, NewTask, store, history
  <2>8. CASE Crash
    BY <2>1, <2>8, QuietStep DEF Crash, store, history
  <2>9. CASE UNCHANGED vars
    BY <2>1, <2>9, QuietStep DEF vars, store, history
  <2>10. CASE WriteCount
    BY <2>10, WriteCountStep
  <2> QED BY <2>2, <2>3, <2>4, <2>5, <2>6, <2>7, <2>8, <2>9, <2>10 DEF Next
<1> QED BY <1>1, <1>2, PTL DEF Spec

\* No scan has two entries of a content to choose from, whatever dies, between
\* the two writes of insert_hash too (the scans of scan_and_insert_hash and
\* scan_and_delete_hash stop at the first match).
THEOREM OneLiveEntryHolds == Spec => []OneLiveEntry
<1>1. FInv => OneLiveEntry
  BY DEF FInv
<1> QED BY <1>1, FullFileInv, PTL

\* Without deaths and inputs that cannot be opened, the counts are the numbers of
\* owners, and the directory holds exactly the files that have some.
THEOREM CountsAndFilesAgreeHolds ==
  ASSUME ~TrailingSlash
  PROVE  Spec => []CountsAndFilesAgree
<1>1. FInv => CountsAndFilesAgree
  <2> SUFFICES ASSUME FInv, pc = "idle", Unharmed
               PROVE  /\ \A id \in Ids : Entry(id).count = owners[id + 1]
                      /\ DOMAIN files = {id \in Ids : owners[id + 1] > 0}
    BY DEF CountsAndFilesAgree
  <2>1. \A id \in Ids : EntryAgrees(id) /\ Pending(id) = 0 /\ owners[id + 1] \in Nat
    BY IdsTyped DEF FInv, Agree, Pending
  <2>2. DOMAIN files \subseteq Ids
    BY DEF FInv, TypeOK
  <2>3. ASSUME NEW id \in Ids
        PROVE  Entry(id).count = owners[id + 1] /\ (id \in DOMAIN files <=> owners[id + 1] > 0)
    BY <2>1 DEF EntryAgrees
  <2> QED BY <2>2, <2>3
<1> QED BY <1>1, FullFileInv, PTL

\* Before the first death or unreadable input an id that was given out and is
\* still held restores to the content it was given for.
THEOREM HeldUntilCrashHolds ==
  ASSUME ~TrailingSlash
  PROVE  Spec => []HeldUntilCrash
<1>1. FInv => HeldUntilCrash
  BY DEF FInv, Agree, EntryAgrees, HeldUntilCrash, HeldRestorable, Name
<1> QED BY <1>1, FullFileInv, PTL

-------------------------------------------------------------------------------
(***************************************************************************)
(* The refinement: the store is a FileLibrary until something goes wrong.  *)
(***************************************************************************)
\* Between two tasks every file is in use, and the entry of a live one has it.
LEMMA IdleFiles ==
  ASSUME FInv, Agree, pc = "idle"
  PROVE  /\ InUse = DOMAIN files /\ InUse \subseteq Ids
         /\ \A id \in Ids : /\ id \in InUse <=> Entry(id).count > 0
                            /\ id \in InUse => files[id] = Entry(id).hash
<1>1. InUse = DOMAIN files /\ InUse \subseteq Ids
  BY DEF InUse, FInv, TypeOK
<1>2. ASSUME NEW id \in Ids
      PROVE  /\ id \in InUse <=> Entry(id).count > 0
             /\ id \in InUse => files[id] = Entry(id).hash
  <2>1. EntryAgrees(id) /\ Pending(id) = 0 /\ owners[id + 1] \in Nat
    BY IdsTyped DEF FInv, Agree, Pending
  <2> QED BY <1>1, <2>1 DEF EntryAgrees
<1> QED BY <1>1, <1>2

\* What is held at a moment: the numbers in use with their contents and counts.
LEMMA HeldParts ==
  /\ DOMAIN Held = InUse
  /\ \A id \in InUse : /\ Held[id] = [content |-> files[id], count |-> Entry(id).count]
                       /\ Held[id].content = files[id] /\ Held[id].count = Entry(id).count
BY DEF Held

\* A step that leaves the files in use and their counts alone is no step of
\* the library.
LEMMA HeldStays ==
  ASSUME InUse' = InUse,
         \A id \in InUse : files'[id] = files[id] /\ Entry(id)'.count = Entry(id).count
  PROVE  Held' = Held
BY DEF Held

\* A count that changes by one is the abstract step on that number.
LEMMA HeldCounts ==
  ASSUME NEW id \in InUse, NEW delta \in Int, InUse' = InUse, UNCHANGED files,
         \A i \in InUse : Entry(i)'.count = IF i = id THEN Entry(id).count + delta
                                                      ELSE Entry(i).count
  PROVE  Held' = [Held EXCEPT ![id].count = @ + delta]
<1> DEFINE new(i) == [content |-> files[i], count |-> Entry(i)'.count]
           old(i) == [content |-> files[i], count |-> Entry(i).count]
<1>1. Held = [i \in InUse |-> old(i)] /\ Held' = [i \in InUse |-> new(i)]
  BY DEF Held
<1>2. \A i \in InUse : i # id => new(i) = old(i)
  OBVIOUS
<1>3. new(id) = [old(id) EXCEPT !.count = @ + delta]
  <2>1. Entry(id)'.count = Entry(id).count + delta
    OBVIOUS
  <2> QED BY <2>1
<1> HIDE DEF new, old
<1> QED BY <1>1, <1>2, <1>3

\* A write of a content that is held gives out the number it has.
LEMMA WriteKnownImplements ==
  ASSUME FInv, Agree, Unharmed', NEW c \in Hashes, WriteKnown(c)
  PROVE  Library!Next
<1> DEFINE known == First(Scanned(c))
<1>1. /\ TypeOK /\ OneLiveEntry /\ Scanned(c) # {} /\ pc = "idle"
      /\ UNCHANGED <<files, pc, file_id>> /\ file_uint32chg(known, 1)
      /\ UNCHANGED Unharmed
  BY DEF FInv, WriteKnown, NewTask, HashInput, Unharmed
<1>2. known \in Ids /\ Entry(known).count \in Nat \ {0}
  BY <1>1, FirstIsScanned
<1> HIDE DEF known
<1>3. /\ Len(entries') = Len(entries)
      /\ \A i \in Ids : Entry(i)'.count = IF i = known THEN Entry(known).count + 1
                                                       ELSE Entry(i).count
  BY <1>1, <1>2, CountChanges
<1>4. known \in InUse /\ InUse \subseteq Ids
  BY <1>1, <1>2, IdleFiles
<1>5. InUse' = InUse
  BY <1>1 DEF InUse
<1>6. Held' = [Held EXCEPT ![known].count = @ + 1]
  BY <1>1, <1>3, <1>4, <1>5, HeldCounts
<1>7. Issued' = Issued
  BY <1>1, <1>3 DEF Issued
<1>8. Library!StoreAgain(known) /\ known \in DOMAIN Held
  BY <1>4, <1>6, <1>7, HeldParts DEF Library!StoreAgain
<1> QED BY <1>1, <1>8 DEF Library!Next

\* The hash of a new content waits for its count.
LEMMA WriteNewImplements ==
  ASSUME FInv, Agree, NEW c \in Hashes, WriteNew(c)
  PROVE  UNCHANGED <<Held, Issued>>
<1>1. /\ pc = "idle" /\ pc' = "count" /\ UNCHANGED files /\ tail.len = 0 /\ AppendHash(c)
  BY DEF WriteNew, NewTask, Agree, StepAgrees, NoTail
<1>2. UNCHANGED entries
  BY <1>1 DEF AppendHash, Lengthen
<1>3. InUse' = InUse
  BY <1>1 DEF InUse
<1> QED BY <1>1, <1>2, <1>3, HeldStays DEF Issued, Entry

\* The entry of a new content is not visible before its file is there.
LEMMA WriteCountImplements ==
  ASSUME FInv, Agree, WriteCount
  PROVE  UNCHANGED <<Held, Issued>>
<1>1. /\ TypeOK /\ pc = "count" /\ pc' = "save" /\ UNCHANGED files /\ AppendCount
      /\ Len(entries) \in Nat /\ DOMAIN files \subseteq Ids /\ tail.len = 5
  BY DEF FInv, WriteCount, TypeOK, Agree, StepAgrees
<1>2. Grow([hash |-> tail.hash, count |-> 1], NoTail)
  BY <1>1 DEF AppendCount
<1>3. [hash |-> tail.hash, count |-> 1] \in EntryType
  BY <1>1, TailTyped DEF EntryType
<1>4. Len(entries') = Len(entries) + 1 /\ \A i \in Ids : Entry(i)' = Entry(i)
  BY <1>1, <1>2, <1>3, EntryAppears
<1>5. InUse' = InUse /\ InUse \subseteq Ids
  BY <1>1 DEF InUse
<1>6. Held' = Held
  BY <1>1, <1>4, <1>5, HeldStays
<1>7. Issued' = Issued
  BY <1>1, <1>4 DEF Issued
<1> QED BY <1>6, <1>7

\* The save gives out the next number, for a content nobody holds: a file with
\* the same content would have a second live entry.
LEMMA SaveFileImplements ==
  ASSUME FInv, Agree, SaveFile
  PROVE  Library!Next
<1>1. /\ TypeOK /\ OneLiveEntry /\ pc = "save" /\ pc' = "idle"
      /\ UNCHANGED <<entries, mishaps>> /\ files' = Put(files, file_id, Saved)
      /\ Len(entries) \in Nat /\ DOMAIN files \subseteq Ids /\ file_id \in -1..Len(entries)
  BY DEF FInv, SaveFile, Idle, TypeOK
<1>2. /\ file_id \in Ids /\ file_id = Len(entries) - 1 /\ input \in Contents
      /\ owners[file_id + 1] = 0 /\ input = Entry(file_id).hash
      /\ Saved = input /\ input # Mixed
  BY <1>1, FullFileAssumption DEF FInv, SaveInHand, Agree, StepAgrees, Saved, Ids
<1>3. Entry(file_id).count = 1
  <2>1. EntryAgrees(file_id) /\ Pending(file_id) = 1
    BY <1>1, <1>2 DEF Agree, Pending
  <2> QED BY <1>2, <2>1 DEF EntryAgrees
<1>4. \A i \in DOMAIN files : owners[i + 1] > 0 /\ files[i] = Entry(i).hash
  BY <1>1 DEF Agree, EntryAgrees
<1>5. Issued = file_id /\ Issued' = Issued + 1
  BY <1>1, <1>2 DEF Issued
<1>6. InUse = DOMAIN files /\ InUse' = DOMAIN files \cup {file_id}
  BY <1>1 DEF InUse, Put
<1>7. ASSUME NEW i \in DOMAIN files PROVE Held[i].content # input
  <2>1. i \in Ids /\ owners[i + 1] > 0 /\ files[i] = Entry(i).hash
    BY <1>1, <1>4, <1>7
  <2>2. i # file_id
    BY <1>2, <2>1
  <2>3. Entry(i).count > 0
    <3>1. EntryAgrees(i) /\ Pending(i) = 0 /\ owners[i + 1] \in Nat
      BY <1>1, <2>1, <2>2, IdsTyped DEF Agree, Pending
    <3> QED BY <2>1, <3>1 DEF EntryAgrees
  <2>4. Entry(i).hash # Entry(file_id).hash
    BY <1>1, <1>2, <1>3, <2>1, <2>2, <2>3 DEF OneLiveEntry
  <2> QED BY <1>2, <1>6, <1>7, <2>1, <2>4, HeldParts
<1>8. Held' = [i \in DOMAIN Held \cup {Issued} |->
                 IF i = Issued THEN [content |-> input, count |-> 1] ELSE Held[i]]
  <2>1. Held' = [i \in InUse' |-> [content |-> files'[i], count |-> Entry(i).count]]
    BY <1>1 DEF Held, Entry
  <2>2. ASSUME NEW i \in InUse'
        PROVE  [content |-> files'[i], count |-> Entry(i).count] =
                 IF i = Issued THEN [content |-> input, count |-> 1] ELSE Held[i]
    <3>1. files'[i] = IF i = file_id THEN input ELSE files[i]
      BY <1>1, <1>2, <1>6 DEF Put
    <3> QED BY <1>3, <1>5, <1>6, <3>1, HeldParts
  <2>3. InUse' = DOMAIN Held \cup {Issued}
    BY <1>5, <1>6, HeldParts
  <2> QED BY <2>1, <2>2, <2>3
<1>9. Library!StoreNew(input)
  BY <1>5, <1>6, <1>7, <1>8, HeldParts DEF Library!StoreNew
<1> QED BY <1>1, <1>2, <1>9 DEF Library!Next, Unharmed

\* A delete gives up the number it names, or nothing if nobody holds that.
LEMMA DeleteCountImplements ==
  ASSUME FInv, Agree, ~TrailingSlash, NEW id \in Ids, DeleteCount(id)
  PROVE  Library!Next \/ UNCHANGED Library!vars
<1>1. /\ TypeOK /\ pc = "idle" /\ ScanEnds(StoredHash(id)) /\ Name(id) = id
      /\ file_id' = (IF pc' = "remove" THEN id ELSE -1) /\ UNCHANGED <<files, mishaps>>
  BY DEF FInv, DeleteCount, NewTask, Name
<1>2. /\ InUse = DOMAIN files /\ InUse \subseteq Ids
      /\ id \in InUse <=> Entry(id).count > 0
  BY <1>1, IdleFiles
<1>3. CASE Scanned(StoredHash(id)) = {}
  <2>1. pc' = "remove" /\ UNCHANGED entries /\ owners[id + 1] = 0
    BY <1>1, <1>3, DeleteFindsOwn DEF DeleteCount
  <2>2. id \notin InUse
    <3>1. EntryAgrees(id) /\ Pending(id) = 0
      BY <1>1 DEF Agree, Pending
    <3> QED BY <1>2, <2>1, <3>1 DEF EntryAgrees
  <2>3. InUse' = InUse
    BY <1>1, <1>2, <2>1, <2>2 DEF InUse
  <2>4. Held' = Held
    BY <1>1, <2>1, <2>3, HeldStays DEF Entry
  <2>5. Issued' = Issued
    BY <1>1, <2>1 DEF Issued
  <2> QED BY <1>1, <2>4, <2>5 DEF Library!vars, Unharmed
<1>4. CASE Scanned(StoredHash(id)) # {}
  <2>1. First(Scanned(StoredHash(id))) = id
    BY <1>1, <1>4, DeleteFindsOwn
  <2>2. file_uint32chg(id, -1) /\ pc' = (IF LastReference(id) THEN "remove" ELSE "idle")
    BY <1>4, <2>1 DEF DeleteCount
  <2>3. Entry(id).count \in Nat \ {0}
    BY <1>1, <1>4, <2>1, FirstIsScanned, StoredHashes DEF FInv
  <2>4. /\ Len(entries') = Len(entries)
        /\ \A i \in Ids : Entry(i)'.count = IF i = id THEN Entry(id).count + (-1)
                                                      ELSE Entry(i).count
    BY <1>1, <2>2, <2>3, CountChanges
  <2>5. id \in InUse /\ DOMAIN Held = InUse /\ Held[id].count = Entry(id).count
    BY <1>2, <2>3, HeldParts
  <2>6. Issued' = Issued
    BY <1>1, <2>2, <2>4 DEF Issued
  <2>7. CASE LastReference(id)
    <3>1. InUse' = InUse \ {id}
      BY <1>1, <1>2, <2>2, <2>7 DEF InUse
    <3>2. \A i \in InUse' : Entry(i)'.count = Entry(i).count
      BY <1>2, <2>4, <3>1
    <3>3. Held' = [i \in DOMAIN Held \ {id} |-> Held[i]]
      BY <1>1, <2>5, <3>1, <3>2 DEF Held
    <3>4. Library!GiveUp(id)
      BY <2>5, <2>6, <2>7, <3>3 DEF Library!GiveUp, LastReference
    <3> QED BY <1>1, <2>5, <3>4 DEF Library!Next, Unharmed
  <2>8. CASE ~LastReference(id)
    <3>1. InUse' = InUse /\ Entry(id).count > 1
      BY <1>1, <2>2, <2>3, <2>8 DEF InUse, LastReference
    <3>2. Held' = [Held EXCEPT ![id].count = @ + (-1)]
      BY <1>1, <1>2, <2>4, <2>5, <3>1, HeldCounts
    <3>3. Held' = [Held EXCEPT ![id].count = @ - 1]
      BY <2>3, <2>5, <3>2
    <3>4. Library!GiveUp(id)
      BY <2>5, <2>6, <3>1, <3>3 DEF Library!GiveUp
    <3> QED BY <1>1, <2>5, <3>4 DEF Library!Next, Unharmed
  <2> QED BY <2>7, <2>8
<1> QED BY <1>3, <1>4

\* The file that goes was given up by the step before.
LEMMA RemoveFileImplements ==
  ASSUME FInv, RemoveFile
  PROVE  UNCHANGED <<Held, Issued>>
<1>1. pc = "remove" /\ pc' = "idle" /\ UNCHANGED entries
  BY DEF RemoveFile, Idle
<1>2. /\ DOMAIN files' = DOMAIN files \ {file_id}
      /\ \A i \in DOMAIN files' : files'[i] = files[i]
  BY DEF RemoveFile, Restrict
<1>3. InUse' = InUse /\ InUse = DOMAIN files'
  BY <1>1, <1>2 DEF InUse
<1>4. Held' = Held
  BY <1>1, <1>2, <1>3, HeldStays DEF Entry
<1> QED BY <1>1, <1>4 DEF Issued

\* Full-file deduplication implements the library of counted files, as long as no
\* process dies and every input can be opened: for any contents, buffer size and
\* number of tasks.
THEOREM FullFileImplements ==
  ASSUME ~TrailingSlash
  PROVE  Spec => ImplementsFileLibrary
<1>1. Init => Library!Init
  <2> SUFFICES ASSUME Init PROVE Library!Init
    OBVIOUS
  <2>1. InUse = {} /\ Issued = 0
    BY DEF Init, InUse, Issued
  <2>2. Held = [id \in {} |-> {}]
    BY <2>1 DEF Held
  <2> QED BY <2>1, <2>2 DEF Init, Library!Init, Unharmed
<1>2. FInv /\ [Next]_vars => [Library!Next]_(Library!vars)
  <2> SUFFICES ASSUME FInv, [Next]_vars PROVE Library!Next \/ UNCHANGED Library!vars
    OBVIOUS
  <2>1. CASE ~Unharmed'
    BY <2>1 DEF Library!Next, Library!Fail
  <2>2. CASE Unharmed'
    <3>1. Unharmed /\ ~Crash
      BY <2>2 DEF Next, vars, history, store, WriteKnown, WriteNew, WriteCount, DeleteCount,
                  SaveFile, RemoveFile, ScanUndefined, Crash, HashInput, Unharmed
    <3>2. Agree
      BY <3>1 DEF FInv
    <3>3. ASSUME NEW c \in Hashes, WriteKnown(c) PROVE Library!Next
      BY <2>2, <3>2, <3>3, WriteKnownImplements
    <3>4. ASSUME NEW c \in Hashes, WriteNew(c) PROVE UNCHANGED Library!vars
      BY <2>2, <3>1, <3>2, <3>4, WriteNewImplements DEF Library!vars
    <3>5. CASE SaveFile
      BY <3>2, <3>5, SaveFileImplements
    <3>6. ASSUME NEW id \in Ids, DeleteCount(id) PROVE Library!Next \/ UNCHANGED Library!vars
      BY <3>2, <3>6, DeleteCountImplements
    <3>7. CASE RemoveFile
      BY <2>2, <3>1, <3>7, RemoveFileImplements DEF Library!vars
    <3>8. CASE ScanUndefined \/ UNCHANGED vars
      <4>1. UNCHANGED <<entries, files, pc, file_id>>
        BY <3>8 DEF ScanUndefined, vars, store
      <4>2. UNCHANGED <<Held, Issued>>
        BY <4>1 DEF Held, Issued, InUse, Entry
      <4> QED BY <2>2, <3>1, <4>2 DEF Library!vars
    <3>9. CASE WriteCount
      BY <2>2, <3>1, <3>2, <3>9, WriteCountImplements DEF Library!vars
    <3> QED BY <3>1, <3>3, <3>4, <3>5, <3>6, <3>7, <3>8, <3>9 DEF Next
  <2> QED BY <2>1, <2>2
<1> QED BY <1>1, <1>2, FullFileInv, PTL DEF Spec, ImplementsFileLibrary, Library!Spec
===============================================================================
