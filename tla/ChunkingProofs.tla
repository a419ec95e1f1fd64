---------------------------- MODULE ChunkingProofs ----------------------------
(***************************************************************************)
(* The chunks of a file, for files and read blocks of any length, any gear *)
(* table, masks and sizes: they tile it, and from every cut on they are    *)
(* what the rest of the block would be cut into on its own.                *)
(***************************************************************************)
EXTENDS Chunking, WellFoundedInduction, SequenceTheorems, TLAPS

\* A non-empty set of numbers has a least one.
LEMMA HasLeast ==
  ASSUME NEW T \in SUBSET Nat, T # {}
  PROVE  \E t \in T : \A u \in T : t <= u
<1> DEFINE R == {ss \in Nat \X Nat : ss[1] < ss[2]}
<1>1. IsWellFoundedOn(R, Nat)
  BY NatLessThanWellFounded DEF OpToRel
<1>2. \A x, y \in Nat : <<y, x>> \in R <=> y < x
  <2> TAKE x, y \in Nat
  <2>1. <<y, x>> \in Nat \X Nat /\ <<y, x>>[1] = y /\ <<y, x>>[2] = x
    OBVIOUS
  <2> QED BY <2>1
<1> HIDE DEF R
<1>3. \E x \in T : \A y \in T : ~(<<y, x>> \in R)
  BY <1>1, WFMin
<1>4. \A x, y \in T : ~(<<y, x>> \in R) => x <= y
  BY <1>2
<1> QED BY <1>3, <1>4

-------------------------------------------------------------------------------
\* The length of one chunk.

LEMMA Sizes ==
  /\ Factor \in Nat \ {0} /\ FileCache \in Nat \ {0} /\ U16 \in Nat \ {0}
  /\ Averages \subseteq Nat /\ FixedSizes \subseteq Nat \ {0}
  /\ \A f \in Files : f \in Seq(DOMAIN Gear)
BY GearAssumption, ChunkingAssumption

\* The first of some positions before n, or n.
LEMMA FirstBefore ==
  ASSUME NEW n \in Nat, NEW positions \in SUBSET (0..(n - 1))
  PROVE  FirstOf(positions, n) \in 0..n
<1>1. CASE positions = {}
  BY <1>1 DEF FirstOf
<1>2. CASE positions # {}
  <2>1. positions \in SUBSET Nat
    OBVIOUS
  <2>2. \E i \in positions : \A j \in positions : i <= j
    BY <1>2, <2>1, HasLeast
  <2>3. FirstOf(positions, n) \in positions
    BY <1>2, <2>2 DEF FirstOf
  <2>4. \A i \in 0..(n - 1) : i \in 0..n
    OBVIOUS
  <2> QED BY <2>3, <2>4
<1> QED BY <1>1, <1>2

\* The shortest chunk, the average and the longest one.
LEMMA SizesInOrder ==
  ASSUME NEW fas \in Nat
  PROVE  /\ fas \div Factor \in Nat /\ fas * Factor \in Nat
         /\ fas \div Factor <= fas /\ fas <= fas * Factor
<1>1. Factor \in Nat \ {0}
  BY Sizes
<1>2. fas * (Factor - 1) \in Nat /\ fas * Factor = fas * (Factor - 1) + fas
  BY <1>1
<1> DEFINE q == fas \div Factor
<1>3. q \in Int /\ Factor * q <= fas /\ fas < Factor * q + Factor
  BY <1>1
<1> HIDE DEF q
<1>4. q \in Nat /\ Factor - 1 \in Nat
  <2>1. ~(q <= -1)
    <3> SUFFICES ASSUME q <= -1 PROVE FALSE
      OBVIOUS
    <3>1. Factor * (-1 - q) \in Nat /\ Factor * q + Factor = -(Factor * (-1 - q))
      BY <1>1, <1>3
    <3> QED BY <1>1, <1>3, <3>1
  <2> QED BY <1>1, <1>3, <2>1
<1>5. q * (Factor - 1) \in Nat /\ Factor * q = q * (Factor - 1) + q
  BY <1>1, <1>3, <1>4
<1> QED BY <1>2, <1>3, <1>4, <1>5 DEF q

LEMMA CappedBelow ==
  ASSUME NEW n \in Nat, NEW max \in Nat
  PROVE  Capped(n, max) \in 0..n /\ Capped(n, max) <= max
BY DEF Capped

\* A chunker does not cut behind the data it has, nor behind its longest chunk.
LEMMA WithoutNCWithin ==
  ASSUME NEW p, NEW n \in Nat, NEW fas \in Nat, NEW level
  PROVE  LET gr == fastCDC_init(fas, level)
         IN  /\ FastCDC_without_NC(p, n, gr) \in 0..n
             /\ FastCDC_without_NC(p, n, gr) <= fas * Factor
<1> DEFINE gr == fastCDC_init(fas, level)
<1> DEFINE m == Capped(n, fas * Factor)
<1> DEFINE min == fas \div Factor
<1> DEFINE fp == Fingerprint(p, min, m)
<1> DEFINE cuts == {i \in min..(m - 1) : fp[i] \in Pass8KB}
<1>1. min \in Nat /\ fas * Factor \in Nat /\ min <= fas * Factor
  BY SizesInOrder
<1>2. m \in 0..n /\ m <= fas * Factor
  BY <1>1, CappedBelow
<1>3. FastCDC_without_NC(p, n, gr) = IF n <= min THEN n ELSE FirstOf(cuts, m)
  BY DEF FastCDC_without_NC, fastCDC_init
<1> HIDE DEF m, min, fp
<1>4. cuts \in SUBSET (0..(m - 1))
  BY <1>1, <1>2
<1>5. m \in Nat
  BY <1>2
<1> HIDE DEF cuts
<1>6. FirstOf(cuts, m) \in 0..m
  BY <1>4, <1>5, FirstBefore
<1> HIDE DEF gr
<1>7. FastCDC_without_NC(p, n, gr) \in 0..n
  BY <1>1, <1>2, <1>3, <1>6
<1>8. FastCDC_without_NC(p, n, gr) <= fas * Factor
  BY <1>1, <1>2, <1>3, <1>6
<1> QED BY <1>7, <1>8 DEF gr

LEMMA WithNCWithin ==
  ASSUME NEW p, NEW n \in Nat, NEW fas \in Nat, NEW level, NEW avg \in 0..fas
  PROVE  LET gr == fastCDC_init(fas, level)
         IN  /\ FastCDC_with_NC(p, n, gr, avg) \in 0..n
             /\ FastCDC_with_NC(p, n, gr, avg) <= fas * Factor
             /\ LoweredAvg(n, gr, avg) \in 0..fas
<1> DEFINE gr == fastCDC_init(fas, level)
<1> DEFINE max == fas * Factor
<1> DEFINE m == Capped(n, max)
<1> DEFINE min == fas \div Factor
<1> DEFINE middle == IF min < n /\ n <= max /\ n <= avg THEN n ELSE avg
<1> DEFINE fp == Fingerprint(p, min, m)
<1> DEFINE cuts == {i \in min..(middle - 1) : fp[i] \in gr.Mask_front}
                   \cup {i \in min..(m - 1) : i >= middle /\ fp[i] \in gr.Mask_back}
<1>1. min \in Nat /\ max \in Nat /\ min <= max /\ fas <= max
  BY SizesInOrder
<1>2. m = IF n > max THEN max ELSE n
  BY DEF Capped
<1>3. LoweredAvg(n, gr, avg) = middle
  BY DEF LoweredAvg, fastCDC_init
<1>4. FastCDC_with_NC(p, n, gr, avg) = IF n <= min THEN n ELSE FirstOf(cuts, m)
  BY <1>3 DEF FastCDC_with_NC, fastCDC_init
<1> HIDE DEF gr, max, m, min, fp
<1>5. middle \in 0..fas
  BY <1>1
<1>6. m \in Nat /\ m <= n /\ m <= max
  BY <1>1, <1>2
<1>7. ASSUME ~(n <= min) PROVE FirstOf(cuts, m) \in 0..m
  <2>1. middle <= m
    BY <1>1, <1>2, <1>7
  <2> HIDE DEF middle
  <2>2. cuts \in SUBSET (0..(m - 1))
    BY <1>1, <1>5, <1>6, <2>1
  <2> HIDE DEF cuts
  <2> QED BY <1>6, <2>2, FirstBefore
<1> HIDE DEF cuts, middle
<1>8. FastCDC_with_NC(p, n, gr, avg) \in 0..n
  BY <1>1, <1>4, <1>6, <1>7
<1>9. FastCDC_with_NC(p, n, gr, avg) <= max
  BY <1>1, <1>4, <1>6, <1>7
<1> QED BY <1>3, <1>5, <1>8, <1>9 DEF gr, max

\* What main's function pointer leads to stays within the data and below the
\* longest chunk of the setting, and the average does not rise.
Limit(how) == IF how.method = "fsc" THEN how.size ELSE how.size * Factor

LEMMA ChunkingWithin ==
  ASSUME NEW how \in Choices, NEW avg \in 0..how.size, NEW p, Len(p) \in Nat
  PROVE  /\ how.size \in Nat
         /\ chunking(p, how, avg) \in 0..Len(p)
         /\ chunking(p, how, avg) <= Limit(how)
         /\ AvgAfter(p, how, avg) \in 0..how.size
<1>1. how.size \in Nat /\ how.method \in {"cdc", "fsc"}
  BY Sizes DEF Choices
<1>2. CASE how.method = "fsc"
  <2>1. chunking(p, how, avg) = Capped(Len(p), how.size) /\ AvgAfter(p, how, avg) = avg
    BY <1>2 DEF chunking, AvgAfter, FSC
  <2> QED BY <1>1, <1>2, <2>1, CappedBelow DEF Limit
<1>3. CASE how.method = "cdc" /\ how.level = 0
  <2>1. /\ chunking(p, how, avg) = FastCDC_without_NC(p, Len(p), fastCDC_init(how.size, 0))
        /\ AvgAfter(p, how, avg) = avg
    BY <1>3 DEF chunking, AvgAfter
  <2> QED BY <1>1, <1>3, <2>1, WithoutNCWithin DEF Limit
<1>4. CASE how.method = "cdc" /\ how.level # 0
  <2> DEFINE gr == fastCDC_init(how.size, how.level)
  <2>1. /\ chunking(p, how, avg) = FastCDC_with_NC(p, Len(p), gr, avg)
        /\ AvgAfter(p, how, avg) = LoweredAvg(Len(p), gr, avg)
    BY <1>4 DEF chunking, AvgAfter
  <2> QED BY <1>1, <1>4, <2>1, WithNCWithin DEF Limit
<1> QED BY <1>1, <1>2, <1>3, <1>4

-------------------------------------------------------------------------------
\* The chunks of a file.

\* Where the loop is in the file.
Here == from + file_offset

\* The chunks follow each other up to where the loop is, none is longer than
\* the setting allows, and a block is left only when it is used up.
TileInv ==
  /\ TypeOK
  /\ from + n_read <= Len(file)
  /\ pc = "read" => file_offset = n_read
  /\ \A i \in DOMAIN chunks :
       /\ chunks[i].length <= Limit(choice)
       /\ chunks[i].begin + chunks[i].length =
            IF i = Len(chunks) THEN Here ELSE chunks[i + 1].begin
  /\ IF chunks = <<>> THEN Here = 0 ELSE chunks[1].begin = 0

Chunk == [begin : Nat, length : 0..FileCache]

LEMMA InitTile == Init => TileInv
<1> SUFFICES ASSUME Init PROVE TileInv
  OBVIOUS
<1>1. choice.size \in Nat /\ file \in Seq(DOMAIN Gear)
  BY Sizes DEF Init, Choices
<1>2. Len(file) \in Nat /\ FileCache \in Nat
  BY <1>1, Sizes
<1>3. chunks = <<>> /\ DOMAIN chunks = {} /\ chunks \in Seq(Chunk)
  BY DEF Init
<1> QED BY <1>1, <1>2, <1>3 DEF Init, TileInv, TypeOK, Here, Chunk

LEMMA CutKeeps == ASSUME TileInv, Cut PROVE TileInv'
<1> DEFINE p == Rest(SubSeq(file, from + 1, from + n_read), file_offset)
<1> DEFINE length == chunking(p, choice, fastcdc_avg_size)
<1> DEFINE added == [begin |-> from + file_offset, length |-> length]
<1>1. /\ pc = "cut" /\ file_offset < n_read
      /\ chunks' = Append(chunks, added)
      /\ file_offset' = file_offset + length
      /\ fastcdc_avg_size' = AvgAfter(p, choice, fastcdc_avg_size)
      /\ pc' = IF length = 0 THEN "spins" ELSE "cut"
      /\ UNCHANGED <<file, choice, from, n_read, began_with>>
  BY DEF Cut
<1>2. /\ file \in Files /\ choice \in Choices /\ from \in Nat /\ n_read \in 0..FileCache
      /\ file_offset \in 0..n_read /\ fastcdc_avg_size \in 0..choice.size
      /\ chunks \in Seq(Chunk) /\ from + n_read <= Len(file)
  BY DEF TileInv, TypeOK, Chunk
<1>3. file \in Seq(DOMAIN Gear) /\ Len(file) \in Nat /\ FileCache \in Nat
  BY <1>2, Sizes
<1>4. Len(p) = n_read - file_offset /\ Len(p) \in Nat
  <2> DEFINE block == SubSeq(file, from + 1, from + n_read)
  <2>1. block \in Seq(DOMAIN Gear) /\ Len(block) = n_read
    <3>1. from + 1 \in Int /\ from + n_read \in Int /\ from + 1 <= from + n_read
      BY <1>1, <1>2, <1>3
    <3>2. \A i \in (from + 1)..(from + n_read) : file[i] \in DOMAIN Gear
      BY <1>2, <1>3
    <3>3. (from + n_read) - (from + 1) + 1 = n_read
      BY <1>2, <1>3
    <3> QED BY <3>1, <3>2, <3>3, SubSeqProperties
  <2> HIDE DEF block
  <2>2. Len(SubSeq(block, file_offset + 1, Len(block))) = n_read - file_offset
    <3>1. file_offset + 1 \in Int /\ n_read \in Int /\ file_offset + 1 <= n_read
      BY <1>1, <1>2, <1>3
    <3>2. \A i \in (file_offset + 1)..n_read : block[i] \in DOMAIN Gear
      BY <1>2, <1>3, <2>1
    <3>3. n_read - (file_offset + 1) + 1 = n_read - file_offset
      BY <1>2, <1>3
    <3> QED BY <2>1, <3>1, <3>2, <3>3, SubSeqProperties
  <2>3. n_read - file_offset \in Nat
    BY <1>1, <1>2, <1>3
  <2> QED BY <2>2, <2>3 DEF block, Rest
<1>5. /\ choice.size \in Nat /\ length \in 0..(n_read - file_offset)
      /\ length <= Limit(choice) /\ fastcdc_avg_size' \in 0..choice.size
  BY <1>1, <1>2, <1>4, ChunkingWithin
<1> HIDE DEF p, length
<1>6. file_offset' \in 0..n_read /\ length \in 0..FileCache /\ from + file_offset \in Nat
  BY <1>1, <1>2, <1>3, <1>5
<1>7. added \in Chunk /\ added.begin = from + file_offset /\ added.length = length
  BY <1>6 DEF Chunk
<1> HIDE DEF added
<1> DEFINE n == Len(chunks)
<1>8. /\ n \in Nat /\ DOMAIN chunks = 1..n /\ chunks' \in Seq(Chunk)
      /\ Len(chunks') = n + 1 /\ DOMAIN chunks' = 1..(n + 1)
      /\ chunks'[n + 1] = added /\ \A i \in 1..n : chunks'[i] = chunks[i]
      /\ chunks = <<>> <=> n = 0
  BY <1>1, <1>2, <1>7
<1> HIDE DEF n
<1>9. Here' = from + file_offset + length /\ Here = from + file_offset /\ Limit(choice)' = Limit(choice)
  BY <1>1, <1>2, <1>6 DEF Here
<1>10. ASSUME NEW i \in 1..(n + 1)
       PROVE  /\ chunks'[i].length <= Limit(choice)
              /\ chunks'[i].begin + chunks'[i].length =
                   IF i = n + 1 THEN Here' ELSE chunks'[i + 1].begin
  <2>1. CASE i = n + 1
    BY <1>5, <1>7, <1>8, <1>9, <2>1
  <2>2. CASE i # n + 1
    <3>1. i \in 1..n /\ (i # n => i + 1 \in 1..n)
      BY <1>8, <2>2
    <3>2. /\ chunks[i].length <= Limit(choice)
          /\ chunks[i].begin + chunks[i].length = IF i = n THEN Here ELSE chunks[i + 1].begin
      BY <1>8, <3>1 DEF TileInv, n
    <3>3. chunks'[i + 1].begin = IF i = n THEN Here ELSE chunks[i + 1].begin
      BY <1>7, <1>8, <1>9, <3>1
    <3> QED BY <1>8, <2>2, <3>1, <3>2, <3>3
  <2> QED BY <2>1, <2>2
<1>11. chunks' # <<>> /\ chunks'[1].begin = 0
  <2>1. CASE chunks = <<>>
    <3>1. n = 0 /\ Here = 0
      BY <1>8, <2>1 DEF TileInv
    <3>2. chunks'[1] = added /\ Len(chunks') = 1
      BY <1>8, <3>1
    <3>3. \A seq : Len(seq) = 1 => seq # <<>>
      OBVIOUS
    <3> QED BY <1>7, <1>9, <3>1, <3>2, <3>3
  <2>2. CASE chunks # <<>>
    <3>1. 1 \in 1..n
      BY <1>8, <2>2
    <3> QED BY <1>8, <2>2, <3>1 DEF TileInv
  <2> QED BY <1>8, <2>1, <2>2
<1>12. TypeOK'
  BY <1>1, <1>2, <1>5, <1>6, <1>8 DEF TypeOK, Chunk
<1> QED BY <1>1, <1>2, <1>8, <1>9, <1>10, <1>11, <1>12 DEF TileInv

LEMMA NextTile == TileInv /\ [Next]_vars => TileInv'
<1> SUFFICES ASSUME TileInv, [Next]_vars PROVE TileInv'
  OBVIOUS
<1>1. /\ file \in Files /\ choice \in Choices /\ from \in Nat /\ n_read \in 0..FileCache
      /\ file_offset \in 0..n_read /\ from + n_read <= Len(file) /\ FileCache \in Nat
  BY Sizes DEF TileInv, TypeOK
<1>2. file \in Seq(DOMAIN Gear) /\ Len(file) \in Nat
  BY <1>1, Sizes
<1>3. ASSUME Read PROVE TileInv'
  <2>1. /\ pc = "read" /\ from + n_read < Len(file) /\ from' = from + n_read
        /\ n_read' = Capped(Len(file) - from', FileCache) /\ file_offset' = 0 /\ pc' = "cut"
        /\ UNCHANGED <<file, choice, fastcdc_avg_size, chunks>>
    BY <1>3 DEF Read
  <2>2. file_offset = n_read
    BY <2>1 DEF TileInv
  <2>3. from' \in Nat /\ Len(file) - from' \in Nat
    BY <1>1, <1>2, <2>1
  <2>4. n_read' \in 0..(Len(file) - from') /\ n_read' <= FileCache
    BY <1>1, <2>1, <2>3, CappedBelow
  <2>5. Here' = Here /\ n_read' \in 0..FileCache /\ file_offset' \in 0..n_read'
        /\ from' + n_read' <= Len(file)
    BY <1>1, <1>2, <2>1, <2>2, <2>3, <2>4 DEF Here
  <2>6. TypeOK'
    BY <2>1, <2>3, <2>5 DEF TileInv, TypeOK
  <2>7. Limit(choice)' = Limit(choice)
    BY <2>1
  <2> QED BY <2>1, <2>5, <2>6, <2>7 DEF TileInv
<1>4. ASSUME UNCHANGED <<file, choice, from, n_read, file_offset, fastcdc_avg_size, chunks>>,
             pc' \in {"read", "cut", "done", "spins"}, pc' = "read" => file_offset = n_read
      PROVE  TileInv'
  BY <1>4 DEF TileInv, TypeOK, Here
<1>5. ASSUME Finish PROVE TileInv'
  BY <1>4, <1>5 DEF Finish
<1>6. ASSUME BlockDone PROVE TileInv'
  <2>1. file_offset = n_read
    BY <1>1, <1>6 DEF BlockDone
  <2> QED BY <1>4, <1>6, <2>1 DEF BlockDone
<1>7. ASSUME UNCHANGED vars PROVE TileInv'
  BY <1>7 DEF vars, TileInv, TypeOK, Here
<1> QED BY <1>3, <1>5, <1>6, <1>7, CutKeeps DEF Next

\* What the entry of a chunk records is its length where the longest chunk
\* fits the field, and by the records the chunks follow each other without gap
\* or overlap: for files of any length and any number of reads (main.cpp's
\* loops over the chunker, MetadataManager.h:27).
THEOREM ChunksTileHolds == Spec => []ChunksTile
<1>1. TileInv => ChunksTile
  <2> SUFFICES ASSUME TileInv, Longest < U16
               PROVE  /\ \A i \in DOMAIN chunks :
                           chunks[i].begin + Recorded(i) =
                             IF i = Len(chunks) THEN from + file_offset ELSE chunks[i + 1].begin
                      /\ chunks # <<>> => chunks[1].begin = 0
    BY DEF ChunksTile, TileInv
  <2>1. choice.size \in Nat /\ choice \in Choices
    BY Sizes DEF TileInv, TypeOK, Choices
  <2>2. Longest = Limit(choice)
    BY DEF Longest, Limit, gear, fastCDC_init
  <2>3. Limit(choice) \in Nat
    BY <2>1, SizesInOrder DEF Limit
  <2>4. ASSUME NEW i \in DOMAIN chunks PROVE Recorded(i) = chunks[i].length
    <3>1. chunks[i].length \in 0..FileCache /\ FileCache \in Nat
      <4>1. chunks \in Seq(Chunk) /\ FileCache \in Nat
        BY Sizes DEF TileInv, TypeOK, Chunk
      <4>2. chunks[i] \in Chunk
        BY <4>1
      <4> QED BY <4>1, <4>2 DEF Chunk
    <3>2. chunks[i].length <= Limit(choice)
      BY DEF TileInv
    <3> DEFINE l == chunks[i].length
    <3>3. l \in Nat /\ l < U16 /\ U16 \in Nat
      BY <2>2, <2>3, <3>1, <3>2, Sizes
    <3> HIDE DEF l
    <3>4. l % U16 = l
      BY <3>3
    <3> QED BY <3>4 DEF l, Recorded
  <2> QED BY <2>4 DEF TileInv, Here
<1> QED BY <1>1, InitTile, NextTile, PTL DEF Spec

-------------------------------------------------------------------------------
\* The cutting of data on its own.

\* Counting up to a number.
LEMMA CountsTo ==
  ASSUME NEW b \in Nat, NEW T, 0 \in T, \A n \in 0..(b - 1) : n \in T => n + 1 \in T
  PROVE  \A n \in 0..b : n \in T
<1> DEFINE Missed == {n \in 0..b : n \notin T}
<1>1. SUFFICES ASSUME Missed # {} PROVE FALSE
  OBVIOUS
<1>2. PICK n \in Missed : \A u \in Missed : n <= u
  <2>1. Missed \in SUBSET Nat
    OBVIOUS
  <2> QED BY <1>1, <2>1, HasLeast
<1>3. n \in 1..b /\ n - 1 \in 0..(b - 1) /\ n - 1 \in 0..b /\ (n - 1) + 1 = n /\ ~(n <= n - 1)
  BY <1>2
<1>4. n - 1 \in T
  BY <1>2, <1>3
<1> QED BY <1>2, <1>3, <1>4

\* The next chunk of the data, k chunks behind its beginning.
NextCut(data, how, before) ==
  LET p == Rest(data, before.offset) IN
  IF p = <<>> THEN before
  ELSE [offset |-> before.offset + chunking(p, how, before.avg),
        avg |-> AvgAfter(p, how, before.avg),
        lengths |-> Append(before.lengths, chunking(p, how, before.avg))]

\* The cutting is what its definition says: there is such a function.
LEMMA CutsAre ==
  ASSUME NEW data, NEW how, Len(data) \in Nat
  PROVE  \A k \in 0..Len(data) :
           Cuts(data, how)[k] = IF k = 0 THEN [offset |-> 0, avg |-> how.size, lengths |-> <<>>]
                                ELSE NextCut(data, how, Cuts(data, how)[k - 1])
<1> DEFINE n == Len(data)
<1> DEFINE first == [offset |-> 0, avg |-> how.size, lengths |-> <<>>]
<1> DEFINE next(b) == NextCut(data, how, b)
<1> DEFINE Steps(g, m) == [k \in 0..m |-> IF k = 0 THEN first ELSE next(g[k - 1])]
<1> DEFINE Built == {m \in Nat : \E g : g = Steps(g, m)}
<1> DEFINE at == CHOOSE g : g = Steps(g, n)
<1>1. Cuts(data, how) = at
  BY DEF Cuts, NextCut
<1> HIDE DEF first, next
<1>2. 0 \in Built
  <2> DEFINE f == [k \in {0} |-> first]
  <2>1. 0..0 = {0}
    OBVIOUS
  <2>2. f = Steps(f, 0)
    BY <2>1
  <2> QED BY <2>2
<1>3. ASSUME NEW m \in 0..(n - 1), m \in Built PROVE m + 1 \in Built
  <2>1. PICK f : f = Steps(f, m)
    BY <1>3
  <2> DEFINE g == [k \in 0..(m + 1) |-> IF k <= m THEN f[k] ELSE next(f[m])]
  <2>2. \A k \in 0..(m + 1) : k <= m => k \in 0..m
    BY <1>3
  <2>3. \A k \in 0..(m + 1) : k # 0 => k - 1 \in 0..m /\ k - 1 <= m /\ k - 1 \in 0..(m + 1)
    BY <1>3
  <2>4. \A k \in 0..(m + 1) : ~(k <= m) => k = m + 1 /\ k # 0 /\ k - 1 = m
    BY <1>3
  <2>5. \A k \in 0..m : f[k] = IF k = 0 THEN first ELSE next(f[k - 1])
    BY <2>1
  <2>6. \A k \in 0..(m + 1) : k # 0 => g[k - 1] = f[k - 1]
    BY <2>3
  <2>7. \A k \in 0..(m + 1) : g[k] = IF k = 0 THEN first ELSE next(g[k - 1])
    <3> TAKE k \in 0..(m + 1)
    <3>1. CASE k <= m
      <4>1. k \in 0..m /\ g[k] = f[k]
        BY <2>2, <3>1
      <4> QED BY <2>5, <2>6, <4>1
    <3>2. CASE ~(k <= m)
      <4>1. k = m + 1 /\ k # 0 /\ k - 1 = m
        BY <2>4, <3>2
      <4>2. g[k] = next(f[m])
        BY <3>2
      <4> QED BY <2>6, <4>1, <4>2
    <3> QED BY <3>1, <3>2
  <2>8. g = Steps(g, m + 1)
    <3>1. g = [k \in 0..(m + 1) |-> g[k]]
      OBVIOUS
    <3> HIDE DEF g
    <3> QED BY <2>7, <3>1
  <2>9. m + 1 \in Nat
    BY <1>3
  <2> HIDE DEF g
  <2> QED BY <2>8, <2>9
<1>4. \E g : g = Steps(g, n)
  <2>1. \A m \in 0..n : m \in Built
    <3> HIDE DEF Built
    <3> QED BY <1>2, <1>3, CountsTo
  <2> QED BY <2>1
<1>5. at = Steps(at, n)
  <2> HIDE DEF Steps
  <2> QED BY <1>4
<1> HIDE DEF at
<1>6. \A k \in 0..n : at[k] = IF k = 0 THEN first ELSE next(at[k - 1])
  BY <1>5
<1> QED BY <1>1, <1>6 DEF first, next

\* When the data is used up, the cutting stands still.
LEMMA CutsEnd ==
  ASSUME NEW data, NEW how, Len(data) \in Nat, NEW m \in 0..Len(data),
         Rest(data, Cuts(data, how)[m].offset) = <<>>
  PROVE  Cuts(data, how)[Len(data)] = Cuts(data, how)[m]
<1> DEFINE n == Len(data)
<1> DEFINE at(k) == Cuts(data, how)[k]
<1> DEFINE Still == {k \in Nat : k <= n - m => at(m + k) = at(m)}
<1>1. \A k \in 1..n : at(k) = NextCut(data, how, at(k - 1))
  <2>1. \A k \in 1..n : k \in 0..n /\ k # 0
    OBVIOUS
  <2> HIDE DEF n
  <2>2. \A k \in 0..n : k # 0 => Cuts(data, how)[k] = NextCut(data, how, Cuts(data, how)[k - 1])
    BY CutsAre DEF n
  <2> QED BY <2>1, <2>2
<1>2. NextCut(data, how, at(m)) = at(m)
  BY DEF NextCut
<1> HIDE DEF at
<1>3. 0 \in Still
  <2>1. m + 0 = m
    OBVIOUS
  <2> QED BY <2>1
<1>4. ASSUME NEW k \in 0..((n - m) - 1), k \in Still PROVE k + 1 \in Still
  <2>1. m + (k + 1) \in 1..n /\ (m + (k + 1)) - 1 = m + k /\ k <= n - m /\ k + 1 \in Nat
    BY <1>4
  <2>2. at(m + k) = at(m)
    BY <1>4, <2>1
  <2>3. at(m + (k + 1)) = NextCut(data, how, at(m + k))
    BY <1>1, <2>1
  <2>4. at(m + (k + 1)) = at(m)
    BY <1>2, <2>2, <2>3
  <2> QED BY <2>1, <2>4
<1>5. n - m \in Nat /\ n - m \in 0..(n - m) /\ m + (n - m) = n
  OBVIOUS
<1>6. n - m \in Still
  <2>1. \A k \in 0..(n - m) : k \in Still
    <3> HIDE DEF Still, n
    <3> QED BY <1>3, <1>4, <1>5, CountsTo
  <2> QED BY <1>5, <2>1
<1> QED BY <1>5, <1>6 DEF at

-------------------------------------------------------------------------------
\* Two averages.

\* With r bytes to come it makes no difference whether the average is a or b.
Alike(r, a, b) == a = b \/ (r <= a /\ r <= b)

LEMMA AlikeCuts ==
  ASSUME NEW how \in Choices, NEW p, Len(p) \in Nat, NEW a \in 0..how.size, NEW b \in 0..how.size,
         Alike(Len(p), a, b)
  PROVE  /\ chunking(p, how, a) = chunking(p, how, b)
         /\ \A r \in 0..Len(p) : Alike(r, AvgAfter(p, how, a), AvgAfter(p, how, b))
<1>1. how.size \in Nat /\ how.method \in {"cdc", "fsc"}
  BY Sizes DEF Choices
<1>2. CASE a = b
  BY <1>2 DEF Alike
<1>3. CASE how.method = "fsc" \/ how.level = 0
  <2>1. chunking(p, how, a) = chunking(p, how, b)
    BY <1>1, <1>3 DEF chunking
  <2>2. AvgAfter(p, how, a) = a /\ AvgAfter(p, how, b) = b
    BY <1>3 DEF AvgAfter
  <2>3. \A r \in 0..Len(p) : Alike(r, a, b)
    BY <1>1 DEF Alike
  <2> QED BY <2>1, <2>2, <2>3
<1>4. CASE a # b /\ how.method = "cdc" /\ how.level # 0
  <2> DEFINE n == Len(p)
  <2> DEFINE gr == fastCDC_init(how.size, how.level)
  <2>1. n <= a /\ n <= b
    BY <1>4 DEF Alike
  <2>2. how.size <= how.size * Factor /\ how.size * Factor \in Nat
    BY <1>1, SizesInOrder
  <2>3. gr.MaxSize = how.size * Factor
    BY DEF fastCDC_init
  <2>4. n <= gr.MaxSize
    BY <1>1, <2>1, <2>2, <2>3
  <2>5. /\ LoweredAvg(n, gr, a) = IF gr.MinSize < n THEN n ELSE a
        /\ LoweredAvg(n, gr, b) = IF gr.MinSize < n THEN n ELSE b
    BY <2>1, <2>4 DEF LoweredAvg
  <2>6. gr.MinSize \in Nat
    BY <1>1, SizesInOrder DEF fastCDC_init
  <2>7. FastCDC_with_NC(p, n, gr, a) = FastCDC_with_NC(p, n, gr, b)
    <3>1. CASE n <= gr.MinSize
      BY <3>1 DEF FastCDC_with_NC
    <3>2. CASE ~(n <= gr.MinSize)
      <4>1. LoweredAvg(n, gr, a) = LoweredAvg(n, gr, b)
        BY <2>5, <2>6, <3>2
      <4> HIDE DEF gr, n
      <4> QED BY <4>1 DEF FastCDC_with_NC
    <3> QED BY <3>1, <3>2
  <2>8. /\ chunking(p, how, a) = FastCDC_with_NC(p, n, gr, a)
        /\ chunking(p, how, b) = FastCDC_with_NC(p, n, gr, b)
        /\ AvgAfter(p, how, a) = LoweredAvg(n, gr, a)
        /\ AvgAfter(p, how, b) = LoweredAvg(n, gr, b)
    BY <1>4 DEF chunking, AvgAfter
  <2>9. \A r \in 0..n : Alike(r, LoweredAvg(n, gr, a), LoweredAvg(n, gr, b))
    <3> HIDE DEF gr
    <3> QED BY <1>1, <2>1, <2>5 DEF Alike
  <2> QED BY <2>7, <2>8, <2>9
<1> QED BY <1>1, <1>2, <1>3, <1>4

\* An average that is as good as the configured one stays so.
LEMMA AlikeStays ==
  ASSUME NEW how \in Choices, NEW p, Len(p) \in Nat, NEW b \in 0..how.size,
         Alike(Len(p), how.size, b), NEW r \in 0..Len(p)
  PROVE  Alike(r, how.size, AvgAfter(p, how, b))
<1>1. how.size \in Nat
  BY Sizes DEF Choices
<1>2. AvgAfter(p, how, b) = b \/ (AvgAfter(p, how, b) = Len(p) /\ Len(p) <= b)
  BY DEF AvgAfter, LoweredAvg
<1> QED BY <1>1, <1>2 DEF Alike

-------------------------------------------------------------------------------
\* The chunks of a block.

Byte == DOMAIN Gear

\* The data behind an offset.
LEMMA RestOf ==
  ASSUME NEW data \in Seq(Byte), NEW o \in 0..Len(data)
  PROVE  /\ Rest(data, o) \in Seq(Byte) /\ Len(Rest(data, o)) = Len(data) - o
         /\ \A i \in 1..(Len(data) - o) : Rest(data, o)[i] = data[o + i]
<1> DEFINE n == Len(data)
<1>1. n \in Nat /\ o \in Nat
  OBVIOUS
<1>2. Rest(data, o) = SubSeq(data, o + 1, n)
  BY DEF Rest
<1>3. \A i \in (o + 1)..n : data[i] \in Byte
  BY <1>1
<1>4. SubSeq(data, o + 1, n) \in Seq(Byte) /\ Len(SubSeq(data, o + 1, n)) = n - o
      /\ \A i \in 1..(n - o) : SubSeq(data, o + 1, n)[i] = data[o + i]
  BY <1>1, <1>3
<1> QED BY <1>2, <1>4

LEMMA RestOfRest ==
  ASSUME NEW data \in Seq(Byte), NEW a \in 0..Len(data), NEW b \in 0..(Len(data) - a)
  PROVE  Rest(Rest(data, a), b) = Rest(data, a + b)
<1> DEFINE p == Rest(data, a)
<1> DEFINE q == Rest(p, b)
<1> DEFINE r == Rest(data, a + b)
<1> DEFINE n == Len(data)
<1>1. n \in Nat /\ a \in Nat /\ b \in Nat /\ a + b \in 0..n
  OBVIOUS
<1>2. p \in Seq(Byte) /\ Len(p) = n - a /\ \A i \in 1..(n - a) : p[i] = data[a + i]
  BY RestOf
<1>3. b \in 0..Len(p)
  BY <1>2
<1>4. q \in Seq(Byte) /\ Len(q) = (n - a) - b /\ \A i \in 1..((n - a) - b) : q[i] = p[b + i]
  <2> HIDE DEF p
  <2> QED BY <1>2, <1>3, RestOf
<1>5. r \in Seq(Byte) /\ Len(r) = n - (a + b) /\ \A i \in 1..(n - (a + b)) : r[i] = data[(a + b) + i]
  BY <1>1, RestOf
<1> HIDE DEF p, q, r, n
<1>6. (n - a) - b = n - (a + b)
  BY <1>1
<1>7. \A i \in 1..(n - (a + b)) : q[i] = r[i]
  <2> TAKE i \in 1..(n - (a + b))
  <2>1. b + i \in 1..(n - a) /\ a + (b + i) = (a + b) + i /\ i \in 1..((n - a) - b)
    BY <1>1
  <2> QED BY <1>2, <1>4, <1>5, <2>1
<1>8. Len(q) = Len(r) /\ \A i \in 1..Len(q) : q[i] = r[i]
  BY <1>4, <1>5, <1>6, <1>7
<1> QED BY <1>4, <1>5, <1>8 DEF p, q, r

\* The block in file_cache.
Block == SubSeq(file, from + 1, from + n_read)

LEMMA BlockTyped ==
  ASSUME TileInv
  PROVE  Block \in Seq(Byte) /\ Len(Block) = n_read /\ n_read \in Nat /\ file_offset \in 0..n_read
<1>1. /\ file \in Files /\ from \in Nat /\ n_read \in 0..FileCache /\ from + n_read <= Len(file)
      /\ file_offset \in 0..n_read /\ FileCache \in Nat
  BY Sizes DEF TileInv, TypeOK
<1>2. file \in Seq(Byte) /\ n_read \in Nat
  BY <1>1, Sizes DEF Byte
<1>3. \A i \in (from + 1)..(from + n_read) : file[i] \in Byte
  BY <1>1, <1>2
<1>4. SubSeq(file, from + 1, from + n_read) \in Seq(Byte)
      /\ Len(SubSeq(file, from + 1, from + n_read)) = n_read
  BY <1>1, <1>2, <1>3
<1> QED BY <1>1, <1>2, <1>4 DEF Block

\* Where the i-th chunk begins; the one to come begins where the loop is.
Begin(i) == IF i = Len(chunks) + 1 THEN Here ELSE chunks[i].begin

\* The chunks from the i-th on are the first of what comes after its beginning,
\* cut on its own, and the rest of it will be cut alike.
OneCut(i) ==
  LET at == Cuts(Rest(Block, Begin(i) - from), choice)[Len(chunks) + 1 - i]
  IN  /\ at.offset = Here - Begin(i) /\ at.lengths = LengthsFrom(i)
      /\ at.avg \in 0..choice.size
      /\ Alike(n_read - file_offset, at.avg, fastcdc_avg_size)

AloneInv ==
  /\ pc # "spins" =>
       /\ \A i \in 1..(Len(chunks) + 1) : Begin(i) + (Len(chunks) + 1 - i) <= Here
       /\ \E i \in 1..(Len(chunks) + 1) : Begin(i) = from
       /\ began_with = choice.size =>
            \A i \in 1..(Len(chunks) + 1) : Begin(i) >= from => OneCut(i)
  /\ pc = "done" => from + n_read = Len(file) /\ file_offset = n_read
  /\ Len(file) <= FileCache =>
       /\ from = 0 /\ began_with = choice.size /\ n_read \in {0, Len(file)}
       /\ n_read = 0 => fastcdc_avg_size = choice.size

\* What is cut on its own begins with the configured average.
LEMMA NewCut ==
  ASSUME NEW data \in Seq(Byte), NEW how \in Choices
  PROVE  Cuts(data, how)[0] = [offset |-> 0, avg |-> how.size, lengths |-> <<>>]
<1>1. Len(data) \in Nat /\ 0 \in 0..Len(data)
  OBVIOUS
<1> QED BY <1>1, CutsAre

\* Where a chunk begins there is nothing behind it yet.
LEMMA NoneFrom ==
  ASSUME TileInv
  PROVE  /\ Len(chunks) \in Nat /\ Here \in Nat /\ Here >= from /\ Here - from = file_offset
         /\ LengthsFrom(Len(chunks) + 1) = <<>>
         /\ \A i \in 1..(Len(chunks) + 1) : Begin(i) \in Nat
<1> DEFINE n == Len(chunks)
<1>1. chunks \in Seq(Chunk) /\ n \in Nat /\ from \in Nat /\ file_offset \in Nat
  BY BlockTyped DEF TileInv, TypeOK, Chunk
<1>2. 1..(n - (n + 1) + 1) = {}
  BY <1>1
<1>3. LengthsFrom(n + 1) = <<>>
  BY <1>2 DEF LengthsFrom
<1>4. Here \in Nat /\ Here >= from /\ Here - from = file_offset
  BY <1>1 DEF Here
<1>5. \A i \in 1..(n + 1) : Begin(i) \in Nat
  <2> TAKE i \in 1..(n + 1)
  <2>1. CASE i = n + 1
    BY <1>4, <2>1 DEF Begin
  <2>2. CASE i # n + 1
    <3>1. i \in 1..n
      BY <1>1, <2>2
    <3>2. chunks[i] \in Chunk
      BY <1>1, <3>1
    <3> QED BY <2>2, <3>2 DEF Begin, Chunk
  <2> QED BY <2>1, <2>2
<1> QED BY <1>1, <1>3, <1>4, <1>5

LEMMA InitAlone == Init => AloneInv
<1> SUFFICES ASSUME Init PROVE AloneInv
  OBVIOUS
<1>1. TileInv /\ chunks = <<>> /\ Len(chunks) = 0 /\ from = 0 /\ n_read = 0 /\ file_offset = 0
      /\ began_with = choice.size /\ fastcdc_avg_size = choice.size /\ choice \in Choices /\ pc = "read"
  BY InitTile DEF Init
<1>2. Here = 0 /\ Begin(1) = 0 /\ LengthsFrom(1) = <<>>
  BY <1>1, NoneFrom DEF Here, Begin
<1>3. 1..(0 + 1) = {1}
  OBVIOUS
<1>4. Rest(Block, 0) \in Seq(Byte)
  BY <1>1, BlockTyped, RestOf
<1>5. Cuts(Rest(Block, 0), choice)[0] = [offset |-> 0, avg |-> choice.size, lengths |-> <<>>]
  BY <1>1, <1>4, NewCut
<1>6. choice.size \in 0..choice.size /\ 0 - 0 = 0 /\ 0 + 1 - 1 = 0
  BY <1>1, Sizes DEF Choices
<1>7. OneCut(1)
  BY <1>1, <1>2, <1>5, <1>6 DEF OneCut, Alike
<1> QED BY <1>1, <1>2, <1>3, <1>6, <1>7 DEF AloneInv

\* A chunk more of the data, when the averages make no difference.
LEMMA OneMore ==
  ASSUME NEW data \in Seq(Byte), NEW how \in Choices, NEW m \in 0..(Len(data) - 1),
         NEW o \in 0..(Len(data) - 1), NEW b \in 0..how.size,
         Cuts(data, how)[m].offset = o, Cuts(data, how)[m].avg \in 0..how.size,
         Alike(Len(data) - o, Cuts(data, how)[m].avg, b)
  PROVE  LET p == Rest(data, o)
             next == Cuts(data, how)[m + 1]
         IN  /\ next.offset = o + chunking(p, how, b)
             /\ next.lengths = Append(Cuts(data, how)[m].lengths, chunking(p, how, b))
             /\ next.avg \in 0..how.size
             /\ \A r \in 0..(Len(data) - o) : Alike(r, next.avg, AvgAfter(p, how, b))
<1> DEFINE n == Len(data)
<1> DEFINE p == Rest(data, o)
<1> DEFINE at(k) == Cuts(data, how)[k]
<1> DEFINE a == Cuts(data, how)[m].avg
<1> DEFINE c == AvgAfter(p, how, a)
<1>1. n \in Nat /\ o \in 0..n /\ m + 1 \in 0..n /\ m + 1 # 0 /\ (m + 1) - 1 = m
  OBVIOUS
<1>2. p \in Seq(Byte) /\ Len(p) = n - o /\ Len(p) \in Nat /\ p # <<>>
  <2>1. p \in Seq(Byte) /\ Len(p) = n - o
    BY <1>1, RestOf
  <2>2. n - o # 0 /\ n - o \in Nat
    BY <1>1
  <2> HIDE DEF p
  <2> QED BY <2>1, <2>2
<1>3. \A k \in 0..n : k # 0 => at(k) = NextCut(data, how, at(k - 1))
  BY <1>1, CutsAre
<1> HIDE DEF at
<1>4. at(m + 1) = NextCut(data, how, at(m))
  BY <1>1, <1>3
<1>5. at(m).offset = o /\ at(m).avg = a
  BY DEF at
<1>6. at(m + 1) = [offset |-> o + chunking(p, how, a), avg |-> c,
                   lengths |-> Append(at(m).lengths, chunking(p, how, a))]
  BY <1>2, <1>4, <1>5 DEF NextCut
<1>7. /\ chunking(p, how, a) = chunking(p, how, b)
      /\ \A r \in 0..Len(p) : Alike(r, AvgAfter(p, how, a), AvgAfter(p, how, b))
  <2>1. a \in 0..how.size /\ Alike(Len(p), a, b)
    BY <1>2
  <2> HIDE DEF p, a
  <2> QED BY <1>2, <2>1, AlikeCuts
<1>8. c \in 0..how.size
  <2>1. a \in 0..how.size
    OBVIOUS
  <2> HIDE DEF p, a
  <2> QED BY <1>2, <2>1, ChunkingWithin
<1>9. /\ at(m + 1).offset = o + chunking(p, how, b) /\ at(m + 1).avg = c
      /\ at(m + 1).lengths = Append(at(m).lengths, chunking(p, how, b))
  <2> HIDE DEF c
  <2> QED BY <1>6, <1>7
<1> QED BY <1>2, <1>7, <1>8, <1>9 DEF at

LEMMA AloneCut == ASSUME TileInv, AloneInv, Cut PROVE AloneInv'
<1> DEFINE p == Rest(Block, file_offset)
<1> DEFINE length == chunking(p, choice, fastcdc_avg_size)
<1> DEFINE added == [begin |-> Here, length |-> length]
<1> DEFINE n == Len(chunks)
<1>1. /\ pc = "cut" /\ file_offset < n_read
      /\ chunks' = Append(chunks, added)
      /\ file_offset' = file_offset + length
      /\ fastcdc_avg_size' = AvgAfter(p, choice, fastcdc_avg_size)
      /\ pc' = IF length = 0 THEN "spins" ELSE "cut"
      /\ UNCHANGED <<file, choice, from, n_read, began_with>>
  BY DEF Cut, Block, Here
<1>2. /\ choice \in Choices /\ choice.size \in Nat /\ fastcdc_avg_size \in 0..choice.size
      /\ from \in Nat /\ chunks \in Seq(Chunk)
  BY Sizes DEF TileInv, TypeOK, Chunk, Choices
<1>3. /\ Block \in Seq(Byte) /\ Len(Block) = n_read /\ n_read \in Nat /\ file_offset \in 0..n_read
  BY BlockTyped
<1>4. p \in Seq(Byte) /\ Len(p) = n_read - file_offset /\ Len(p) \in Nat
  <2>1. p \in Seq(Byte) /\ Len(p) = n_read - file_offset
    BY <1>3, RestOf
  <2> HIDE DEF p
  <2> QED BY <1>3, <2>1
<1>5. length \in 0..(n_read - file_offset) /\ fastcdc_avg_size' \in 0..choice.size
  <2> HIDE DEF p
  <2> QED BY <1>1, <1>2, <1>4, ChunkingWithin
<1> HIDE DEF length, n
<1>6. /\ n \in Nat /\ Here \in Nat /\ Here >= from /\ Here - from = file_offset
      /\ LengthsFrom(n + 1) = <<>> /\ \A i \in 1..(n + 1) : Begin(i) \in Nat
  BY NoneFrom DEF n
<1>7. Here' = Here + length
  BY <1>1, <1>2, <1>3, <1>5 DEF Here
<1>8. /\ Len(chunks') = n + 1 /\ chunks'[n + 1] = added
      /\ \A i \in 1..n : chunks'[i] = chunks[i]
  <2>1. \A x : /\ Len(Append(chunks, x)) = n + 1 /\ Append(chunks, x)[n + 1] = x
               /\ \A i \in 1..n : Append(chunks, x)[i] = chunks[i]
    BY <1>2 DEF n
  <2> HIDE DEF added
  <2> QED BY <1>1, <2>1
<1>9. \A i \in 1..(n + 1) : Begin(i)' = Begin(i)
  <2> TAKE i \in 1..(n + 1)
  <2>1. i # (n + 1) + 1
    BY <1>6
  <2>2. Begin(i)' = chunks'[i].begin
    BY <1>8, <2>1 DEF Begin
  <2>3. CASE i = n + 1
    <3>1. chunks'[i].begin = Here /\ Begin(i) = Here
      BY <1>8, <2>3 DEF Begin, n
    <3> QED BY <2>2, <3>1
  <2>4. CASE i # n + 1
    <3>1. i \in 1..n /\ Begin(i) = chunks[i].begin
      BY <1>6, <2>4 DEF Begin, n
    <3> QED BY <1>8, <2>2, <3>1
  <2> QED BY <2>3, <2>4
<1>10. PICK last \in Nat : last = n + 2
  BY <1>6
<1>11. Begin(last)' = Here'
  <2>1. Len(chunks') + 1 = last
    BY <1>6, <1>8, <1>10
  <2> QED BY <2>1 DEF Begin
<1>12. \A i \in 1..(n + 1) : LengthsFrom(i)' = Append(LengthsFrom(i), length)
  <2> TAKE i \in 1..(n + 1)
  <2> DEFINE k == n - i + 1
  <2> DEFINE old == LengthsFrom(i)
  <2> DEFINE new == [j \in 1..(Len(chunks') - i + 1) |-> chunks'[i + j - 1].length]
  <2>1. LengthsFrom(i)' = new
    BY DEF LengthsFrom
  <2>2. k \in Nat /\ Len(chunks') - i + 1 = k + 1 /\ i + (k + 1) - 1 = n + 1
    BY <1>6, <1>8
  <2>3. \A j \in 1..k : i + j - 1 \in 1..n
    BY <1>6
  <2>4. old = [j \in 1..k |-> chunks[i + j - 1].length]
    BY DEF LengthsFrom, n
  <2>5. \A j \in 1..k : chunks[i + j - 1].length \in Nat
    <3> TAKE j \in 1..k
    <3>1. chunks[i + j - 1] \in Chunk
      BY <1>2, <2>3 DEF n
    <3> QED BY <3>1, Sizes DEF Chunk
  <2>6. length \in Nat
    BY <1>3, <1>5
  <2>7. \A j \in 1..k : chunks'[i + j - 1].length = chunks[i + j - 1].length
    BY <1>8, <2>3
  <2>8. chunks'[i + (k + 1) - 1].length = length
    BY <1>8, <2>2
  <2> HIDE DEF k
  <2>9. new = [j \in 1..(k + 1) |-> chunks'[i + j - 1].length]
    BY <2>2
  <2> HIDE DEF old, new
  <2>10. old \in Seq(Nat) /\ Len(old) = k /\ \A j \in 1..k : old[j] = chunks[i + j - 1].length
    BY <2>2, <2>4, <2>5
  <2>11. \A j \in 1..(k + 1) : j \in 1..k \/ j = k + 1
    BY <2>2
  <2>12. \A j \in 1..(k + 1) : chunks'[i + j - 1].length \in Nat
    BY <2>5, <2>6, <2>7, <2>8, <2>11
  <2>13. /\ new \in Seq(Nat) /\ Len(new) = k + 1 /\ \A j \in 1..k : new[j] = old[j]
         /\ new[k + 1] = length
    <3>1. new \in Seq(Nat) /\ Len(new) = k + 1 /\ \A j \in 1..(k + 1) : new[j] = chunks'[i + j - 1].length
      BY <2>2, <2>9, <2>12
    <3>2. \A j \in 1..k : new[j] = old[j]
      <4>1. \A j \in 1..k : j \in 1..(k + 1)
        BY <2>2
      <4> QED BY <2>7, <2>10, <3>1, <4>1
    <3>3. k + 1 \in 1..(k + 1)
      BY <2>2
    <3> QED BY <2>8, <3>1, <3>2, <3>3
  <2>14. /\ Append(old, length) \in Seq(Nat) /\ Len(Append(old, length)) = k + 1
         /\ \A j \in 1..k : Append(old, length)[j] = old[j]
         /\ Append(old, length)[k + 1] = length
    BY <2>6, <2>10, AppendProperties
  <2> DEFINE app == Append(old, length)
  <2> HIDE DEF app
  <2>15. app \in Seq(Nat) /\ Len(app) = k + 1 /\ \A j \in 1..(k + 1) : new[j] = app[j]
    BY <2>11, <2>13, <2>14 DEF app
  <2>16. new = app
    BY <2>13, <2>15
  <2> QED BY <2>1, <2>16 DEF old, app
<1>13. ASSUME length = 0 PROVE AloneInv'
  <2>1. pc' = "spins"
    BY <1>1, <1>13
  <2> QED BY <1>1, <1>3, <2>1 DEF AloneInv
<1>14. ASSUME length # 0 PROVE AloneInv'
  <2>1. length \in Nat /\ length >= 1 /\ file_offset' = file_offset + length /\ file_offset' \in 0..n_read
    BY <1>1, <1>3, <1>5, <1>14
  <2>2. pc' = "cut"
    BY <1>1, <1>14
  <2>3. /\ \A i \in 1..(n + 1) : Begin(i) + (n + 1 - i) <= Here
        /\ \E i \in 1..(n + 1) : Begin(i) = from
        /\ began_with = choice.size => \A i \in 1..(n + 1) : Begin(i) >= from => OneCut(i)
    BY <1>1 DEF AloneInv, n
  <2>4. \A i \in 1..((n + 1) + 1) : i \in 1..(n + 1) \/ i = last
    BY <1>6, <1>10
  <2>5. \A i \in 1..((n + 1) + 1) : Begin(i)' + ((n + 1) + 1 - i) <= Here'
    <3> TAKE i \in 1..((n + 1) + 1)
    <3>1. CASE i \in 1..(n + 1)
      <4>1. Begin(i)' = Begin(i) /\ Begin(i) \in Nat /\ Begin(i) + (n + 1 - i) <= Here
        BY <1>6, <1>9, <2>3, <3>1
      <4> QED BY <1>6, <1>7, <2>1, <4>1
    <3>2. CASE i = last
      <4>1. (n + 1) + 1 - i = 0 /\ Here' \in Nat
        BY <1>6, <1>7, <1>10, <2>1, <3>2
      <4>2. Begin(i)' = Here'
        BY <1>11, <3>2
      <4> QED BY <4>1, <4>2
    <3> QED BY <2>4, <3>1, <3>2
  <2>6. \E i \in 1..((n + 1) + 1) : Begin(i)' = from'
    <3>1. PICK i \in 1..(n + 1) : Begin(i) = from
      BY <2>3
    <3>2. i \in 1..((n + 1) + 1) /\ Begin(i)' = from'
      BY <1>1, <1>6, <1>9, <3>1
    <3> QED BY <3>2
  <2>7. ASSUME began_with = choice.size, NEW i \in 1..(n + 1), Begin(i) >= from
        PROVE  OneCut(i)'
    <3> DEFINE data == Rest(Block, Begin(i) - from)
    <3> DEFINE o == Here - Begin(i)
    <3> DEFINE m == n + 1 - i
    <3>1. OneCut(i)
      BY <2>3, <2>7
    <3>2. /\ Begin(i) \in Nat /\ Begin(i) + m <= Here /\ m \in Nat
          /\ Begin(i) - from \in 0..n_read /\ m <= o /\ o \in Nat
          /\ (Begin(i) - from) + o = file_offset /\ o \in 0..(n_read - (Begin(i) - from))
          /\ o \in 0..((n_read - (Begin(i) - from)) - 1) /\ m \in 0..((n_read - (Begin(i) - from)) - 1)
          /\ (n_read - (Begin(i) - from)) - o = n_read - file_offset
      <4>1. Begin(i) \in Nat /\ Begin(i) + m <= Here
        BY <1>6, <2>3
      <4>2. m \in Nat
        BY <1>6
      <4> DEFINE begin == Begin(i)
      <4> HIDE DEF begin, m
      <4>3. begin \in Nat /\ begin + m <= Here /\ begin >= from
        BY <2>7, <4>1 DEF begin
      <4>4. /\ begin - from \in 0..n_read /\ m <= Here - begin /\ Here - begin \in Nat
            /\ (begin - from) + (Here - begin) = file_offset
            /\ Here - begin \in 0..(n_read - (begin - from))
        BY <1>1, <1>2, <1>3, <1>6, <4>2, <4>3
      <4>5. /\ Here - begin \in 0..((n_read - (begin - from)) - 1)
            /\ m \in 0..((n_read - (begin - from)) - 1)
            /\ (n_read - (begin - from)) - (Here - begin) = n_read - file_offset
        BY <1>1, <1>2, <1>3, <1>6, <4>2, <4>3, <4>4
      <4> QED BY <4>1, <4>2, <4>4, <4>5 DEF begin
    <3> HIDE DEF o, m
    <3>3. data \in Seq(Byte) /\ Len(data) = n_read - (Begin(i) - from)
      BY <1>3, <3>2, RestOf
    <3>4. Rest(data, o) = p
      <4>1. o \in 0..(Len(Block) - (Begin(i) - from)) /\ Begin(i) - from \in 0..Len(Block)
        BY <1>3, <3>2
      <4>2. Rest(data, o) = Rest(Block, (Begin(i) - from) + o)
        BY <1>3, <4>1, RestOfRest
      <4> QED BY <3>2, <4>2
    <3> HIDE DEF data, p
    <3> DEFINE at == Cuts(data, choice)[m]
    <3> DEFINE next == Cuts(data, choice)[m + 1]
    <3>5. /\ at.offset = o /\ at.lengths = LengthsFrom(i) /\ at.avg \in 0..choice.size
          /\ Alike(n_read - file_offset, at.avg, fastcdc_avg_size)
      BY <3>1 DEF OneCut, data, o, m, n
    <3> DEFINE q == Len(data)
    <3>6. /\ o \in 0..(q - 1) /\ m \in 0..(q - 1) /\ q - o = n_read - file_offset
      BY <3>2, <3>3
    <3> DEFINE first == LengthsFrom(i)
    <3> HIDE DEF first
    <3>7. at.offset = o /\ at.lengths = first /\ at.avg \in 0..choice.size
          /\ Alike(q - o, at.avg, fastcdc_avg_size)
      BY <3>5, <3>6 DEF first
    <3>8. /\ next.offset = o + length /\ next.lengths = Append(first, length)
          /\ next.avg \in 0..choice.size
          /\ \A r \in 0..(q - o) : Alike(r, next.avg, AvgAfter(p, choice, fastcdc_avg_size))
      BY <1>2, <3>3, <3>4, <3>6, <3>7, OneMore DEF length
    <3>9. /\ Block' = Block /\ Begin(i)' - from' = Begin(i) - from /\ choice' = choice
          /\ Len(chunks') + 1 - i = m + 1
          /\ Here' - Begin(i)' = o + length /\ LengthsFrom(i)' = Append(first, length)
      <4>1. Block' = Block
        BY <1>1 DEF Block
      <4>2. Begin(i)' = Begin(i) /\ from' = from /\ choice' = choice
        BY <1>1, <1>9
      <4>3. Len(chunks') + 1 - i = m + 1
        BY <1>6, <1>8 DEF m
      <4>4. Here' - Begin(i)' = o + length
        BY <1>6, <1>7, <2>1, <3>2, <4>2 DEF o
      <4>5. LengthsFrom(i)' = Append(first, length)
        BY <1>12 DEF first
      <4> QED BY <4>1, <4>2, <4>3, <4>4, <4>5
    <3>10. n_read' - file_offset' \in 0..(q - o)
      BY <1>1, <1>3, <1>5, <2>1, <3>6
    <3>11. Alike(n_read' - file_offset', next.avg, fastcdc_avg_size')
      BY <1>1, <3>8, <3>10
    <3>12. Rest(Block', Begin(i)' - from') = data
      BY <3>9 DEF data
    <3>13. Cuts(Rest(Block', Begin(i)' - from'), choice')[Len(chunks') + 1 - i] = next
      BY <3>9, <3>12
    <3> HIDE DEF next
    <3> QED BY <3>8, <3>9, <3>11, <3>13 DEF OneCut
  <2>8. ASSUME began_with = choice.size PROVE OneCut(last)'
    <3> DEFINE d == Here' - from'
    <3>1. d = file_offset' /\ d \in 0..n_read /\ d \in Nat
      BY <1>1, <1>2, <1>6, <1>7, <2>1
    <3> HIDE DEF d
    <3> DEFINE data == Rest(Block, d)
    <3>2. data \in Seq(Byte)
      BY <1>3, <3>1, RestOf
    <3> HIDE DEF data
    <3>3. Cuts(data, choice)[0] = [offset |-> 0, avg |-> choice.size, lengths |-> <<>>]
      BY <1>2, <3>2, NewCut
    <3>4. Alike(n_read - file_offset', choice.size, fastcdc_avg_size')
      <4>1. OneCut(n + 1) /\ Begin(n + 1) = Here
        <5>1. n + 1 \in 1..(n + 1) /\ Begin(n + 1) = Here
          BY <1>6 DEF Begin, n
        <5> QED BY <1>6, <2>3, <2>8, <5>1
      <4>2. n + 1 - (n + 1) = 0 /\ Here - from = file_offset
        BY <1>6
      <4>3. Alike(n_read - file_offset, Cuts(p, choice)[0].avg, fastcdc_avg_size)
        BY <4>1, <4>2 DEF OneCut, n
      <4> HIDE DEF p
      <4>4. Cuts(p, choice)[0].avg = choice.size
        <5>1. Cuts(p, choice)[0] = [offset |-> 0, avg |-> choice.size, lengths |-> <<>>]
          BY <1>2, <1>4, NewCut
        <5> QED BY <5>1
      <4>5. Alike(Len(p), choice.size, fastcdc_avg_size)
        BY <1>4, <4>3, <4>4
      <4>6. n_read - file_offset' \in 0..Len(p)
        BY <1>3, <1>4, <2>1
      <4> QED BY <1>1, <1>2, <1>4, <4>5, <4>6, AlikeStays
    <3>5. /\ Block' = Block /\ choice' = choice /\ n_read' = n_read /\ Begin(last)' = Here'
          /\ Len(chunks') + 1 - last = 0 /\ Here' - Begin(last)' = 0
      <4>1. Block' = Block /\ choice' = choice /\ n_read' = n_read
        BY <1>1 DEF Block
      <4>2. Len(chunks') + 1 - last = 0
        BY <1>6, <1>8, <1>10
      <4>3. Here' - Here' = 0
        BY <1>6, <1>7, <2>1
      <4> QED BY <1>11, <4>1, <4>2, <4>3
    <3>6. LengthsFrom(last)' = <<>>
      <4>1. 1..(Len(chunks') - last + 1) = {}
        BY <1>6, <1>8, <1>10
      <4> QED BY <4>1 DEF LengthsFrom
    <3>7. Rest(Block', Begin(last)' - from') = data
      BY <3>5 DEF data, d
    <3> DEFINE at == Cuts(Rest(Block', Begin(last)' - from'), choice')[Len(chunks') + 1 - last]
    <3>8. at.offset = 0 /\ at.avg = choice.size /\ at.lengths = <<>>
      BY <3>3, <3>5, <3>7
    <3>9. at.offset = Here' - Begin(last)' /\ at.lengths = LengthsFrom(last)' /\ at.avg \in 0..choice'.size
      <4> HIDE DEF at
      <4> QED BY <1>2, <3>5, <3>6, <3>8
    <3>10. Alike(n_read' - file_offset', at.avg, fastcdc_avg_size')
      <4> HIDE DEF at
      <4> QED BY <3>4, <3>5, <3>8
    <3> QED BY <3>9, <3>10 DEF OneCut
  <2>9. began_with' = choice'.size =>
          \A i \in 1..((n + 1) + 1) : Begin(i)' >= from' => OneCut(i)'
    <3> SUFFICES ASSUME began_with' = choice'.size, NEW i \in 1..((n + 1) + 1), Begin(i)' >= from'
                 PROVE  OneCut(i)'
      OBVIOUS
    <3>1. began_with = choice.size
      BY <1>1
    <3>2. CASE i \in 1..(n + 1)
      <4>1. Begin(i) >= from
        BY <1>1, <1>9, <3>2
      <4> QED BY <2>7, <3>1, <3>2, <4>1
    <3>3. CASE i = last
      BY <2>8, <3>1, <3>3
    <3> QED BY <2>4, <3>2, <3>3
  <2> QED BY <1>1, <1>3, <1>8, <2>2, <2>5, <2>6, <2>9 DEF AloneInv
<1> QED BY <1>13, <1>14

\* A part of the data.
LEMMA PartTyped ==
  ASSUME NEW data \in Seq(Byte), NEW a \in Nat, NEW b \in Nat, a + b <= Len(data)
  PROVE  SubSeq(data, a + 1, a + b) \in Seq(Byte)
<1>1. \A i \in (a + 1)..(a + b) : data[i] \in Byte
  OBVIOUS
<1> QED BY <1>1

LEMMA AloneRead == ASSUME TileInv, AloneInv, Read PROVE AloneInv'
<1> DEFINE n == Len(chunks)
<1>1. /\ pc = "read" /\ from + n_read < Len(file) /\ from' = from + n_read
      /\ n_read' = Capped(Len(file) - from', FileCache) /\ file_offset' = 0
      /\ began_with' = fastcdc_avg_size /\ pc' = "cut"
      /\ UNCHANGED <<file, choice, fastcdc_avg_size, chunks>>
  BY DEF Read
<1>2. /\ file \in Seq(Byte) /\ Len(file) \in Nat /\ FileCache \in Nat
      /\ choice \in Choices /\ choice.size \in Nat /\ fastcdc_avg_size \in 0..choice.size
      /\ from \in Nat /\ n_read \in Nat /\ file_offset = n_read
  BY <1>1, Sizes DEF TileInv, TypeOK, Byte, Choices
<1>3. /\ n \in Nat /\ Here \in Nat /\ Here = from + n_read
      /\ LengthsFrom(n + 1) = <<>> /\ \A i \in 1..(n + 1) : Begin(i) \in Nat
  BY <1>2, NoneFrom DEF n, Here
<1>4. from' = Here /\ Here' = Here /\ Here \in Nat
  BY <1>1, <1>2, <1>3 DEF Here
<1> HIDE DEF n
<1>5. \A i \in 1..(n + 1) : Begin(i)' = Begin(i)
  BY <1>1, <1>4 DEF Begin
<1>6. /\ \A i \in 1..(n + 1) : Begin(i) + (n + 1 - i) <= Here
      /\ Len(file) <= FileCache => from = 0 /\ n_read \in {0, Len(file)}
      /\ Len(file) <= FileCache /\ n_read = 0 => fastcdc_avg_size = choice.size
      /\ began_with = choice.size => \A i \in 1..(n + 1) : Begin(i) >= from => OneCut(i)
  BY <1>1 DEF AloneInv, n
<1>7. PICK last \in Nat : last = n + 1
  BY <1>3
<1>8. last \in 1..(n + 1) /\ Begin(last) = Here
  BY <1>3, <1>7 DEF Begin, n
<1>9. \A i \in 1..(n + 1) : Begin(i)' >= from' => i = last
  <2> SUFFICES ASSUME NEW i \in 1..(n + 1), Begin(i)' >= from' PROVE i = last
    OBVIOUS
  <2>1. Begin(i) >= Here /\ Begin(i) + (n + 1 - i) <= Here /\ Begin(i) \in Nat
    BY <1>3, <1>4, <1>5, <1>6
  <2> DEFINE begin == Begin(i)
  <2> HIDE DEF begin
  <2>2. begin >= Here /\ begin + (n + 1 - i) <= Here /\ begin \in Nat
    BY <2>1 DEF begin
  <2> QED BY <1>3, <1>7, <2>2
<1>10. TileInv'
  BY NextTile DEF Next
<1>11. Block' \in Seq(Byte) /\ n_read' \in Nat
  <2>1. /\ n_read' \in Nat /\ from' \in Nat /\ from' + n_read' <= Len(file)
    <3>1. n_read' \in 0..FileCache /\ from' \in Nat /\ from' + n_read' <= Len(file')
      BY <1>10 DEF TileInv, TypeOK
    <3> QED BY <1>1, <1>2, <3>1
  <2>2. SubSeq(file, from' + 1, from' + n_read') \in Seq(Byte)
    BY <1>2, <2>1, PartTyped
  <2>3. Block' = SubSeq(file, from' + 1, from' + n_read')
    BY <1>1 DEF Block
  <2> QED BY <2>1, <2>2, <2>3
<1>12. ASSUME began_with' = choice'.size PROVE OneCut(last)'
  <2> DEFINE data == Rest(Block', 0)
  <2>1. data \in Seq(Byte)
    <3> DEFINE b == Block'
    <3>1. b \in Seq(Byte) /\ 0 \in 0..Len(b)
      BY <1>11
    <3> HIDE DEF b
    <3>2. Rest(b, 0) \in Seq(Byte)
      BY <3>1, RestOf
    <3> QED BY <3>2 DEF b
  <2> HIDE DEF data
  <2>2. Cuts(data, choice)[0] = [offset |-> 0, avg |-> choice.size, lengths |-> <<>>]
    BY <1>2, <2>1, NewCut
  <2>3. Begin(last)' = Here' /\ from' = Here' /\ Here' - Here' = 0
    BY <1>4, <1>5, <1>8
  <2>4. choice' = choice /\ Len(chunks') + 1 - last = 0
    BY <1>1, <1>3, <1>7 DEF n
  <2>5. LengthsFrom(last)' = <<>>
    <3>1. LengthsFrom(last)' = LengthsFrom(last)
      BY <1>1 DEF LengthsFrom
    <3> QED BY <1>3, <1>7, <3>1
  <2> DEFINE at == Cuts(Rest(Block', Begin(last)' - from'), choice')[Len(chunks') + 1 - last]
  <2>6. at = Cuts(data, choice)[0]
    BY <2>3, <2>4 DEF data
  <2> HIDE DEF at
  <2>7. at.offset = 0 /\ at.avg = choice.size /\ at.lengths = <<>>
    BY <2>2, <2>6
  <2>8. fastcdc_avg_size' = choice.size
    BY <1>1, <1>12
  <2>9. /\ at.offset = Here' - Begin(last)' /\ at.lengths = LengthsFrom(last)'
        /\ at.avg \in 0..choice'.size
        /\ Alike(n_read' - file_offset', at.avg, fastcdc_avg_size')
    BY <1>2, <2>3, <2>4, <2>5, <2>7, <2>8 DEF Alike
  <2> QED BY <2>9 DEF OneCut, at
<1>13. Len(file') <= FileCache =>
         /\ from' = 0 /\ began_with' = choice'.size /\ n_read' \in {0, Len(file')}
         /\ n_read' = 0 => fastcdc_avg_size' = choice'.size
  <2> SUFFICES ASSUME Len(file) <= FileCache
               PROVE  from' = 0 /\ began_with' = choice.size /\ n_read' = Len(file)
    BY <1>1
  <2>1. from = 0 /\ n_read = 0 /\ fastcdc_avg_size = choice.size
    BY <1>1, <1>2, <1>6
  <2>2. from' = 0 /\ Len(file) - from' = Len(file)
    BY <1>1, <1>2, <2>1
  <2>3. Capped(Len(file), FileCache) = Len(file)
    BY <1>2 DEF Capped
  <2> QED BY <1>1, <2>1, <2>2, <2>3
<1>14. \A i \in 1..(n + 1) : Begin(i)' + (n + 1 - i) <= Here'
  BY <1>4, <1>5, <1>6
<1>15. \E i \in 1..(n + 1) : Begin(i)' = from'
  BY <1>4, <1>5, <1>8
<1>16. began_with' = choice'.size => \A i \in 1..(n + 1) : Begin(i)' >= from' => OneCut(i)'
  <2> SUFFICES ASSUME began_with' = choice'.size, NEW i \in 1..(n + 1), Begin(i)' >= from'
               PROVE  OneCut(i)'
    OBVIOUS
  <2> QED BY <1>9, <1>12
<1>17. Len(chunks') = n
  BY <1>1 DEF n
<1> QED BY <1>1, <1>13, <1>14, <1>15, <1>16, <1>17 DEF AloneInv

LEMMA NextAlone == TileInv /\ AloneInv /\ [Next]_vars => AloneInv'
<1> SUFFICES ASSUME TileInv, AloneInv, [Next]_vars PROVE AloneInv'
  OBVIOUS
<1>1. ASSUME UNCHANGED <<file, choice, from, n_read, file_offset, fastcdc_avg_size, chunks, began_with>>,
             pc' = "spins" \/ pc # "spins", pc' = "done" => from + n_read = Len(file) /\ file_offset = n_read
      PROVE  AloneInv'
  <2>1. /\ Here' = Here /\ Block' = Block
        /\ \A i \in 1..(Len(chunks) + 1) : Begin(i)' = Begin(i) /\ LengthsFrom(i)' = LengthsFrom(i)
    BY <1>1 DEF Here, Block, Begin, LengthsFrom
  <2>2. \A i \in 1..(Len(chunks) + 1) : OneCut(i)' <=> OneCut(i)
    BY <1>1, <2>1 DEF OneCut
  <2> QED BY <1>1, <2>1, <2>2 DEF AloneInv
<1>2. ASSUME Finish PROVE AloneInv'
  <2>1. file_offset = n_read
    BY <1>2 DEF Finish, TileInv
  <2> QED BY <1>1, <1>2, <2>1 DEF Finish
<1>3. ASSUME BlockDone PROVE AloneInv'
  BY <1>1, <1>3 DEF BlockDone
<1>4. ASSUME UNCHANGED vars PROVE AloneInv'
  BY <1>1, <1>4 DEF vars, AloneInv
<1> QED BY <1>2, <1>3, <1>4, AloneRead, AloneCut DEF Next

\* What is cut of the block when it is used up is cut like a file of its own.
LEMMA CutAlone ==
  ASSUME TileInv, AloneInv, file_offset = n_read, began_with = choice.size, pc # "spins",
         NEW i \in DOMAIN chunks, chunks[i].begin >= from
  PROVE  LengthsFrom(i) = Alone(Rest(Block, chunks[i].begin - from), choice)
<1> DEFINE n == Len(chunks)
<1> DEFINE data == Rest(Block, Begin(i) - from)
<1> DEFINE m == n + 1 - i
<1> DEFINE o == Here - Begin(i)
<1>1. /\ n \in Nat /\ DOMAIN chunks = 1..n /\ Here \in Nat /\ Here >= from
      /\ Here - from = file_offset /\ \A j \in 1..(n + 1) : Begin(j) \in Nat
  <2>1. chunks \in Seq(Chunk)
    BY DEF TileInv, TypeOK, Chunk
  <2> QED BY <2>1, NoneFrom
<1>2. i \in 1..(n + 1) /\ Begin(i) = chunks[i].begin /\ Begin(i) >= from
  <2>1. i \in 1..n
    BY <1>1
  <2>2. i # n + 1 /\ i \in 1..(n + 1)
    BY <1>1, <2>1
  <2> QED BY <2>2 DEF Begin
<1>3. OneCut(i) /\ Begin(i) + m <= Here
  BY <1>2 DEF AloneInv
<1>4. Block \in Seq(Byte) /\ Len(Block) = n_read /\ n_read \in Nat /\ from \in Nat
  BY BlockTyped DEF TileInv, TypeOK
<1>5. /\ Begin(i) - from \in 0..n_read /\ m \in 0..(n_read - (Begin(i) - from))
      /\ o = n_read - (Begin(i) - from) /\ o \in Nat
  <2> DEFINE begin == Begin(i)
  <2>1. begin \in Nat /\ m \in Nat
    BY <1>1, <1>2
  <2> HIDE DEF begin, m
  <2>2. begin + m <= Here /\ begin >= from
    BY <1>2, <1>3 DEF begin
  <2>3. /\ begin - from \in 0..n_read /\ m \in 0..(n_read - (begin - from))
        /\ Here - begin = n_read - (begin - from) /\ Here - begin \in Nat
    BY <1>1, <1>4, <2>1, <2>2
  <2> QED BY <2>3 DEF begin
<1> HIDE DEF m, o
<1>6. data \in Seq(Byte) /\ Len(data) = o
  BY <1>4, <1>5, RestOf
<1> HIDE DEF data
<1>7. Cuts(data, choice)[m].offset = o /\ Cuts(data, choice)[m].lengths = LengthsFrom(i)
  BY <1>3 DEF OneCut, data, m, o, n
<1>8. Len(data) \in Nat /\ m \in 0..Len(data) /\ o \in 0..Len(data)
  BY <1>5, <1>6
<1>9. Rest(data, o) = <<>>
  <2>1. Rest(data, o) \in Seq(Byte) /\ Len(Rest(data, o)) = Len(data) - o
    BY <1>6, <1>8, RestOf
  <2>2. Len(data) - o = 0
    BY <1>5, <1>6
  <2> QED BY <2>1, <2>2
<1>10. Cuts(data, choice)[Len(data)] = Cuts(data, choice)[m]
  BY <1>7, <1>8, <1>9, CutsEnd
<1>11. LengthsFrom(i) = Alone(data, choice)
  BY <1>7, <1>10 DEF Alone
<1> QED BY <1>2, <1>11 DEF data

\* A block that begins with the configured average is cut like a file of its
\* own, whatever was cut before it: for blocks of any length, any gear table
\* and masks (the loops of main.cpp over fastcdc.cpp's chunkers).
THEOREM BlocksAlikeHolds == Spec => []BlocksAlike
<1>1. TileInv /\ AloneInv => BlocksAlike
  <2> SUFFICES ASSUME TileInv, AloneInv, pc = "read", n_read > 0, began_with = choice.size
               PROVE  \E i \in DOMAIN chunks :
                        /\ chunks[i].begin = from
                        /\ LengthsFrom(i) = Alone(SubSeq(file, from + 1, from + n_read), choice)
    BY DEF BlocksAlike
  <2>1. file_offset = n_read /\ from \in Nat /\ n_read \in Nat
    BY BlockTyped DEF TileInv, TypeOK
  <2>2. PICK i \in 1..(Len(chunks) + 1) : Begin(i) = from
    BY DEF AloneInv
  <2>3. i # Len(chunks) + 1
    BY <2>1, <2>2 DEF Begin, Here
  <2>4. i \in DOMAIN chunks /\ chunks[i].begin = from
    <3>1. chunks \in Seq(Chunk)
      BY DEF TileInv, TypeOK, Chunk
    <3> QED BY <2>2, <2>3, <3>1 DEF Begin
  <2>5. LengthsFrom(i) = Alone(Rest(Block, from - from), choice)
    <3>1. chunks[i].begin >= from
      BY <2>1, <2>4
    <3> QED BY <2>1, <2>4, <3>1, CutAlone
  <2>6. Rest(Block, from - from) = Block
    <3>1. Block \in Seq(Byte)
      BY BlockTyped
    <3>2. from - from = 0 /\ 0 + 1 = 1
      BY <2>1
    <3>3. SubSeq(Block, 1, Len(Block)) = Block
      BY <3>1
    <3> QED BY <3>2, <3>3 DEF Rest
  <2> QED BY <2>4, <2>5, <2>6 DEF Block
<1> QED BY <1>1, InitTile, NextTile, InitAlone, NextAlone, PTL DEF Spec

\* Cuts follow the content: behind any cut of a file that one read takes in,
\* the chunks are those the rest would have as a file of its own, for files of
\* any length up to FILE_CACHE (the loops of main.cpp over fastcdc.cpp's
\* chunkers).
THEOREM ContentDefinedHolds == Spec => []ContentDefined
<1>1. TileInv /\ AloneInv => ContentDefined
  <2> SUFFICES ASSUME TileInv, AloneInv, pc = "done", Len(file) <= FileCache, NEW i \in DOMAIN chunks
               PROVE  LengthsFrom(i) = Alone(Rest(file, chunks[i].begin), choice)
    BY DEF ContentDefined
  <2>1. file \in Seq(Byte) /\ Len(file) \in Nat /\ chunks \in Seq(Chunk)
    BY Sizes DEF TileInv, TypeOK, Chunk, Byte
  <2>2. /\ from = 0 /\ began_with = choice.size /\ file_offset = n_read
        /\ from + n_read = Len(file) /\ n_read \in Nat
    BY BlockTyped DEF AloneInv
  <2>3. chunks[i].begin \in Nat
    <3>1. chunks[i] \in Chunk
      BY <2>1
    <3> QED BY <3>1 DEF Chunk
  <2>4. chunks[i].begin >= from /\ chunks[i].begin - from = chunks[i].begin
    BY <2>2, <2>3
  <2>5. LengthsFrom(i) = Alone(Rest(Block, chunks[i].begin), choice)
    BY <2>2, <2>4, CutAlone
  <2>6. Block = file
    <3>1. from + 1 = 1 /\ from + n_read = Len(file)
      BY <2>2
    <3>2. SubSeq(file, 1, Len(file)) = file
      BY <2>1
    <3> QED BY <3>1, <3>2 DEF Block
  <2> QED BY <2>5, <2>6
<1> QED BY <1>1, InitTile, NextTile, InitAlone, NextAlone, PTL DEF Spec
=============================================================================
