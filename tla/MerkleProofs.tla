----------------------------- MODULE MerkleProofs -----------------------------
(***************************************************************************)
(* The level files of the Merkle tree and the tree a walk goes through,    *)
(* for any files, any size of a group and of a read, any number of levels, *)
(* and deaths anywhere in a walk.                                          *)
(***************************************************************************)
EXTENDS MerkleWrite, WellFoundedInduction, TLAPS

\* A non-empty set of numbers has a least one.
LEMMA HasLeast ==
  ASSUME NEW T \in SUBSET Nat, T # {}
  PROVE  \E t \in T : \A u \in T : t <= u
<1> DEFINE R == {ss \in Nat \X Nat : ss[1] < ss[2]}
<1>1. IsWellFoundedOn(R, Nat)
  BY NatLessThanWellFounded DEF OpToRel
<1>2. \A x, y \in Nat : <<y, x>> \in R <=> y < x
  <2> TAKE x, y \in Nat
  <2>1. <<y, x>> \in Nat \X Nat /\ <<y, x>>[1] = y /\ <<y, x>>[2] = x
    OBVIOUS
  <2> QED BY <2>1
<1> HIDE DEF R
<1>3. \E x \in T : \A y \in T : ~(<<y, x>> \in R)
  BY <1>1, WFMin
<1>4. \A x, y \in T : ~(<<y, x>> \in R) => x <= y
  BY <1>2
<1> QED BY <1>3, <1>4

\* A non-empty set of numbers that has a bound has a greatest one.
LEMMA HasGreatest ==
  ASSUME NEW b \in Nat, NEW T \in SUBSET (0..b), T # {}
  PROVE  \E t \in T : \A u \in T : u <= t
<1> DEFINE D == {n \in 0..b : b - n \in T}
<1>1. D \in SUBSET Nat
  OBVIOUS
<1>2. PICK t \in T : TRUE
  OBVIOUS
<1>3. b - t \in D
  <2>1. b - t \in 0..b /\ b - (b - t) = t
    OBVIOUS
  <2> QED BY <2>1
<1>4. PICK n \in D : \A u \in D : n <= u
  BY <1>1, <1>3, HasLeast
<1>5. \A u \in T : b - u \in D
  <2> TAKE u \in T
  <2>1. b - u \in 0..b /\ b - (b - u) = u
    OBVIOUS
  <2> QED BY <2>1
<1>6. n \in 0..b /\ b - n \in T
  BY <1>4
<1>7. \A u \in T : u <= b - n
  BY <1>4, <1>5, <1>6
<1> QED BY <1>6, <1>7

\* A number is reached from 0 where every step leads on.
LEMMA Reached ==
  ASSUME NEW b \in Nat, NEW T, 0 \in T, \A n \in 0..b : n \in T => n + 1 \in T
  PROVE  \A n \in 0..(b + 1) : n \in T
<1> DEFINE Missed == {n \in 0..(b + 1) : n \notin T}
<1>1. SUFFICES ASSUME Missed # {} PROVE FALSE
  OBVIOUS
<1>2. PICK n \in Missed : \A u \in Missed : n <= u
  <2>1. Missed \in SUBSET Nat
    OBVIOUS
  <2> QED BY <1>1, <2>1, HasLeast
<1>3. n \in 1..(b + 1) /\ n - 1 \in 0..b /\ n - 1 \in 0..(b + 1)
  BY <1>2
<1>4. n - 1 \in T
  BY <1>2, <1>3
<1> QED BY <1>2, <1>3, <1>4

-------------------------------------------------------------------------------
\* The tree of a file.

\* A level above n nodes: its nodes' children are 1..n, each once and in order.
Covers(level, n) ==
  /\ \E S : level \in Seq(S)
  /\ level # <<>> /\ level[1].first = 1 /\ level[Len(level)].last = n
  /\ \A k \in DOMAIN level :
       /\ level[k].first \in Nat \ {0} /\ level[k].last \in 0..n
       /\ level[k].last - level[k].first < GroupSize
       /\ k < Len(level) => level[k + 1].first = level[k].last + 1
       /\ k <= level[k].first
       /\ \A l \in DOMAIN level : k < l => level[k].last < level[l].first

\* The number of groups: the last one begins before the end and reaches it.
LEMMA GroupCount ==
  ASSUME NEW n \in Nat \ {0}
  PROVE  LET m == (n + GroupSize - 1) \div GroupSize
         IN  /\ m \in Nat \ {0}
             /\ (m - 1) * GroupSize < n
             /\ n <= m * GroupSize
<1> DEFINE m == (n + GroupSize - 1) \div GroupSize
<1>1. GroupSize \in Nat \ {0, 1}
  BY TreeAssumption
<1>2. n + GroupSize - 1 \in Nat /\ n + GroupSize - 1 >= GroupSize
  BY <1>1
<1>3. /\ m \in Int
      /\ GroupSize * m <= n + GroupSize - 1
      /\ n + GroupSize - 1 < GroupSize * m + GroupSize
  BY <1>1, <1>2
<1>4. (m - 1) * GroupSize = GroupSize * m - GroupSize /\ m * GroupSize = GroupSize * m
  BY <1>1, <1>3
<1>5. m > 0
  BY <1>1, <1>2, <1>3
<1> QED BY <1>1, <1>3, <1>4, <1>5

\* Where a group ends: after GroupSize more nodes, and the last one at the end.
LEMMA GroupEnds ==
  ASSUME NEW n \in Nat \ {0}, NEW m \in Nat \ {0},
         (m - 1) * GroupSize < n, n <= m * GroupSize,
         NEW k \in 1..m
  PROVE  /\ (k - 1) * GroupSize \in Nat /\ (k - 1) * GroupSize < n
         /\ LastOf(k, n) \in 1..n
         /\ LastOf(k, n) - ((k - 1) * GroupSize + 1) < GroupSize
         /\ k < m => LastOf(k, n) = k * GroupSize
         /\ LastOf(m, n) = n
<1>1. GroupSize \in Nat \ {0, 1}
  BY TreeAssumption
<1>2. k * GroupSize = (k - 1) * GroupSize + GroupSize
  BY <1>1
<1>3. k * GroupSize \in Nat /\ m * GroupSize \in Nat /\ (k - 1) * GroupSize \in Nat
  BY <1>1
<1>4. (m - k) * GroupSize \in Nat
  BY <1>1
<1>5. (m - 1) * GroupSize = (m - k) * GroupSize + (k - 1) * GroupSize
  BY <1>1
<1>6. (k - 1) * GroupSize < n
  BY <1>3, <1>4, <1>5
<1>7. k < m => k * GroupSize < n
  <2> HAVE k < m
  <2>1. (m - 1 - k) * GroupSize \in Nat
    BY <1>1
  <2>2. (m - 1) * GroupSize = (m - 1 - k) * GroupSize + k * GroupSize
    BY <1>1
  <2> QED BY <1>3, <2>1, <2>2
<1>8. LastOf(m, n) = n
  BY <1>3 DEF LastOf
<1>9. k < m => LastOf(k, n) = k * GroupSize
  BY <1>3, <1>7 DEF LastOf
<1>10. LastOf(k, n) \in 1..n /\ LastOf(k, n) <= k * GroupSize
  BY <1>1, <1>2, <1>3 DEF LastOf
<1> QED BY <1>1, <1>2, <1>3, <1>6, <1>8, <1>9, <1>10

LEMMA GroupedCovers ==
  ASSUME NEW lower, Len(lower) \in Nat \ {0}
  PROVE  Covers(Grouped(lower), Len(lower)) /\ Len(Grouped(lower)) <= Len(lower)
<1> DEFINE n == Len(lower)
<1> DEFINE m == (n + GroupSize - 1) \div GroupSize
<1> DEFINE level == Grouped(lower)
<1>1. GroupSize \in Nat \ {0, 1}
  BY TreeAssumption
<1>2. m \in Nat \ {0} /\ (m - 1) * GroupSize < n /\ n <= m * GroupSize
  BY GroupCount
<1>3. /\ level = [k \in 1..m |-> level[k]]
      /\ \A k \in 1..m : /\ level[k].first = (k - 1) * GroupSize + 1
                         /\ level[k].last = LastOf(k, n)
  BY DEF Grouped, LP_node
<1> HIDE DEF level, m, n
<1>4. n \in Nat \ {0}
  BY DEF n
<1>5. level \in Seq({level[k] : k \in 1..m}) /\ Len(level) = m /\ DOMAIN level = 1..m
  BY <1>2, <1>3
<1>6. level # <<>>
  BY <1>2, <1>5
<1>7. level[1].first = 1
  <2>1. 1 \in 1..m /\ (1 - 1) * GroupSize = 0
    BY <1>1, <1>2
  <2> QED BY <1>3, <2>1
<1>8. level[m].last = n
  <2>1. m \in 1..m
    BY <1>2
  <2> QED BY <1>2, <1>3, <1>4, <2>1, GroupEnds
<1>9. ASSUME NEW k \in 1..m
      PROVE  /\ level[k].first \in Nat \ {0} /\ level[k].last \in 0..n
             /\ level[k].last - level[k].first < GroupSize
             /\ k < m => level[k + 1].first = level[k].last + 1
  <2>1. /\ (k - 1) * GroupSize \in Nat /\ LastOf(k, n) \in 1..n
        /\ LastOf(k, n) - ((k - 1) * GroupSize + 1) < GroupSize
        /\ k < m => LastOf(k, n) = k * GroupSize
    BY <1>2, <1>4, GroupEnds
  <2>2. k < m => k + 1 \in 1..m /\ (k + 1) - 1 = k
    BY <1>2
  <2> QED BY <1>3, <2>1, <2>2
<1>10. ASSUME NEW k \in 1..m
       PROVE  /\ k <= level[k].first
              /\ \A l \in 1..m : k < l => level[k].last < level[l].first
  <2>1. (k - 1) * (GroupSize - 1) \in Nat
    BY <1>1, <1>2
  <2>2. (k - 1) * GroupSize = (k - 1) * (GroupSize - 1) + (k - 1)
    BY <1>1, <1>2
  <2>3. k <= level[k].first
    BY <1>2, <1>3, <2>1, <2>2
  <2>4. ASSUME NEW l \in 1..m, k < l PROVE level[k].last < level[l].first
    <3>1. LastOf(k, n) = k * GroupSize
      BY <1>2, <1>4, <2>4, GroupEnds
    <3>2. (l - 1 - k) * GroupSize \in Nat /\ k * GroupSize \in Nat
      BY <1>1, <1>2, <2>4
    <3>3. (l - 1) * GroupSize = (l - 1 - k) * GroupSize + k * GroupSize
      BY <1>1, <1>2
    <3> QED BY <1>3, <3>1, <3>2, <3>3
  <2> QED BY <2>3, <2>4
<1>11. m <= n
  <2>1. (m - 1) * (GroupSize - 1) \in Nat
    BY <1>1, <1>2
  <2>2. (m - 1) * GroupSize = (m - 1) * (GroupSize - 1) + (m - 1)
    BY <1>1, <1>2
  <2> QED BY <1>2, <1>4, <2>1, <2>2
<1>12. Covers(level, n)
  BY <1>5, <1>6, <1>7, <1>8, <1>9, <1>10 DEF Covers
<1> QED BY <1>5, <1>11, <1>12 DEF level, n

\* The node without children behind even groups ends where it begins.
LEMMA Level1Covers ==
  ASSUME NEW nodes, Len(nodes) \in Nat \ {0}
  PROVE  Covers(buildLevel1(nodes), Len(nodes))
<1> DEFINE n == Len(nodes)
<1> DEFINE full == Grouped(nodes)
<1> DEFINE extra == LP_node(SHA1_FinalAgain(full[Len(full)].hash), n + 1, n)
<1> DEFINE level == Append(full, extra)
<1>1. Covers(full, n) /\ Len(full) <= n
  BY GroupedCovers
<1>2. CASE n % GroupSize # 0
  BY <1>1, <1>2 DEF buildLevel1
<1>3. CASE ~(n % GroupSize # 0)
  <2>1. buildLevel1(nodes) = level
    BY <1>3 DEF buildLevel1
  <2>2. extra.first = n + 1 /\ extra.last = n
    BY DEF LP_node
  <2>3. PICK S : full \in Seq(S)
    BY <1>1 DEF Covers
  <2> HIDE DEF full, extra
  <2>4. full \in Seq(S \cup {extra}) /\ extra \in S \cup {extra}
    BY <2>3
  <2>5. /\ level \in Seq(S \cup {extra}) /\ Len(level) = Len(full) + 1
        /\ DOMAIN level = 1..(Len(full) + 1) /\ DOMAIN full = 1..Len(full)
        /\ Len(full) \in Nat
        /\ \A k \in 1..Len(full) : level[k] = full[k]
        /\ level[Len(full) + 1] = extra
    BY <2>4
  <2> HIDE DEF level
  <2>6. Len(full) >= 1
    BY <1>1, <2>5, <2>3 DEF Covers
  <2>7. n \in Nat \ {0} /\ GroupSize \in Nat \ {0, 1}
    BY TreeAssumption
  <2> HIDE DEF n
  <2>8. ASSUME NEW k \in 1..(Len(full) + 1)
        PROVE  /\ level[k].first \in Nat \ {0} /\ level[k].last \in 0..n
               /\ level[k].last - level[k].first < GroupSize
               /\ k < Len(level) => level[k + 1].first = level[k].last + 1
               /\ k <= level[k].first
    <3>1. CASE k = Len(full) + 1
      BY <1>1, <2>2, <2>5, <2>7, <3>1
    <3>2. CASE k = Len(full)
      BY <1>1, <2>2, <2>5, <2>6, <3>2 DEF Covers
    <3>3. CASE k < Len(full)
      <4>1. k \in 1..Len(full) /\ k + 1 \in 1..Len(full)
        BY <2>5, <3>3
      <4> QED BY <1>1, <2>5, <3>3, <4>1 DEF Covers
    <3>4. k = Len(full) + 1 \/ k = Len(full) \/ k < Len(full)
      <4> DEFINE z == Len(full)
      <4>1. z \in Nat /\ k \in 1..(z + 1)
        BY <2>5
      <4> HIDE DEF z
      <4>2. k = z + 1 \/ k = z \/ k < z
        BY <4>1
      <4> QED BY <4>2 DEF z
    <3> QED BY <3>1, <3>2, <3>3, <3>4
  <2>11. ASSUME NEW k \in 1..(Len(full) + 1), NEW l \in 1..(Len(full) + 1), k < l
         PROVE  level[k].last < level[l].first
    <3>1. k \in 1..Len(full)
      BY <2>5, <2>11
    <3>2. CASE l \in 1..Len(full)
      BY <1>1, <2>5, <2>11, <3>1, <3>2 DEF Covers
    <3>3. CASE l \notin 1..Len(full)
      <4>1. l = Len(full) + 1
        BY <2>5, <3>3
      <4>2. level[k].last \in 0..n
        BY <2>8
      <4> QED BY <2>2, <2>5, <2>7, <4>1, <4>2
    <3> QED BY <3>2, <3>3
  <2>9. level # <<>> /\ level[1].first = 1 /\ level[Len(level)].last = n
    BY <1>1, <2>2, <2>5, <2>6 DEF Covers
  <2>10. Covers(level, n)
    BY <2>5, <2>8, <2>9, <2>11 DEF Covers
  <2> QED BY <2>1, <2>10 DEF n
<1> QED BY <1>2, <1>3

\* The recursion of buildTree has a value at every level.
LEMMA TreeLevels ==
  ASSUME NEW nodes
  PROVE  LET grown == buildTree(nodes)
         IN  /\ grown = [p \in 1..MaxLevel |-> grown[p]]
             /\ grown[1] = buildLevel1(nodes)
             /\ \A p \in 2..MaxLevel : grown[p] = buildLevelx(grown[p - 1])
<1> DEFINE Up(g, n) == [p \in 1..n |-> IF p = 1 THEN buildLevel1(nodes)
                                       ELSE buildLevelx(g[p - 1])]
<1> DEFINE Built == {n \in Nat : \E g : g = Up(g, n)}
<1>1. MaxLevel \in Nat \ {0}
  BY TreeAssumption
<1>2. 0 \in Built
  <2> DEFINE g == [p \in {} |-> <<>>]
  <2>1. 1..0 = {}
    OBVIOUS
  <2>2. g = Up(g, 0)
    BY <2>1
  <2> QED BY <2>2
<1>3. ASSUME NEW n \in 0..(MaxLevel - 1), n \in Built
      PROVE  n + 1 \in Built
  <2>1. PICK g : g = Up(g, n)
    BY <1>3
  <2> DEFINE h == [p \in 1..(n + 1) |-> IF p <= n THEN g[p]
                                        ELSE IF p = 1 THEN buildLevel1(nodes)
                                        ELSE buildLevelx(g[p - 1])]
  <2>2. \A p \in 1..n : g[p] = IF p = 1 THEN buildLevel1(nodes) ELSE buildLevelx(g[p - 1])
    BY <2>1
  <2>3. n \in Nat
    BY <1>1
  <2>4. \A p \in 1..(n + 1) : p # 1 => p - 1 \in 1..n /\ p - 1 <= n /\ p - 1 \in 1..(n + 1)
    BY <2>3
  <2>5. \A p \in 1..(n + 1) : p # 1 => h[p - 1] = g[p - 1]
    BY <2>4
  <2>6. \A p \in 1..(n + 1) :
           h[p] = IF p = 1 THEN buildLevel1(nodes) ELSE buildLevelx(h[p - 1])
    <3> TAKE p \in 1..(n + 1)
    <3>1. CASE p <= n
      <4>1. p \in 1..n /\ h[p] = g[p]
        BY <2>3, <3>1
      <4> QED BY <2>2, <2>5, <4>1
    <3>2. CASE ~(p <= n)
      <4>1. h[p] = IF p = 1 THEN buildLevel1(nodes) ELSE buildLevelx(g[p - 1])
        BY <3>2
      <4> QED BY <2>5, <4>1
    <3> QED BY <3>1, <3>2
  <2>7. h = Up(h, n + 1)
    <3>1. h = [p \in 1..(n + 1) |-> h[p]]
      OBVIOUS
    <3> HIDE DEF h
    <3> QED BY <2>6, <3>1
  <2>8. n + 1 \in Nat
    BY <2>3
  <2> QED BY <2>7, <2>8
<1>4. MaxLevel \in Built
  <2> HIDE DEF Built
  <2>1. \A n \in 0..((MaxLevel - 1) + 1) : n \in Built
    BY <1>1, <1>2, <1>3, Reached
  <2> QED BY <1>1, <2>1
<1>5. PICK g : g = Up(g, MaxLevel)
  BY <1>4
<1> DEFINE grown == buildTree(nodes)
<1>6. grown = Up(grown, MaxLevel)
  BY <1>5 DEF buildTree
<1>7. grown = [p \in 1..MaxLevel |-> grown[p]]
  BY <1>6
<1>8. 1 \in 1..MaxLevel /\ \A p \in 2..MaxLevel : p \in 1..MaxLevel /\ p # 1
  BY <1>1
<1> HIDE DEF grown
<1>9. grown[1] = buildLevel1(nodes) /\ \A p \in 2..MaxLevel : grown[p] = buildLevelx(grown[p - 1])
  BY <1>6, <1>8
<1> QED BY <1>7, <1>9 DEF grown

\* What level p is built over.
Under(nodes, p) == IF p = 1 THEN Len(nodes) ELSE Len(buildTree(nodes)[p - 1])

\* A level is empty or covers the one below it.
LEMMA LevelsCover ==
  ASSUME NEW nodes, Len(nodes) \in Nat \ {0}
  PROVE  \A p \in 1..MaxLevel :
           /\ Len(buildTree(nodes)[p]) \in Nat
           /\ buildTree(nodes)[p] = <<>> \/ Covers(buildTree(nodes)[p], Under(nodes, p))
<1> DEFINE grown == buildTree(nodes)
<1> DEFINE Fine(p) == /\ Len(grown[p]) \in Nat
                      /\ grown[p] = <<>> \/ Covers(grown[p], Under(nodes, p))
<1> DEFINE Reach == {n \in Nat : n \in 1..MaxLevel => Fine(n)}
<1>1. MaxLevel \in Nat \ {0}
  BY TreeAssumption
<1>2. /\ grown[1] = buildLevel1(nodes)
      /\ \A p \in 2..MaxLevel : grown[p] = buildLevelx(grown[p - 1])
  BY TreeLevels
<1>3. \A level, n : Covers(level, n) => Len(level) \in Nat
  BY DEF Covers
<1>4. ASSUME NEW n \in 0..(MaxLevel - 1), n \in Reach PROVE n + 1 \in Reach
  <2>1. n + 1 \in Nat
    BY <1>1
  <2>2. CASE n = 0
    <3>1. Covers(grown[1], Under(nodes, 1))
      BY <1>2, Level1Covers DEF Under
    <3> QED BY <1>3, <2>2, <3>1
  <2>3. CASE n # 0
    <3>1. n \in 1..MaxLevel /\ n + 1 \in 2..MaxLevel /\ (n + 1) - 1 = n /\ n + 1 # 1
      BY <1>1, <2>3
    <3>2. Len(grown[n]) \in Nat
      BY <1>4, <3>1
    <3>3. grown[n + 1] = buildLevelx(grown[n]) /\ Under(nodes, n + 1) = Len(grown[n])
      BY <1>2, <3>1 DEF Under
    <3> HIDE DEF grown
    <3>4. CASE Len(grown[n]) <= 1
      <4>1. grown[n + 1] = <<>>
        BY <3>3, <3>4 DEF buildLevelx
      <4>2. Len(grown[n + 1]) \in Nat
        BY <4>1
      <4> QED BY <2>1, <4>1, <4>2
    <3>5. CASE ~(Len(grown[n]) <= 1)
      <4>1. grown[n + 1] = Grouped(grown[n])
        BY <3>3, <3>5 DEF buildLevelx
      <4>2. Len(grown[n]) \in Nat \ {0}
        BY <3>2, <3>5
      <4>3. Covers(grown[n + 1], Under(nodes, n + 1))
        BY <3>3, <4>1, <4>2, GroupedCovers
      <4> QED BY <1>3, <2>1, <4>3
    <3> QED BY <3>4, <3>5
  <2> QED BY <2>2, <2>3
<1>5. 0 \in Reach
  OBVIOUS
<1>6. \A n \in 0..((MaxLevel - 1) + 1) : n \in Reach
  <2> HIDE DEF Reach
  <2>1. \A n \in 0..(MaxLevel - 1) : n \in Reach => n + 1 \in Reach
    BY <1>4
  <2>2. MaxLevel - 1 \in Nat
    BY <1>1
  <2> QED BY <1>5, <2>1, <2>2, Reached
<1>7. \A p \in 1..MaxLevel : p \in 0..((MaxLevel - 1) + 1)
  BY <1>1
<1>8. \A p \in 1..MaxLevel : Fine(p)
  <2> HIDE DEF Fine
  <2> QED BY <1>6, <1>7
<1> QED BY <1>8

\* A tree that is not too high has a top: one node, and no single node above it.
LEMMA TopExists ==
  ASSUME NEW nodes, Len(nodes) \in Nat \ {0}, ~TooHigh(buildTree(nodes))
  PROVE  /\ Top(buildTree(nodes)) \in 1..MaxLevel
         /\ Len(buildTree(nodes)[Top(buildTree(nodes))]) = 1
<1> DEFINE grown == buildTree(nodes)
<1> DEFINE Built == {p \in 1..MaxLevel : grown[p] # <<>>}
<1>1. MaxLevel \in Nat \ {0}
  BY TreeAssumption
<1>2. /\ grown[1] = buildLevel1(nodes)
      /\ \A p \in 2..MaxLevel : grown[p] = buildLevelx(grown[p - 1])
  BY TreeLevels
<1>3. \A p \in 1..MaxLevel :
         /\ Len(grown[p]) \in Nat
         /\ grown[p] = <<>> \/ Covers(grown[p], Under(nodes, p))
  BY LevelsCover
<1>4. ~(Len(grown[MaxLevel]) > 1)
  BY DEF TooHigh
<1>5. grown[1] # <<>>
  BY <1>2, Level1Covers DEF Covers
<1> HIDE DEF grown
<1>6. Built \in SUBSET (0..MaxLevel) /\ 1 \in Built
  BY <1>1, <1>5
<1>7. PICK q \in Built : \A p \in Built : p <= q
  BY <1>1, <1>6, HasGreatest
<1>8. Len(grown[q]) >= 1
  <2>1. PICK S : grown[q] \in Seq(S)
    BY <1>3, <1>7 DEF Covers
  <2> QED BY <1>7, <2>1
<1>9. Len(grown[q]) = 1
  <2>1. CASE q = MaxLevel
    <3>1. Len(grown[q]) \in Nat
      BY <1>3, <1>7
    <3>2. ~(Len(grown[q]) > 1)
      BY <1>4, <2>1
    <3>3. \A l \in Nat : l >= 1 /\ ~(l > 1) => l = 1
      OBVIOUS
    <3> QED BY <1>8, <3>1, <3>2, <3>3
  <2>2. CASE q # MaxLevel
    <3>1. q + 1 \in 2..MaxLevel /\ q + 1 \in 1..MaxLevel /\ (q + 1) - 1 = q /\ ~(q + 1 <= q)
      BY <1>1, <1>7, <2>2
    <3>2. grown[q + 1] = <<>> /\ grown[q + 1] = buildLevelx(grown[q])
      BY <1>2, <1>7, <3>1
    <3>3. ASSUME ~(Len(grown[q]) <= 1) PROVE FALSE
      <4>1. Len(grown[q]) \in Nat \ {0}
        BY <1>3, <1>7, <3>3
      <4>2. Covers(buildLevelx(grown[q]), Len(grown[q]))
        BY <3>3, <4>1, GroupedCovers DEF buildLevelx
      <4> QED BY <3>2, <4>2 DEF Covers
    <3>4. Len(grown[q]) \in Nat /\ Len(grown[q]) <= 1
      BY <1>3, <1>7, <3>3
    <3>5. \A l \in Nat : l >= 1 /\ l <= 1 => l = 1
      OBVIOUS
    <3> QED BY <1>8, <3>4, <3>5
  <2> QED BY <2>1, <2>2
<1>10. \A r \in (q + 1)..MaxLevel : Len(grown[r]) # 1
  <2> TAKE r \in (q + 1)..MaxLevel
  <2>1. r \in 1..MaxLevel /\ ~(r <= q)
    BY <1>1, <1>7
  <2>2. grown[r] = <<>>
    BY <1>7, <2>1
  <2> QED BY <2>2
<1>11. q \in 1..MaxLevel
  BY <1>7
<1>12. Top(grown) \in 1..MaxLevel /\ Len(grown[Top(grown)]) = 1
  BY <1>9, <1>10, <1>11 DEF Top
<1> QED BY <1>12 DEF grown

-------------------------------------------------------------------------------
\* The level files and the walk.

\* No element that one read of lookupLP takes in comes again.
NoRepeat(seq) == \A i, j \in DOMAIN seq : i < j /\ i <= LevelCap => seq[i] # seq[j]

\* Each level file is a sequence of hashes without such repeats.
LevelsInv ==
  /\ levels = [p \in 1..MaxLevel |-> levels[p]]
  /\ \A p \in 1..MaxLevel :
       /\ \E Hash : levels[p] \in Seq(Hash)
       /\ NoRepeat(levels[p])

LEMMA TreeSizes == MaxLevel \in Nat \ {0} /\ LevelCap \in Nat
BY TreeAssumption, MerkleAssumption

\* A hash that a look at the first LevelCap misses can be appended.
LEMMA AppendNew ==
  ASSUME NEW Hash, NEW seq \in Seq(Hash), NEW hash, NoRepeat(seq),
         ~\E i \in DOMAIN seq : i <= LevelCap /\ seq[i] = hash
  PROVE  Append(seq, hash) \in Seq(Hash \cup {hash}) /\ NoRepeat(Append(seq, hash))
<1> DEFINE longer == Append(seq, hash)
<1>1. Len(seq) \in Nat /\ DOMAIN seq = 1..Len(seq) /\ LevelCap \in Nat
  BY TreeSizes
<1>2. seq \in Seq(Hash \cup {hash})
  OBVIOUS
<1>3. /\ longer \in Seq(Hash \cup {hash})
      /\ DOMAIN longer = 1..(Len(seq) + 1)
      /\ longer[Len(seq) + 1] = hash
      /\ \A i \in 1..Len(seq) : longer[i] = seq[i]
  BY <1>2
<1> HIDE DEF longer
<1>4. ASSUME NEW i \in 1..(Len(seq) + 1), NEW j \in 1..(Len(seq) + 1), i < j, i <= LevelCap
      PROVE  longer[i] # longer[j]
  <2>1. i \in 1..Len(seq)
    BY <1>1, <1>4
  <2>2. CASE j \in 1..Len(seq)
    BY <1>1, <1>3, <1>4, <2>1, <2>2 DEF NoRepeat
  <2>3. CASE j = Len(seq) + 1
    BY <1>1, <1>3, <1>4, <2>1, <2>3
  <2> QED BY <1>1, <2>2, <2>3
<1>5. NoRepeat(longer)
  BY <1>3, <1>4 DEF NoRepeat
<1> QED BY <1>3, <1>5 DEF longer

LEMMA InitLevels == Init => LevelsInv
<1> SUFFICES ASSUME Init PROVE LevelsInv
  OBVIOUS
<1>1. levels = [p \in 1..MaxLevel |-> <<>>]
  BY DEF Init
<1>2. \A p \in 1..MaxLevel : levels[p] \in Seq({}) /\ NoRepeat(levels[p])
  BY <1>1 DEF NoRepeat
<1> QED BY <1>1, <1>2 DEF LevelsInv

LEMMA InsertKeeps ==
  ASSUME LevelsInv, NEW p \in 1..MaxLevel, NEW hash, ~lookupLP(p, hash), insertLP(p, hash)
  PROVE  LevelsInv'
<1>1. CASE p \notin reached
  <2>1. UNCHANGED levels
    BY <1>1 DEF insertLP
  <2> QED BY <2>1 DEF LevelsInv, NoRepeat
<1>2. CASE p \in reached
  <2>1. levels' = [levels EXCEPT ![p] = Append(levels[p], hash)] /\ DOMAIN levels = 1..MaxLevel
    BY <1>2 DEF insertLP, LevelsInv
  <2>2. /\ levels' = [q \in 1..MaxLevel |-> levels'[q]]
        /\ levels'[p] = Append(levels[p], hash)
        /\ \A q \in 1..MaxLevel : q # p => levels'[q] = levels[q]
    BY <2>1
  <2>3. ~\E i \in DOMAIN levels[p] : i <= LevelCap /\ levels[p][i] = hash
    BY <1>2 DEF lookupLP
  <2>4. PICK Hash : levels[p] \in Seq(Hash)
    BY DEF LevelsInv
  <2>5. NoRepeat(levels[p])
    BY DEF LevelsInv
  <2>6. Append(levels[p], hash) \in Seq(Hash \cup {hash}) /\ NoRepeat(Append(levels[p], hash))
    BY <2>3, <2>4, <2>5, AppendNew
  <2>7. ASSUME NEW q \in 1..MaxLevel
        PROVE  (\E H : levels'[q] \in Seq(H)) /\ NoRepeat(levels'[q])
    <3>1. CASE q = p
      BY <2>2, <2>6, <3>1
    <3>2. CASE q # p
      BY <2>2, <3>2 DEF LevelsInv
    <3> QED BY <3>1, <3>2
  <2> QED BY <2>2, <2>7 DEF LevelsInv, NoRepeat
<1> QED BY <1>1, <1>2

LEMMA NextLevels == LevelsInv /\ [Next]_vars => LevelsInv'
<1> SUFFICES ASSUME LevelsInv, [Next]_vars PROVE LevelsInv'
  OBVIOUS
<1>1. ASSUME UNCHANGED levels PROVE LevelsInv'
  BY <1>1 DEF LevelsInv, NoRepeat
<1>2. ASSUME NEW p \in 1..MaxLevel, WalkNew(p) \/ WalkChildless(p) PROVE LevelsInv'
  <2>1. ~lookupLP(p, Node.hash) /\ insertLP(p, Node.hash)
    BY <1>2 DEF WalkNew, WalkChildless
  <2> QED BY <2>1, InsertKeeps
<1>3. UNCHANGED vars => UNCHANGED levels
  BY DEF vars, store
<1>4. WalkChunk \/ WalkDone \/ Save \/ Crash => UNCHANGED levels
  BY DEF WalkChunk, WalkDone, Save, Crash, store
<1>5. \A p \in 1..MaxLevel : WalkKnown(p) => UNCHANGED levels
  BY DEF WalkKnown, store
<1>6. \A f \in Files : PlainWrite(f) \/ Build(f) \/ BuildEmpty(f) \/ BuildTooHigh(f)
                         => UNCHANGED levels
  BY DEF PlainWrite, Build, BuildEmpty, BuildTooHigh, store
<1> QED BY <1>1, <1>2, <1>3, <1>4, <1>5, <1>6 DEF Next, Work

\* Of the hashes one read of a level file takes in none comes again, there or
\* behind them, however long the file gets, whatever levels' files a walk
\* reaches, over walks that die and are tried again (lookupLP, insertLP).
THEOREM HashesOnceHolds == Spec => []HashesOnce
<1>1. LevelsInv => HashesOnce
  BY DEF LevelsInv, NoRepeat, HashesOnce
<1> QED BY <1>1, InitLevels, NextLevels, PTL DEF Spec

-------------------------------------------------------------------------------
\* The tree of a walk is the one built for its file, and the stack is a
\* sequence of places.
WalkInv ==
  /\ TypeOK
  /\ stack \in Seq((0..MaxLevel) \X Nat)
  /\ tree = NoTree \/ (file # <<>> /\ tree = buildTree(Leaves(file)))

LEMMA LeavesLen ==
  ASSUME NEW f \in Seq(Chunk)
  PROVE  Len(Leaves(f)) = Len(f) /\ (f # <<>> => Len(f) \in Nat \ {0})
<1>1. Len(f) \in Nat /\ DOMAIN f = 1..Len(f)
  OBVIOUS
<1>2. Leaves(f) = [i \in 1..Len(f) |-> [hash |-> ChunkHash(f[i])]]
  BY <1>1 DEF Leaves
<1>3. Len(Leaves(f)) = Len(f)
  BY <1>1, <1>2
<1> QED BY <1>1, <1>3

\* A level of the walk's tree is empty or covers the one below it.
LEMMA TreeLevelsCover ==
  ASSUME WalkInv, NEW p \in 1..MaxLevel, tree[p] # <<>>
  PROVE  Covers(tree[p], Below(p)) /\ Below(p) \in Nat
<1>1. tree # NoTree
  BY DEF NoTree
<1>2. file \in Seq(Chunk) /\ file # <<>> /\ tree = buildTree(Leaves(file))
  BY <1>1 DEF WalkInv, TypeOK
<1>3. Len(Leaves(file)) = Len(file) /\ Len(file) \in Nat \ {0}
  BY <1>2, LeavesLen
<1>4. Covers(tree[p], Under(Leaves(file), p))
  BY <1>2, <1>3, LevelsCover
<1>5. Under(Leaves(file), p) = Below(p)
  BY <1>2, <1>3 DEF Under, Below
<1>6. Below(p) \in Nat
  <2>1. p # 1 => p - 1 \in 1..MaxLevel
    BY TreeSizes
  <2> QED BY <1>2, <1>3, <2>1, LevelsCover DEF Below
<1> QED BY <1>4, <1>5, <1>6

LEMMA InitWalk == Init => WalkInv
<1> SUFFICES ASSUME Init PROVE WalkInv
  OBVIOUS
<1>1. recipes \in Seq(Seq(Chunk)) /\ file \in Seq(Chunk) /\ found \in Seq(BOOLEAN)
      /\ Len(found) = Len(file) /\ DOMAIN stack = {} /\ stack \in Seq((0..MaxLevel) \X Nat)
  BY DEF Init
<1> QED BY <1>1 DEF Init, WalkInv, TypeOK

\* The end of a process leaves nothing to visit.
LEMMA ExitKeeps ==
  ASSUME Exit, index' \subseteq Chunk, containers' \subseteq Chunk,
         recipes' \in Seq(Seq(Chunk)), DOMAIN levels' = 1..MaxLevel
  PROVE  WalkInv'
<1>1. /\ file' \in Seq(Chunk) /\ found' \in Seq(BOOLEAN) /\ Len(found') = Len(file')
      /\ DOMAIN stack' = {} /\ stack' \in Seq((0..MaxLevel) \X Nat)
      /\ pc' = "idle" /\ visible' = {} /\ reached' = {} /\ tree' = NoTree
  BY DEF Exit
<1> QED BY <1>1 DEF WalkInv, TypeOK, NoTree

\* A place in the stack is a place in the tree.
Place(at) ==
  /\ at[1] \in 0..MaxLevel
  /\ at[2] \in 1..Len(IF at[1] = 0 THEN file ELSE tree[at[1]])

\* What a step that leaves file and tree alone has to show of the stack.
LEMMA StackKeeps ==
  ASSUME WalkInv, UNCHANGED <<file, tree, index, containers, recipes, reached, visible>>,
         pc' \in {"idle", "walk", "save"},
         DOMAIN levels' = 1..MaxLevel, found' \in Seq(BOOLEAN), Len(found') = Len(file),
         stack' \in Seq((0..MaxLevel) \X Nat),
         \A i \in DOMAIN stack' : Place(stack'[i])
  PROVE  WalkInv'
BY DEF WalkInv, TypeOK, Place, NoTree

LEMMA TailPlaces ==
  ASSUME WalkInv, stack # <<>>
  PROVE  /\ Tail(stack) \in Seq((0..MaxLevel) \X Nat)
         /\ \A i \in DOMAIN Tail(stack) : Place(Tail(stack)[i])
         /\ Place(Head(stack))
<1>1. stack \in Seq((0..MaxLevel) \X Nat) /\ \A i \in DOMAIN stack : Place(stack[i])
  BY DEF WalkInv, TypeOK, Place
<1>2. /\ Tail(stack) \in Seq((0..MaxLevel) \X Nat)
      /\ \A i \in DOMAIN Tail(stack) : i + 1 \in DOMAIN stack /\ Tail(stack)[i] = stack[i + 1]
      /\ 1 \in DOMAIN stack /\ Head(stack) = stack[1]
  BY <1>1
<1> QED BY <1>1, <1>2

\* The children of a node are places in the level below it.
LEMMA ChildPlaces ==
  ASSUME WalkInv, NEW p \in 1..MaxLevel, Visiting(p), Node.first <= Node.last
  PROVE  /\ Children(p, Node) \in Seq((0..MaxLevel) \X Nat)
         /\ \A i \in DOMAIN Children(p, Node) : Place(Children(p, Node)[i])
<1> DEFINE k == Head(stack)[2]
<1> DEFINE seq == Children(p, Node)
<1>1. stack # <<>> /\ Head(stack)[1] = p /\ MaxLevel \in Nat
  BY TreeSizes DEF Visiting
<1>2. k \in 1..Len(tree[p]) /\ Node = tree[p][k]
  BY <1>1, TailPlaces DEF Place, Node
<1>3. tree[p] # <<>>
  BY <1>2
<1>4. Covers(tree[p], Below(p)) /\ Below(p) \in Nat
  BY <1>3, TreeLevelsCover
<1>5. Node.first \in Nat \ {0} /\ Node.last \in 0..Below(p)
  <2>1. PICK S : tree[p] \in Seq(S)
    BY <1>4 DEF Covers
  <2>2. k \in DOMAIN tree[p]
    BY <1>2, <2>1
  <2> QED BY <1>2, <1>4, <2>2 DEF Covers
<1> DEFINE first == Node.first
<1> DEFINE last == Node.last
<1>6. seq = [i \in 1..(last - first + 1) |-> <<p - 1, first + i - 1>>]
  BY DEF Children
<1> HIDE DEF first, last, k, seq
<1>7. first \in Nat \ {0} /\ last \in 0..Below(p) /\ first <= last
  BY <1>5 DEF first, last
<1>8. p - 1 \in 0..MaxLevel /\ (p - 1 = 0 <=> p = 1)
  BY <1>1
<1>9. \A i \in 1..(last - first + 1) :
         /\ first + i - 1 \in 1..Below(p) /\ first + i - 1 \in Nat
         /\ <<p - 1, first + i - 1>> \in (0..MaxLevel) \X Nat
  BY <1>4, <1>7, <1>8
<1>10. last - first + 1 \in Nat
  BY <1>4, <1>7
<1>11. seq \in Seq((0..MaxLevel) \X Nat) /\ DOMAIN seq = 1..(last - first + 1)
  BY <1>6, <1>9, <1>10
<1>12. \A i \in 1..(last - first + 1) : Place(seq[i])
  <2> TAKE i \in 1..(last - first + 1)
  <2>1. seq[i][1] = p - 1 /\ seq[i][2] = first + i - 1
    BY <1>6
  <2>2. Below(p) = Len(IF p - 1 = 0 THEN file ELSE tree[p - 1])
    BY <1>8 DEF Below
  <2> QED BY <1>8, <1>9, <2>1, <2>2 DEF Place
<1> QED BY <1>11, <1>12 DEF seq

\* A sequence with one element changed has its length and its type.
LEMMA ChangeKeeps ==
  ASSUME NEW S, NEW seq \in Seq(S), NEW k, NEW x \in S
  PROVE  [seq EXCEPT ![k] = x] \in Seq(S) /\ Len([seq EXCEPT ![k] = x]) = Len(seq)
<1>1. Len(seq) \in Nat /\ DOMAIN seq = 1..Len(seq) /\ \A i \in 1..Len(seq) : seq[i] \in S
  OBVIOUS
<1>2. [seq EXCEPT ![k] = x] = [i \in 1..Len(seq) |-> IF i = k THEN x ELSE seq[i]]
  BY <1>1
<1> DEFINE changed == [seq EXCEPT ![k] = x]
<1>3. /\ changed = [i \in 1..Len(seq) |-> changed[i]]
      /\ \A i \in 1..Len(seq) : changed[i] \in S
  BY <1>1, <1>2
<1> HIDE DEF changed
<1>4. changed \in Seq(S) /\ Len(changed) = Len(seq)
  BY <1>1, <1>3
<1> QED BY <1>4 DEF changed

LEMMA NextWalk == WalkInv /\ [Next]_vars => WalkInv'
<1> SUFFICES ASSUME WalkInv, [Next]_vars PROVE WalkInv'
  OBVIOUS
<1>1. /\ index \subseteq Chunk /\ containers \subseteq Chunk /\ recipes \in Seq(Seq(Chunk))
      /\ DOMAIN levels = 1..MaxLevel /\ file \in Seq(Chunk)
      /\ found \in Seq(BOOLEAN) /\ Len(found) = Len(file)
      /\ visible \subseteq index /\ reached \subseteq 0..MaxLevel
      /\ stack \in Seq((0..MaxLevel) \X Nat) /\ \A i \in DOMAIN stack : Place(stack[i])
  BY DEF WalkInv, TypeOK, Place
<1>2. ASSUME UNCHANGED <<store, pc, run>> PROVE WalkInv'
  BY <1>2 DEF store, run, WalkInv, TypeOK, NoTree
<1>3. UNCHANGED vars => WalkInv'
  BY <1>2 DEF vars
<1>4. ASSUME NEW f \in Files, PlainWrite(f) PROVE WalkInv'
  <2>1. f \in Seq(Chunk)
    BY MerkleAssumption
  <2>2. Range(f) \subseteq Chunk
    BY <2>1 DEF Range
  <2>3. /\ index' = index \cup Range(f) /\ containers' = containers \cup Range(f)
        /\ recipes' = Append(recipes, f) /\ UNCHANGED <<levels, pc, run>>
    BY <1>4 DEF PlainWrite
  <2>4. recipes' \in Seq(Seq(Chunk))
    BY <1>1, <2>1, <2>3
  <2>5. index' \subseteq Chunk /\ containers' \subseteq Chunk /\ visible \subseteq index'
    BY <1>1, <2>2, <2>3
  <2> QED BY <1>1, <2>3, <2>4, <2>5 DEF run, WalkInv, TypeOK, NoTree
<1>5. ASSUME NEW f \in Files, Build(f) PROVE WalkInv'
  <2>1. f \in Seq(Chunk) /\ f # <<>> /\ MaxLevel \in Nat \ {0}
    BY <1>5, MerkleAssumption, TreeSizes DEF Build
  <2>2. /\ tree' = buildTree(Leaves(f)) /\ ~TooHigh(buildTree(Leaves(f)))
        /\ stack' = << <<Top(tree'), 1>> >> /\ file' = f
        /\ found' = [i \in DOMAIN f |-> TRUE]
        /\ reached' \subseteq 0..MaxLevel
        /\ visible' \in IF 0 \in reached' THEN Seen(index) ELSE {{}}
        /\ pc' = "walk" /\ UNCHANGED store
    BY <1>5 DEF Build, TooHigh
  <2>3. Top(tree') \in 1..MaxLevel /\ Len(tree'[Top(tree')]) = 1
    BY <2>1, <2>2, LeavesLen, TopExists
  <2>4. DOMAIN f = 1..Len(f) /\ Len(f) \in Nat
    BY <2>1
  <2>5. found' \in Seq(BOOLEAN) /\ Len(found') = Len(f)
    BY <2>2, <2>4
  <2>6. visible' \subseteq index
    BY <2>2 DEF Seen
  <2>7. Top(tree') \in 0..MaxLevel /\ Top(tree') # 0
    BY <2>1, <2>3
  <2> DEFINE top == Top(tree')
  <2> HIDE DEF top
  <2>8. /\ stack' \in Seq((0..MaxLevel) \X Nat) /\ DOMAIN stack' = {1}
        /\ stack'[1][1] = top /\ stack'[1][2] = 1
    <3>1. stack' = << <<top, 1>> >> /\ <<top, 1>> \in (0..MaxLevel) \X Nat
      BY <2>2, <2>7 DEF top
    <3> QED BY <3>1
  <2>9. \A i \in DOMAIN stack' : Place(stack[i])'
    <3>1. Place(stack[1])'
      <4>1. Len(tree'[top]) = 1 /\ top \in 0..MaxLevel /\ top # 0
        BY <2>3, <2>7 DEF top
      <4>2. 1 \in 1..Len(tree'[top])
        BY <4>1
      <4> QED BY <2>8, <4>1, <4>2 DEF Place
    <3> QED BY <2>8, <3>1
  <2> QED BY <1>1, <2>1, <2>2, <2>5, <2>6, <2>8, <2>9 DEF store, WalkInv, TypeOK, Place
<1>6. ASSUME WalkChunk PROVE WalkInv'
  <2>1. /\ stack # <<>> /\ stack' = Tail(stack) /\ pc = "walk"
        /\ UNCHANGED <<store, pc, file, tree, reached, visible>>
        /\ found' = [found EXCEPT ![Head(stack)[2]] = file[Head(stack)[2]] \in visible]
    BY <1>6 DEF WalkChunk, Visiting
  <2>2. found' \in Seq(BOOLEAN) /\ Len(found') = Len(file)
    <3> DEFINE seen == file[Head(stack)[2]] \in visible
    <3>1. seen \in BOOLEAN
      OBVIOUS
    <3> HIDE DEF seen
    <3>2. found' = [found EXCEPT ![Head(stack)[2]] = seen]
      BY <2>1 DEF seen
    <3>3. found' \in Seq(BOOLEAN) /\ Len(found') = Len(found)
      <4> DEFINE Bool == BOOLEAN
      <4>1. seen \in Bool /\ found \in Seq(Bool)
        BY <1>1, <3>1
      <4> HIDE DEF Bool
      <4>2. found' \in Seq(Bool) /\ Len(found') = Len(found)
        BY <3>2, <4>1, ChangeKeeps
      <4> QED BY <4>2 DEF Bool
    <3> QED BY <1>1, <3>3
  <2> QED BY <1>1, <2>1, <2>2, TailPlaces, StackKeeps DEF store
<1>7. ASSUME NEW p \in 1..MaxLevel, WalkKnown(p) PROVE WalkInv'
  <2>1. /\ stack # <<>> /\ stack' = Tail(stack) /\ pc = "walk"
        /\ UNCHANGED <<store, pc, file, tree, found, reached, visible>>
    BY <1>7 DEF WalkKnown, Visiting
  <2> QED BY <1>1, <2>1, TailPlaces, StackKeeps DEF store
<1>8. ASSUME NEW p \in 1..MaxLevel, WalkNew(p) PROVE WalkInv'
  <2>1. /\ stack # <<>> /\ pc = "walk" /\ Visiting(p) /\ Node.first <= Node.last
        /\ stack' = Children(p, Node) \o Tail(stack)
        /\ DOMAIN levels' = DOMAIN levels
        /\ UNCHANGED <<index, recipes, containers, pc, file, tree, found, reached, visible>>
    BY <1>8 DEF WalkNew, Visiting, insertLP
  <2>2. /\ Children(p, Node) \in Seq((0..MaxLevel) \X Nat)
        /\ \A i \in DOMAIN Children(p, Node) : Place(Children(p, Node)[i])
    BY <2>1, ChildPlaces
  <2>3. /\ Tail(stack) \in Seq((0..MaxLevel) \X Nat)
        /\ \A i \in DOMAIN Tail(stack) : Place(Tail(stack)[i])
    BY <2>1, TailPlaces
  <2>4. stack' \in Seq((0..MaxLevel) \X Nat) /\ \A i \in DOMAIN stack' : Place(stack'[i])
    <3> DEFINE front == Children(p, Node)
    <3> DEFINE back == Tail(stack)
    <3> HIDE DEF front, back
    <3>1. stack' = front \o back
      BY <2>1 DEF front, back
    <3>2. /\ front \in Seq((0..MaxLevel) \X Nat) /\ back \in Seq((0..MaxLevel) \X Nat)
          /\ \A i \in DOMAIN front : Place(front[i])
          /\ \A i \in DOMAIN back : Place(back[i])
      BY <2>2, <2>3 DEF front, back
    <3>3. stack' \in Seq((0..MaxLevel) \X Nat)
      BY <3>1, <3>2
    <3>4. \A i \in DOMAIN stack' :
            \/ i \in DOMAIN front /\ stack'[i] = front[i]
            \/ i - Len(front) \in DOMAIN back /\ stack'[i] = back[i - Len(front)]
      BY <3>1, <3>2
    <3> QED BY <3>2, <3>3, <3>4
  <2>5. DOMAIN levels' = 1..MaxLevel
    BY <1>1, <2>1
  <2> QED BY <1>1, <2>1, <2>4, <2>5, StackKeeps
<1>9. ASSUME NEW p \in 1..MaxLevel, WalkChildless(p) PROVE WalkInv'
  <2>1. /\ DOMAIN levels' = DOMAIN levels
        /\ Exit /\ UNCHANGED <<index, recipes, containers>>
    BY <1>9 DEF WalkChildless, insertLP
  <2>2. DOMAIN levels' = 1..MaxLevel
    BY <1>1, <2>1
  <2> QED BY <1>1, <2>1, <2>2, ExitKeeps
<1>10. ASSUME WalkDone PROVE WalkInv'
  <2>1. pc' = "save" /\ UNCHANGED <<store, run>>
    BY <1>10 DEF WalkDone
  <2> QED BY <2>1 DEF store, run, WalkInv, TypeOK, NoTree
<1>11. ASSUME Save PROVE WalkInv'
  <2>1. /\ recipes' = Append(recipes, file) /\ Exit /\ UNCHANGED <<index, levels>>
        /\ containers' \subseteq containers \cup {file[i] : i \in DOMAIN file}
    BY <1>11 DEF Save
  <2>2. recipes' \in Seq(Seq(Chunk)) /\ containers' \subseteq Chunk
    BY <1>1, <2>1
  <2> QED BY <1>1, <2>1, <2>2, ExitKeeps
<1>12. ASSUME Crash PROVE WalkInv'
  BY <1>1, <1>12, ExitKeeps DEF Crash, store
<1>13. \A f \in Files : BuildEmpty(f) \/ BuildTooHigh(f) => WalkInv'
  BY <1>2 DEF BuildEmpty, BuildTooHigh
<1> QED BY <1>3, <1>4, <1>5, <1>6, <1>7, <1>8, <1>9, <1>10, <1>11, <1>12, <1>13 DEF Next, Work

\* The children of each level's nodes are the level below, each once and in
\* order, and the walk only visits nodes there are (buildLevel1, buildLevelx,
\* markNonDuplicateNodes, walk).
THEOREM TreeCoversHolds == Spec => []TreeCovers
<1>1. WalkInv => TreeCovers
  <2> SUFFICES ASSUME WalkInv, NEW p \in 1..MaxLevel, tree[p] # <<>>
               PROVE  /\ tree[p][1].first = 1 /\ tree[p][Len(tree[p])].last = Below(p)
                      /\ \A k \in DOMAIN tree[p] :
                           /\ tree[p][k].last - tree[p][k].first < GroupSize
                           /\ k < Len(tree[p]) => tree[p][k + 1].first = tree[p][k].last + 1
    BY DEF TreeCovers, WalkInv
  <2> QED BY TreeLevelsCover DEF Covers
<1> QED BY <1>1, InitWalk, NextWalk, PTL DEF Spec

-------------------------------------------------------------------------------
\* The nodes above a chunk.

\* The nodes of each level of tree t that are above chunk i, and the chunk.
Way(t, i) ==
  LET over[p \in 0..MaxLevel] ==
        IF p = 0 THEN {i}
        ELSE {k \in DOMAIN t[p] :
                \E j \in over[p - 1] : t[p][k].first <= j /\ j <= t[p][k].last}
  IN  over

\* The nodes of a level above the places w in the level below.
Step(level, w) == {k \in DOMAIN level : \E j \in w : level[k].first <= j /\ j <= level[k].last}

\* The recursion of Way has a value at every level.
LEMMA WayLevels ==
  ASSUME NEW t, NEW i
  PROVE  /\ Way(t, i)[0] = {i}
         /\ \A p \in 1..MaxLevel : Way(t, i)[p] = Step(t[p], Way(t, i)[p - 1])
<1> DEFINE Up(g, n) == [p \in 0..n |-> IF p = 0 THEN {i} ELSE Step(t[p], g[p - 1])]
<1> DEFINE Built == {n \in Nat : \E g : g = Up(g, n)}
<1>1. MaxLevel \in Nat \ {0}
  BY TreeAssumption
<1>2. 0 \in Built
  <2> DEFINE g == [p \in {0} |-> {i}]
  <2>1. 0..0 = {0}
    OBVIOUS
  <2>2. g = Up(g, 0)
    BY <2>1
  <2> QED BY <2>2
<1>3. ASSUME NEW n \in 0..(MaxLevel - 1), n \in Built
      PROVE  n + 1 \in Built
  <2>1. PICK g : g = Up(g, n)
    BY <1>3
  <2> DEFINE h == [p \in 0..(n + 1) |-> IF p <= n THEN g[p] ELSE Step(t[p], g[p - 1])]
  <2>2. \A p \in 0..n : g[p] = IF p = 0 THEN {i} ELSE Step(t[p], g[p - 1])
    BY <2>1
  <2>3. n \in Nat
    BY <1>1
  <2>4. \A p \in 0..(n + 1) : p # 0 => p - 1 \in 0..n /\ p - 1 <= n /\ p - 1 \in 0..(n + 1)
    BY <2>3
  <2>5. \A p \in 0..(n + 1) : p # 0 => h[p - 1] = g[p - 1]
    BY <2>4
  <2>6. \A p \in 0..(n + 1) : h[p] = IF p = 0 THEN {i} ELSE Step(t[p], h[p - 1])
    <3> TAKE p \in 0..(n + 1)
    <3>1. CASE p <= n
      <4>1. p \in 0..n /\ h[p] = g[p]
        BY <2>3, <3>1
      <4> QED BY <2>2, <2>5, <4>1
    <3>2. CASE ~(p <= n)
      <4>1. h[p] = Step(t[p], g[p - 1]) /\ p # 0
        BY <2>3, <3>2
      <4> QED BY <2>5, <4>1
    <3> QED BY <3>1, <3>2
  <2>7. h = Up(h, n + 1)
    <3>1. h = [p \in 0..(n + 1) |-> h[p]]
      OBVIOUS
    <3> HIDE DEF h
    <3> QED BY <2>6, <3>1
  <2>8. n + 1 \in Nat
    BY <2>3
  <2> QED BY <2>7, <2>8
<1>4. MaxLevel \in Built
  <2> HIDE DEF Built
  <2>1. \A n \in 0..((MaxLevel - 1) + 1) : n \in Built
    BY <1>1, <1>2, <1>3, Reached
  <2> QED BY <1>1, <2>1
<1>5. PICK g : g = Up(g, MaxLevel)
  BY <1>4
<1> DEFINE over == Way(t, i)
<1>6. over = Up(over, MaxLevel)
  BY <1>5 DEF Way, Step
<1>7. 0 \in 0..MaxLevel /\ \A p \in 1..MaxLevel : p \in 0..MaxLevel /\ p # 0
  BY <1>1
<1> HIDE DEF over
<1>8. over[0] = {i} /\ \A p \in 1..MaxLevel : over[p] = Step(t[p], over[p - 1])
  BY <1>6, <1>7
<1> QED BY <1>8 DEF over

\* Every place below a level is under exactly one of its nodes, whose number
\* is not greater.
LEMMA OneAbove ==
  ASSUME NEW level, NEW n \in Nat, Covers(level, n), NEW j \in 1..n
  PROVE  /\ \E k \in DOMAIN level : Step(level, {j}) = {k} /\ k <= j
<1>1. PICK S : level \in Seq(S)
  BY DEF Covers
<1> DEFINE len == Len(level)
<1>2. DOMAIN level = 1..len /\ len \in Nat /\ len # 0
  BY <1>1 DEF Covers
<1>3. \A k \in 1..len :
        /\ level[k].first \in Nat \ {0} /\ level[k].last \in 0..n
        /\ k < len => level[k + 1].first = level[k].last + 1
        /\ k <= level[k].first
        /\ \A l \in 1..len : k < l => level[k].last < level[l].first
  BY <1>2 DEF Covers
<1>4. level[1].first = 1 /\ level[len].last = n
  BY DEF Covers
<1> HIDE DEF len
<1> DEFINE Before == {k \in 1..len : level[k].first <= j}
<1>5. PICK k \in Before : \A l \in Before : l <= k
  <2>1. Before \in SUBSET (0..len) /\ 1 \in Before
    BY <1>2, <1>4
  <2> HIDE DEF Before
  <2> QED BY <1>2, <2>1, HasGreatest
<1>6. k \in 1..len /\ level[k].first <= j
  BY <1>5
<1>7. j <= level[k].last
  <2>1. CASE k = len
    BY <1>4, <2>1
  <2>2. CASE k # len
    <3>1. k < len /\ k + 1 \in 1..len
      BY <1>2, <1>6, <2>2
    <3>2. k + 1 \notin Before
      BY <1>5, <1>6
    <3>3. ~(level[k + 1].first <= j) /\ level[k + 1].first = level[k].last + 1
      BY <1>3, <1>6, <3>1, <3>2
    <3>4. level[k].last \in Int
      BY <1>3, <1>6
    <3> QED BY <3>3, <3>4
  <2> QED BY <2>1, <2>2
<1>8. ASSUME NEW l \in 1..len, level[l].first <= j, j <= level[l].last PROVE l = k
  <2>1. ~(l < k)
    <3> SUFFICES ASSUME l < k PROVE FALSE
      OBVIOUS
    <3>1. level[l].last < level[k].first
      BY <1>3, <1>6
    <3>2. level[l].last \in Int /\ level[k].first \in Int
      BY <1>3, <1>6
    <3> QED BY <1>6, <1>8, <3>1, <3>2
  <2>2. ~(k < l)
    <3> SUFFICES ASSUME k < l PROVE FALSE
      OBVIOUS
    <3>1. level[k].last < level[l].first
      BY <1>3, <1>6
    <3>2. level[k].last \in Int /\ level[l].first \in Int
      BY <1>3, <1>6
    <3> QED BY <1>7, <1>8, <3>1, <3>2
  <2> QED BY <1>2, <1>6, <2>1, <2>2
<1>9. Step(level, {j}) = {k}
  BY <1>2, <1>6, <1>7, <1>8 DEF Step
<1>10. k <= j
  <2>1. k <= level[k].first /\ level[k].first \in Int
    BY <1>3, <1>6
  <2> QED BY <1>2, <1>6, <2>1
<1> QED BY <1>2, <1>6, <1>9, <1>10

\* The way up from a chunk: one node on each level there is, none above.
LEMMA OneWay ==
  ASSUME NEW f \in Seq(Chunk), f # <<>>, NEW i \in DOMAIN f, NEW p \in 0..MaxLevel
  PROVE  LET t == buildTree(Leaves(f))
             w == Way(t, i)[p]
         IN  IF p # 0 /\ t[p] = <<>> THEN w = {}
             ELSE \E k \in 1..Len(IF p = 0 THEN f ELSE t[p]) : w = {k} /\ k <= i
<1> DEFINE t == buildTree(Leaves(f))
<1> DEFINE Size(q) == Len(IF q = 0 THEN f ELSE t[q])
<1> DEFINE Gone(q) == q # 0 /\ t[q] = <<>>
<1> DEFINE Fine(q) == IF Gone(q) THEN Way(t, i)[q] = {}
                      ELSE \E k \in 1..Size(q) : Way(t, i)[q] = {k} /\ k <= i
<1> DEFINE Reach == {n \in Nat : n \in 0..MaxLevel => Fine(n)}
<1>1. MaxLevel \in Nat \ {0} /\ Len(f) \in Nat \ {0} /\ DOMAIN f = 1..Len(f) /\ i \in Nat
  BY TreeAssumption
<1>2. Len(Leaves(f)) = Len(f)
  BY LeavesLen
<1>3. Way(t, i)[0] = {i} /\ \A q \in 1..MaxLevel : Way(t, i)[q] = Step(t[q], Way(t, i)[q - 1])
  BY WayLevels
<1>4. \A q \in 2..MaxLevel : t[q] = buildLevelx(t[q - 1])
  BY TreeLevels
<1>5. \A q \in 1..MaxLevel : t[q] = <<>> \/ Covers(t[q], Under(Leaves(f), q))
  BY <1>1, <1>2, LevelsCover
<1>6. \A q \in 1..MaxLevel : Under(Leaves(f), q) = Size(q - 1)
  <2> TAKE q \in 1..MaxLevel
  <2>1. q - 1 = 0 <=> q = 1
    OBVIOUS
  <2> QED BY <1>2, <2>1 DEF Under
<1>7. \A q \in 0..MaxLevel : Size(q) \in Nat
  <2> TAKE q \in 0..MaxLevel
  <2>1. q # 0 => q \in 1..MaxLevel
    BY <1>1
  <2> QED BY <1>1, <1>2, <2>1, LevelsCover
<1> HIDE DEF t
<1>8. 0 \in Reach
  BY <1>1, <1>3
<1>9. ASSUME NEW n \in 0..(MaxLevel - 1), n \in Reach PROVE n + 1 \in Reach
  <2>1. /\ n \in Nat /\ n + 1 \in Nat /\ n + 1 \in 1..MaxLevel /\ n \in 0..MaxLevel
        /\ (n + 1) - 1 = n /\ n + 1 # 0
    BY <1>1
  <2>2. Way(t, i)[n + 1] = Step(t[n + 1], Way(t, i)[n])
    BY <1>3, <2>1
  <2>3. Fine(n)
    BY <1>9, <2>1
  <2> SUFFICES Fine(n + 1)
    BY <2>1
  <2>4. CASE t[n + 1] = <<>>
    BY <2>1, <2>2, <2>4 DEF Step
  <2>5. CASE t[n + 1] # <<>>
    <3>1. ~Gone(n)
      <4> SUFFICES ASSUME Gone(n) PROVE FALSE
        OBVIOUS
      <4>1. n + 1 \in 2..MaxLevel
        BY <2>1
      <4>2. t[n + 1] = buildLevelx(t[n]) /\ t[n] = <<>>
        BY <1>4, <2>1, <4>1
      <4>3. Len(t[n]) <= 1
        BY <4>2
      <4> QED BY <2>5, <4>2, <4>3 DEF buildLevelx
    <3>2. PICK j \in 1..Size(n) : Way(t, i)[n] = {j} /\ j <= i
      BY <2>3, <3>1
    <3>3. Covers(t[n + 1], Size(n)) /\ Size(n) \in Nat
      BY <1>5, <1>6, <1>7, <2>1, <2>5
    <3> HIDE DEF Size, Fine
    <3>4. PICK k \in DOMAIN t[n + 1] : Step(t[n + 1], {j}) = {k} /\ k <= j
      BY <3>3, OneAbove
    <3>5. DOMAIN t[n + 1] = 1..Size(n + 1)
      <4>1. PICK S : t[n + 1] \in Seq(S)
        BY <3>3 DEF Covers
      <4> QED BY <2>1, <4>1 DEF Size
    <3>6. k <= i
      <4>1. k \in Int /\ j \in Int
        BY <1>7, <2>1, <3>3, <3>4, <3>5
      <4> QED BY <1>1, <3>2, <3>4, <4>1
    <3> QED BY <2>2, <2>5, <3>2, <3>4, <3>5, <3>6 DEF Fine
  <2> QED BY <2>4, <2>5
<1>10. p \in Reach
  <2> HIDE DEF Reach
  <2>3. \A n \in 0..(MaxLevel - 1) : n \in Reach => n + 1 \in Reach
    BY <1>9
  <2>4. MaxLevel - 1 \in Nat
    BY <1>1
  <2>1. \A n \in 0..((MaxLevel - 1) + 1) : n \in Reach
    BY <1>8, <2>3, <2>4, Reached
  <2>2. p \in 0..((MaxLevel - 1) + 1)
    BY <1>1
  <2> QED BY <2>1, <2>2
<1>11. Fine(p)
  BY <1>10
<1> QED BY <1>11 DEF t

-------------------------------------------------------------------------------
\* Why a chunk counts as found.

\* The places of the tree that chunk i is at or under.
Line(i) == {at \in (0..MaxLevel) \X Nat : at[2] \in Way(tree, i)[at[1]]}

\* Of the elements of a sequence one, or at most one, is in T.
Some(seq, T) == \E s \in DOMAIN seq : seq[s] \in T
Single(seq, T) == \A r, s \in DOMAIN seq : seq[r] \in T /\ seq[s] \in T => r = s

LEMMA PopOne ==
  ASSUME NEW S, NEW seq \in Seq(S), seq # <<>>, NEW T, Single(seq, T)
  PROVE  /\ Single(Tail(seq), T)
         /\ Some(Tail(seq), T) <=> (Some(seq, T) /\ Head(seq) \notin T)
<1> DEFINE rest == Tail(seq)
<1>1. /\ Len(seq) \in Nat \ {0} /\ DOMAIN seq = 1..Len(seq) /\ Head(seq) = seq[1]
      /\ DOMAIN rest = 1..(Len(seq) - 1)
      /\ \A s \in 1..(Len(seq) - 1) : rest[s] = seq[s + 1]
  OBVIOUS
<1> DEFINE n == Len(seq)
<1> HIDE DEF rest, n
<1>2. \A s \in 1..(n - 1) : s + 1 \in 1..n /\ s + 1 # 1
  BY <1>1 DEF n
<1>3. \A s \in 1..n : s = 1 \/ (s - 1 \in 1..(n - 1) /\ (s - 1) + 1 = s)
  BY <1>1 DEF n
<1>4. Single(rest, T)
  <2>1. \A r, s \in 1..(n - 1) : r + 1 = s + 1 => r = s
    OBVIOUS
  <2> QED BY <1>1, <1>2, <2>1 DEF Single, n
<1>5. Some(rest, T) => Some(seq, T) /\ Head(seq) \notin T
  <2>1. 1 \in 1..n
    BY <1>1 DEF n
  <2> QED BY <1>1, <1>2, <2>1 DEF Some, Single, n
<1>6. Some(seq, T) /\ Head(seq) \notin T => Some(rest, T)
  BY <1>1, <1>3 DEF Some, n
<1> QED BY <1>4, <1>5, <1>6 DEF rest

LEMMA JoinOne ==
  ASSUME NEW S, NEW a \in Seq(S), NEW b \in Seq(S), NEW T,
         Single(a, T), Single(b, T), ~(Some(a, T) /\ Some(b, T))
  PROVE  /\ Single(a \o b, T)
         /\ Some(a \o b, T) <=> (Some(a, T) \/ Some(b, T))
<1> DEFINE ab == a \o b
<1> DEFINE n == Len(a)
<1> DEFINE m == Len(b)
<1>1. /\ n \in Nat /\ m \in Nat /\ DOMAIN a = 1..n /\ DOMAIN b = 1..m
      /\ DOMAIN ab = 1..(n + m)
      /\ \A s \in 1..n : ab[s] = a[s]
      /\ \A s \in 1..m : ab[n + s] = b[s]
  OBVIOUS
<1> HIDE DEF ab, n, m
<1>2. \A s \in 1..(n + m) : s \in 1..n \/ (s - n \in 1..m /\ n + (s - n) = s)
  BY <1>1
<1>3. \A s \in 1..n : s \in 1..(n + m)
  BY <1>1
<1>4. \A s \in 1..m : n + s \in 1..(n + m)
  BY <1>1
<1>5. \A s \in 1..(n + m) : ab[s] \in T =>
        \/ s \in 1..n /\ a[s] \in T
        \/ s - n \in 1..m /\ b[s - n] \in T
  BY <1>1, <1>2
<1>6. Some(ab, T) <=> (Some(a, T) \/ Some(b, T))
  <2>1. Some(ab, T) => Some(a, T) \/ Some(b, T)
    BY <1>1, <1>5 DEF Some
  <2>2. Some(a, T) => Some(ab, T)
    BY <1>1, <1>3 DEF Some
  <2>3. Some(b, T) => Some(ab, T)
    BY <1>1, <1>4 DEF Some
  <2> QED BY <2>1, <2>2, <2>3
<1>7. Single(ab, T)
  <2> SUFFICES ASSUME NEW r \in 1..(n + m), NEW s \in 1..(n + m), ab[r] \in T, ab[s] \in T
               PROVE  r = s
    BY <1>1 DEF Single
  <2>1. CASE r \in 1..n /\ a[r] \in T
    <3>1. Some(a, T)
      BY <1>1, <2>1 DEF Some
    <3>2. ~(s - n \in 1..m /\ b[s - n] \in T)
      BY <1>1, <3>1 DEF Some
    <3>3. s \in 1..n /\ a[s] \in T
      BY <1>5, <3>2
    <3> QED BY <1>1, <2>1, <3>3 DEF Single
  <2>2. CASE r - n \in 1..m /\ b[r - n] \in T
    <3>1. Some(b, T)
      BY <1>1, <2>2 DEF Some
    <3>2. ~(s \in 1..n /\ a[s] \in T)
      BY <1>1, <3>1 DEF Some
    <3>3. s - n \in 1..m /\ b[s - n] \in T
      BY <1>5, <3>2
    <3>4. r - n = s - n
      BY <1>1, <2>2, <3>3 DEF Single
    <3> QED BY <1>1, <3>4
  <2> QED BY <1>5, <2>1, <2>2
<1> QED BY <1>6, <1>7 DEF ab

\* While chunk i waits below one node of the stack it is found and nothing
\* above it is stopped at; else found says whether it was seen or left out.
Reason(i) ==
  /\ Single(stack, Line(i))
  /\ Some(stack, Line(i)) => found[i] = TRUE /\ Line(i) \cap stopped = {}
  /\ ~Some(stack, Line(i)) =>
       (found[i] <=> (file[i] \in visible \/ Line(i) \cap stopped # {}))

ReasonInv ==
  /\ WalkInv
  /\ pc = "idle" => stopped = {}
  /\ stopped \subseteq (1..MaxLevel) \X Nat
  /\ pc = "save" => stack = <<>>
  /\ pc # "idle" => file # <<>> /\ tree = buildTree(Leaves(file))
                    /\ \A i \in DOMAIN file : Reason(i)

\* Above is Line without the chunk itself, the numbers on a way up not growing.
LEMMA AboveIsLine ==
  ASSUME WalkInv, file # <<>>, tree = buildTree(Leaves(file)), NEW i \in DOMAIN file,
         stopped \subseteq (1..MaxLevel) \X Nat
  PROVE  Above(i) \cap stopped = Line(i) \cap stopped
<1>1. file \in Seq(Chunk)
  BY DEF WalkInv, TypeOK
<1>2. DOMAIN file = 1..Len(file) /\ Len(file) \in Nat /\ MaxLevel \in Nat
  BY <1>1, TreeSizes
<1>3. Above(i) = {node \in (1..MaxLevel) \X (1..Len(file)) : node[2] \in Way(tree, i)[node[1]]}
  BY DEF Above, Way
<1>4. ASSUME NEW at \in stopped, at \in Line(i) PROVE at \in Above(i)
  <2>1. /\ at = <<at[1], at[2]>> /\ at[1] \in 1..MaxLevel /\ at[2] \in Nat
        /\ at[2] \in Way(tree, i)[at[1]]
    BY <1>4 DEF Line
  <2> DEFINE p == at[1]
  <2> DEFINE k == at[2]
  <2>2. p \in 0..MaxLevel /\ p # 0
    BY <1>2, <2>1
  <2> HIDE DEF p, k
  <2>3. Way(tree, i)[p] # {}
    BY <2>1 DEF p, k
  <2>4. \E j \in 1..Len(tree[p]) : Way(tree, i)[p] = {j} /\ j <= i
    BY <1>1, <2>2, <2>3, OneWay
  <2>5. k \in Nat /\ k \in Way(tree, i)[p]
    BY <2>1 DEF p, k
  <2>6. PICK j \in 1..Len(tree[p]) : k = j /\ j <= i
    BY <2>4, <2>5
  <2>7. k \in 1..Len(file)
    <3>1. i \in 1..Len(file) /\ k <= i /\ k # 0
      BY <1>2, <2>5, <2>6
    <3> QED BY <1>2, <2>5, <3>1
  <2> QED BY <1>3, <2>1, <2>7 DEF p, k
<1>5. \A at \in Above(i) : at \in Line(i)
  <2>1. \A at \in (1..MaxLevel) \X (1..Len(file)) : at \in (0..MaxLevel) \X Nat
    BY <1>2
  <2> QED BY <1>3, <2>1 DEF Line
<1> QED BY <1>4, <1>5

\* At a chunk, the only one whose line has the place is the chunk itself.
LEMMA LineOfChunk ==
  ASSUME NEW i, NEW k \in Nat
  PROVE  <<0, k>> \in Line(i) <=> k = i
<1>1. 0 \in 0..MaxLevel
  BY TreeSizes
<1>2. <<0, k>> \in (0..MaxLevel) \X Nat /\ <<0, k>>[1] = 0 /\ <<0, k>>[2] = k
  BY <1>1
<1>3. Way(tree, i)[0] = {i}
  BY WayLevels
<1> QED BY <1>2, <1>3 DEF Line

\* A node's children are on the line of the same chunks, one for each.
LEMMA ChildLines ==
  ASSUME WalkInv, file # <<>>, tree = buildTree(Leaves(file)), NEW i \in DOMAIN file,
         NEW p \in 1..MaxLevel, Visiting(p), Node.first <= Node.last
  PROVE  /\ Single(Children(p, Node), Line(i))
         /\ Some(Children(p, Node), Line(i)) <=> Head(stack) \in Line(i)
<1> DEFINE k == Head(stack)[2]
<1> DEFINE first == Node.first
<1> DEFINE last == Node.last
<1> DEFINE seq == Children(p, Node)
<1>1. stack # <<>> /\ Head(stack)[1] = p /\ MaxLevel \in Nat
  BY TreeSizes DEF Visiting
<1>2. k \in 1..Len(tree[p]) /\ Node = tree[p][k] /\ Head(stack) = <<p, k>>
  <2>1. stack \in Seq((0..MaxLevel) \X Nat)
    BY DEF WalkInv
  <2>2. Head(stack) \in (0..MaxLevel) \X Nat
    BY <1>1, <2>1
  <2> QED BY <1>1, <2>2, TailPlaces DEF Place, Node
<1>3. Covers(tree[p], Below(p)) /\ Below(p) \in Nat
  BY <1>2, TreeLevelsCover
<1>4. k \in DOMAIN tree[p]
  <2>1. PICK S : tree[p] \in Seq(S)
    BY <1>3 DEF Covers
  <2> QED BY <1>2, <2>1
<1>5. first \in Nat \ {0} /\ last \in Nat /\ first <= last
  BY <1>2, <1>3, <1>4 DEF Covers
<1>6. seq = [s \in 1..(last - first + 1) |-> <<p - 1, first + s - 1>>]
  BY DEF Children
<1>7. p - 1 \in 0..MaxLevel /\ p \in 0..MaxLevel /\ p # 0
  BY <1>1
<1>8. Way(tree, i)[p] = Step(tree[p], Way(tree, i)[p - 1])
  BY WayLevels
<1>9. /\ \A j, l \in Way(tree, i)[p - 1] : j = l
      /\ Way(tree, i)[p - 1] \subseteq Nat
  <2>1. file \in Seq(Chunk)
    BY DEF WalkInv, TypeOK
  <2>2. \/ Way(tree, i)[p - 1] = {}
        \/ \E j \in 1..Len(IF p - 1 = 0 THEN file ELSE tree[p - 1]) : Way(tree, i)[p - 1] = {j}
    BY <1>7, <2>1, OneWay
  <2> QED BY <2>2
<1> HIDE DEF first, last, k, seq
<1>10. \A s \in 1..(last - first + 1) : seq[s] \in Line(i) <=> first + s - 1 \in Way(tree, i)[p - 1]
  <2> TAKE s \in 1..(last - first + 1)
  <2>1. first + s - 1 \in Nat
    BY <1>5
  <2>2. seq[s] = <<p - 1, first + s - 1>> /\ seq[s] \in (0..MaxLevel) \X Nat
    BY <1>6, <1>7, <2>1
  <2>3. seq[s][1] = p - 1 /\ seq[s][2] = first + s - 1
    BY <2>2
  <2> QED BY <2>2, <2>3 DEF Line
<1>11. DOMAIN seq = 1..(last - first + 1)
  BY <1>6
<1>12. Single(seq, Line(i))
  <2>1. \A r, s \in 1..(last - first + 1) : first + r - 1 = first + s - 1 => r = s
    BY <1>5
  <2> QED BY <1>9, <1>10, <1>11, <2>1 DEF Single
<1>13. Head(stack) \in Line(i) <=> k \in Step(tree[p], Way(tree, i)[p - 1])
  <2>1. Head(stack) \in (0..MaxLevel) \X Nat /\ Head(stack)[1] = p /\ Head(stack)[2] = k
    <3>1. stack \in Seq((0..MaxLevel) \X Nat)
      BY DEF WalkInv
    <3> QED BY <1>1, <3>1 DEF k
  <2> QED BY <1>8, <2>1 DEF Line
<1>14. k \in Step(tree[p], Way(tree, i)[p - 1])
         <=> \E j \in Way(tree, i)[p - 1] : first <= j /\ j <= last
  <2>1. tree[p][k].first = first /\ tree[p][k].last = last
    BY <1>2 DEF first, last
  <2> QED BY <1>4, <2>1 DEF Step
<1>15. Some(seq, Line(i)) <=> \E j \in Way(tree, i)[p - 1] : first <= j /\ j <= last
  <2>1. ASSUME Some(seq, Line(i)) PROVE \E j \in Way(tree, i)[p - 1] : first <= j /\ j <= last
    <3>1. PICK s \in 1..(last - first + 1) : first + s - 1 \in Way(tree, i)[p - 1]
      BY <1>10, <1>11, <2>1 DEF Some
    <3>2. first <= first + s - 1 /\ first + s - 1 <= last
      BY <1>5
    <3> QED BY <3>1, <3>2
  <2>2. ASSUME NEW j \in Way(tree, i)[p - 1], first <= j, j <= last PROVE Some(seq, Line(i))
    <3>1. j \in Nat
      BY <1>9
    <3>2. j - first + 1 \in 1..(last - first + 1) /\ first + (j - first + 1) - 1 = j
      BY <1>5, <2>2, <3>1
    <3>3. seq[j - first + 1] \in Line(i)
      BY <1>10, <3>2
    <3> QED BY <1>11, <3>2, <3>3 DEF Some
  <2> QED BY <2>1, <2>2
<1> QED BY <1>12, <1>13, <1>14, <1>15 DEF seq

LEMMA InitReason == Init => ReasonInv
BY InitWalk DEF Init, ReasonInv

\* Line depends on the tree alone.
LEMMA LineStays ==
  ASSUME tree' = tree
  PROVE  \A i : Line(i)' = Line(i)
BY DEF Line

\* The end of a process leaves nothing to explain.
LEMMA ExitReason == ASSUME Exit, WalkInv' PROVE ReasonInv'
BY DEF Exit, ReasonInv

\* At the beginning everything waits below the top.
LEMMA BuildReason ==
  ASSUME ReasonInv, WalkInv', NEW f \in Files, Build(f)
  PROVE  ReasonInv'
<1>1. f \in Seq(Chunk) /\ f # <<>> /\ MaxLevel \in Nat \ {0} /\ pc = "idle"
  BY MerkleAssumption, TreeSizes DEF Build, NewTask
<1> DEFINE t == buildTree(Leaves(f))
<1> DEFINE top == Top(t)
<1>2. /\ tree' = t /\ ~TooHigh(t) /\ stack' = << <<top, 1>> >> /\ file' = f
      /\ found' = [i \in DOMAIN f |-> TRUE] /\ pc' = "walk" /\ UNCHANGED stopped
  BY DEF Build
<1>3. top \in 1..MaxLevel /\ Len(t[top]) = 1
  BY <1>1, <1>2, LeavesLen, TopExists
<1> HIDE DEF t, top
<1>4. top \in 0..MaxLevel /\ top # 0
  BY <1>1, <1>3
<1>5. stopped' = {}
  BY <1>1, <1>2 DEF ReasonInv
<1>6. ASSUME NEW i \in DOMAIN f PROVE Reason(i)'
  <2>1. Way(t, i)[top] = {1}
    <3>1. \E k \in 1..Len(t[top]) : Way(t, i)[top] = {k}
      <4>1. \A seq : Len(seq) = 1 => seq # <<>>
        OBVIOUS
      <4>2. t[top] # <<>>
        BY <1>3, <4>1
      <4>3. f \in Seq(Chunk) /\ f # <<>> /\ i \in DOMAIN f /\ top \in 0..MaxLevel
        BY <1>1, <1>4
      <4>4. IF top # 0 /\ buildTree(Leaves(f))[top] = <<>>
            THEN Way(buildTree(Leaves(f)), i)[top] = {}
            ELSE \E k \in 1..Len(IF top = 0 THEN f ELSE buildTree(Leaves(f))[top]) :
                   Way(buildTree(Leaves(f)), i)[top] = {k} /\ k <= i
        BY <4>3, OneWay
      <4>5. t = buildTree(Leaves(f))
        BY DEF t
      <4> QED BY <1>4, <4>2, <4>4, <4>5
    <3> QED BY <1>3, <3>1
  <2>2. <<top, 1>> \in Line(i)'
    <3>1. <<top, 1>> \in (0..MaxLevel) \X Nat /\ <<top, 1>>[1] = top /\ <<top, 1>>[2] = 1
      BY <1>4
    <3> QED BY <1>2, <2>1, <3>1 DEF Line
  <2>3. DOMAIN stack' = {1} /\ stack'[1] = <<top, 1>>
    BY <1>2
  <2>4. Some(stack', Line(i)') /\ Single(stack', Line(i)')
    BY <2>2, <2>3 DEF Some, Single
  <2>5. found'[i] = TRUE
    BY <1>2
  <2> QED BY <1>5, <2>4, <2>5 DEF Reason
<1> QED BY <1>1, <1>2, <1>5, <1>6 DEF ReasonInv, t

\* What a step of the walk has to show, the tree and the file staying.
LEMMA WalkReason ==
  ASSUME ReasonInv, WalkInv', pc = "walk", pc' = "walk",
         UNCHANGED <<file, tree, visible>>,
         stopped' \subseteq (1..MaxLevel) \X Nat,
         \A i \in DOMAIN file : Reason(i)'
  PROVE  ReasonInv'
BY DEF ReasonInv

LEMMA WalkChunkReason == ASSUME ReasonInv, WalkInv', WalkChunk PROVE ReasonInv'
<1>1. /\ stack # <<>> /\ Head(stack)[1] = 0 /\ pc = "walk" /\ pc' = "walk"
      /\ stack' = Tail(stack) /\ UNCHANGED <<file, tree, visible, stopped>>
      /\ found' = [found EXCEPT ![Head(stack)[2]] = file[Head(stack)[2]] \in visible]
  BY DEF WalkChunk, Visiting
<1>2. /\ stack \in Seq((0..MaxLevel) \X Nat) /\ file \in Seq(Chunk)
      /\ found \in Seq(BOOLEAN) /\ Len(found) = Len(file)
      /\ stopped \subseteq (1..MaxLevel) \X Nat
  BY DEF ReasonInv, WalkInv, TypeOK
<1>3. PICK k \in Nat : Head(stack) = <<0, k>>
  <2>1. Head(stack) \in (0..MaxLevel) \X Nat
    BY <1>1, <1>2
  <2> QED BY <1>1, <2>1
<1>4. DOMAIN found = DOMAIN file
  BY <1>2
<1>5. ASSUME NEW i \in DOMAIN file PROVE Reason(i)'
  <2>1. Reason(i) /\ Single(stack, Line(i))
    BY <1>1, <1>5 DEF ReasonInv, Reason
  <2>2. /\ Single(stack', Line(i))
        /\ Some(stack', Line(i)) <=> (Some(stack, Line(i)) /\ Head(stack) \notin Line(i))
    BY <1>1, <1>2, <2>1, PopOne
  <2>3. Line(i)' = Line(i)
    BY <1>1, LineStays
  <2>4. Head(stack) \in Line(i) <=> k = i
    BY <1>3, LineOfChunk
  <2>5. CASE k = i
    <3>1. Some(stack, Line(i))
      <4>1. 1 \in DOMAIN stack /\ stack[1] = Head(stack)
        BY <1>1, <1>2
      <4> QED BY <2>4, <2>5, <4>1 DEF Some
    <3>2. Line(i) \cap stopped = {} /\ ~Some(stack', Line(i))
      BY <2>1, <2>2, <2>4, <2>5, <3>1 DEF Reason
    <3>3. found'[i] = (file[i] \in visible)
      BY <1>1, <1>3, <1>4, <2>5
    <3> QED BY <1>1, <2>2, <2>3, <3>2, <3>3 DEF Reason
  <2>6. CASE k # i
    <3>1. found'[i] = found[i]
      BY <1>1, <1>3, <1>4, <2>6
    <3> QED BY <1>1, <2>1, <2>2, <2>3, <2>4, <2>6, <3>1 DEF Reason
  <2> QED BY <2>5, <2>6
<1> QED BY <1>1, <1>2, <1>5, WalkReason

LEMMA WalkKnownReason ==
  ASSUME ReasonInv, WalkInv', NEW p \in 1..MaxLevel, WalkKnown(p) PROVE ReasonInv'
<1>1. /\ stack # <<>> /\ Head(stack)[1] = p /\ pc = "walk" /\ pc' = "walk"
      /\ stack' = Tail(stack) /\ UNCHANGED <<file, tree, visible, found>>
      /\ stopped' = stopped \cup {Head(stack)}
  BY DEF WalkKnown, Visiting
<1>2. stack \in Seq((0..MaxLevel) \X Nat) /\ stopped \subseteq (1..MaxLevel) \X Nat
  BY DEF ReasonInv, WalkInv
<1>3. Head(stack) \in (1..MaxLevel) \X Nat
  <2>1. Head(stack) \in (0..MaxLevel) \X Nat
    BY <1>1, <1>2
  <2> QED BY <1>1, <2>1
<1>4. ASSUME NEW i \in DOMAIN file PROVE Reason(i)'
  <2>1. Reason(i) /\ Single(stack, Line(i))
    BY <1>1, <1>4 DEF ReasonInv, Reason
  <2>2. /\ Single(stack', Line(i))
        /\ Some(stack', Line(i)) <=> (Some(stack, Line(i)) /\ Head(stack) \notin Line(i))
    BY <1>1, <1>2, <2>1, PopOne
  <2>3. Line(i)' = Line(i)
    BY <1>1, LineStays
  <2>4. CASE Head(stack) \in Line(i)
    <3>1. Some(stack, Line(i))
      <4>1. 1 \in DOMAIN stack /\ stack[1] = Head(stack)
        BY <1>1, <1>2
      <4> QED BY <2>4, <4>1 DEF Some
    <3>2. found[i] = TRUE /\ ~Some(stack', Line(i))
      BY <2>1, <2>2, <2>4, <3>1 DEF Reason
    <3>3. Line(i) \cap stopped' # {}
      BY <1>1, <2>4
    <3> QED BY <1>1, <2>2, <2>3, <3>2, <3>3 DEF Reason
  <2>5. CASE Head(stack) \notin Line(i)
    <3>1. Line(i) \cap stopped' = Line(i) \cap stopped
      BY <1>1, <2>5
    <3> QED BY <1>1, <2>1, <2>2, <2>3, <2>5, <3>1 DEF Reason
  <2> QED BY <2>4, <2>5
<1> QED BY <1>1, <1>2, <1>3, <1>4, WalkReason

LEMMA WalkNewReason ==
  ASSUME ReasonInv, WalkInv', NEW p \in 1..MaxLevel, WalkNew(p) PROVE ReasonInv'
<1>1. /\ stack # <<>> /\ pc = "walk" /\ pc' = "walk" /\ Visiting(p) /\ Node.first <= Node.last
      /\ stack' = Children(p, Node) \o Tail(stack)
      /\ UNCHANGED <<file, tree, visible, found, stopped>>
  BY DEF WalkNew, Visiting
<1>2. /\ stack \in Seq((0..MaxLevel) \X Nat) /\ stopped \subseteq (1..MaxLevel) \X Nat
      /\ WalkInv /\ file # <<>> /\ tree = buildTree(Leaves(file))
  BY <1>1 DEF ReasonInv, WalkInv
<1> DEFINE front == Children(p, Node)
<1>3. front \in Seq((0..MaxLevel) \X Nat) /\ Tail(stack) \in Seq((0..MaxLevel) \X Nat)
  BY <1>1, <1>2, ChildPlaces, TailPlaces
<1>4. ASSUME NEW i \in DOMAIN file PROVE Reason(i)'
  <2>1. Reason(i) /\ Single(stack, Line(i))
    BY <1>1, <1>4 DEF ReasonInv, Reason
  <2>2. /\ Single(Tail(stack), Line(i))
        /\ Some(Tail(stack), Line(i)) <=> (Some(stack, Line(i)) /\ Head(stack) \notin Line(i))
    BY <1>1, <1>2, <2>1, PopOne
  <2>3. Single(front, Line(i)) /\ (Some(front, Line(i)) <=> Head(stack) \in Line(i))
    BY <1>1, <1>2, ChildLines
  <2>4. Head(stack) \in Line(i) => Some(stack, Line(i))
    <3>1. 1 \in DOMAIN stack /\ stack[1] = Head(stack)
      BY <1>1, <1>2
    <3> QED BY <3>1 DEF Some
  <2> HIDE DEF front
  <2>5. /\ Single(front \o Tail(stack), Line(i))
        /\ Some(front \o Tail(stack), Line(i))
             <=> (Some(front, Line(i)) \/ Some(Tail(stack), Line(i)))
    BY <1>3, <2>2, <2>3, JoinOne
  <2>6. stack' = front \o Tail(stack)
    BY <1>1 DEF front
  <2>7. Single(stack', Line(i)) /\ (Some(stack', Line(i)) <=> Some(stack, Line(i)))
    BY <2>2, <2>3, <2>4, <2>5, <2>6
  <2>8. Line(i)' = Line(i)
    BY <1>1, LineStays
  <2> QED BY <1>1, <2>1, <2>7, <2>8 DEF Reason
<1> QED BY <1>1, <1>2, <1>4, WalkReason

LEMMA NextReason == ReasonInv /\ [Next]_vars => ReasonInv'
<1> SUFFICES ASSUME ReasonInv, [Next]_vars, WalkInv' PROVE ReasonInv'
  BY NextWalk DEF ReasonInv
<1>1. ASSUME UNCHANGED <<pc, run>> PROVE ReasonInv'
  <2>1. UNCHANGED <<file, tree, stack, found, visible, stopped, pc>>
    BY <1>1 DEF run
  <2>2. \A i \in DOMAIN file : Reason(i) => Reason(i)'
    BY <2>1, LineStays DEF Reason
  <2> QED BY <2>1, <2>2 DEF ReasonInv
<1>2. UNCHANGED vars => UNCHANGED <<pc, run>>
  BY DEF vars
<1>3. \A f \in Files : PlainWrite(f) \/ BuildEmpty(f) \/ BuildTooHigh(f) => UNCHANGED <<pc, run>>
  BY DEF PlainWrite, BuildEmpty, BuildTooHigh
<1>4. ASSUME WalkDone PROVE ReasonInv'
  <2>1. /\ pc = "walk" /\ stack = <<>> /\ pc' = "save"
        /\ UNCHANGED <<file, tree, stack, found, visible, stopped>>
    BY <1>4 DEF WalkDone, run
  <2>2. \A i \in DOMAIN file : Reason(i) => Reason(i)'
    BY <2>1, LineStays DEF Reason
  <2> QED BY <2>1, <2>2 DEF ReasonInv
<1>5. Save \/ Crash \/ (\E p \in 1..MaxLevel : WalkChildless(p)) => Exit
  BY DEF Save, Crash, WalkChildless
<1> QED BY <1>1, <1>2, <1>3, <1>4, <1>5, ExitReason, BuildReason, WalkChunkReason,
           WalkKnownReason, WalkNewReason DEF Next, Work

-------------------------------------------------------------------------------
\* What a hash in a level file tells: the last chunk below a node, and no more.

HashType == [of : Chunk, level : Nat, again : {0, 1}]

\* The nodes of a level are hashed from the last node below each.
HashedOver(level, lower) ==
  \A k \in DOMAIN level :
    /\ level[k].last \in 1..Len(lower)
    /\ level[k].hash \in {SHA1(lower[level[k].last].hash),
                          SHA1_FinalAgain(SHA1(lower[level[k].last].hash))}

\* A hash of a hash is of the same chunk.
LEMMA SHA1Of ==
  ASSUME NEW hash \in HashType
  PROVE  /\ SHA1(hash) \in HashType /\ SHA1(hash).of = hash.of
         /\ SHA1_FinalAgain(SHA1(hash)) \in HashType
         /\ SHA1_FinalAgain(SHA1(hash)).of = hash.of
<1>1. /\ hash = [of |-> hash.of, level |-> hash.level, again |-> hash.again]
      /\ hash.of \in Chunk /\ hash.level \in Nat /\ hash.again \in {0, 1}
  BY DEF HashType
<1>2. SHA1(hash) = [of |-> hash.of, level |-> hash.level + 1, again |-> hash.again]
  BY <1>1 DEF SHA1
<1>3. SHA1_FinalAgain(SHA1(hash)) = [of |-> hash.of, level |-> hash.level + 1, again |-> 1]
  BY <1>2 DEF SHA1_FinalAgain
<1>4. hash.level + 1 \in Nat
  BY <1>1
<1> QED BY <1>1, <1>2, <1>3, <1>4 DEF HashType

LEMMA GroupedHashed ==
  ASSUME NEW lower, Len(lower) \in Nat \ {0}
  PROVE  HashedOver(Grouped(lower), lower)
<1> DEFINE n == Len(lower)
<1> DEFINE m == (n + GroupSize - 1) \div GroupSize
<1> DEFINE level == Grouped(lower)
<1>1. m \in Nat \ {0} /\ (m - 1) * GroupSize < n /\ n <= m * GroupSize
  BY GroupCount
<1>2. /\ DOMAIN level = 1..m
      /\ \A k \in 1..m : /\ level[k].hash = SHA1(lower[LastOf(k, n)].hash)
                         /\ level[k].last = LastOf(k, n)
  BY DEF Grouped, LP_node
<1> HIDE DEF level, m
<1>3. \A k \in 1..m : LastOf(k, n) \in 1..n
  BY <1>1, GroupEnds
<1>4. HashedOver(level, lower)
  BY <1>2, <1>3 DEF HashedOver
<1> QED BY <1>4 DEF level

\* The node behind even groups is hashed from the last chunk once more.
LEMMA Level1Hashed ==
  ASSUME NEW nodes, Len(nodes) \in Nat \ {0}
  PROVE  HashedOver(buildLevel1(nodes), nodes)
<1> DEFINE n == Len(nodes)
<1> DEFINE full == Grouped(nodes)
<1> DEFINE extra == LP_node(SHA1_FinalAgain(full[Len(full)].hash), n + 1, n)
<1> DEFINE level == Append(full, extra)
<1>1. HashedOver(full, nodes) /\ Covers(full, n)
  BY GroupedHashed, GroupedCovers
<1>2. CASE n % GroupSize # 0
  BY <1>1, <1>2 DEF buildLevel1
<1>3. CASE ~(n % GroupSize # 0)
  <2>1. buildLevel1(nodes) = level
    BY <1>3 DEF buildLevel1
  <2>2. extra.hash = SHA1_FinalAgain(full[Len(full)].hash) /\ extra.last = n
    BY DEF LP_node
  <2>3. PICK S : full \in Seq(S) /\ full # <<>> /\ full[Len(full)].last = n
    BY <1>1 DEF Covers
  <2>4. ASSUME NEW hash \in {SHA1(nodes[n].hash), SHA1_FinalAgain(SHA1(nodes[n].hash))}
        PROVE  SHA1_FinalAgain(hash) = SHA1_FinalAgain(SHA1(nodes[n].hash))
    BY DEF SHA1, SHA1_FinalAgain
  <2> HIDE DEF full, extra
  <2>5. Len(full) \in DOMAIN full /\ DOMAIN full = 1..Len(full) /\ Len(full) \in Nat
    BY <2>3
  <2>6. /\ DOMAIN level = 1..(Len(full) + 1)
        /\ \A k \in 1..Len(full) : level[k] = full[k]
        /\ level[Len(full) + 1] = extra
    BY <2>3
  <2> HIDE DEF level
  <2>7. extra.last \in 1..n /\ extra.hash = SHA1_FinalAgain(SHA1(nodes[n].hash))
    <3>1. full[Len(full)].hash \in {SHA1(nodes[n].hash), SHA1_FinalAgain(SHA1(nodes[n].hash))}
      BY <1>1, <2>3, <2>5 DEF HashedOver
    <3> QED BY <2>2, <2>4, <3>1
  <2>8. ASSUME NEW k \in 1..(Len(full) + 1)
        PROVE  /\ level[k].last \in 1..n
               /\ level[k].hash \in {SHA1(nodes[level[k].last].hash),
                                     SHA1_FinalAgain(SHA1(nodes[level[k].last].hash))}
    <3>1. CASE k \in 1..Len(full)
      BY <1>1, <2>5, <2>6, <3>1 DEF HashedOver
    <3>2. CASE k = Len(full) + 1
      BY <2>2, <2>6, <2>7, <3>2
    <3> QED BY <2>5, <3>1, <3>2
  <2>9. HashedOver(level, nodes)
    BY <2>6, <2>8 DEF HashedOver
  <2> QED BY <2>1, <2>9
<1> QED BY <1>2, <1>3

\* The level above nodes whose last chunks end below it.
Rise(level, below) == [k \in DOMAIN level |-> below[level[k].last]]

\* The recursion of EndsIn has a value at every level.
LEMMA EndsLevels ==
  ASSUME NEW t, NEW n \in Nat
  PROVE  /\ EndsIn(t, n)[0] = [i \in 1..n |-> i]
         /\ \A p \in 1..MaxLevel : EndsIn(t, n)[p] = Rise(t[p], EndsIn(t, n)[p - 1])
<1> DEFINE Up(g, m) == [p \in 0..m |-> IF p = 0 THEN [i \in 1..n |-> i] ELSE Rise(t[p], g[p - 1])]
<1> DEFINE Built == {m \in Nat : \E g : g = Up(g, m)}
<1>1. MaxLevel \in Nat \ {0}
  BY TreeAssumption
<1>2. 0 \in Built
  <2> DEFINE g == [p \in {0} |-> [i \in 1..n |-> i]]
  <2>1. 0..0 = {0}
    OBVIOUS
  <2>2. g = Up(g, 0)
    BY <2>1
  <2> QED BY <2>2
<1>3. ASSUME NEW m \in 0..(MaxLevel - 1), m \in Built
      PROVE  m + 1 \in Built
  <2>1. PICK g : g = Up(g, m)
    BY <1>3
  <2> DEFINE h == [p \in 0..(m + 1) |-> IF p <= m THEN g[p] ELSE Rise(t[p], g[p - 1])]
  <2>2. \A p \in 0..m : g[p] = IF p = 0 THEN [i \in 1..n |-> i] ELSE Rise(t[p], g[p - 1])
    BY <2>1
  <2>3. m \in Nat
    BY <1>1
  <2>4. \A p \in 0..(m + 1) : p # 0 => p - 1 \in 0..m /\ p - 1 <= m /\ p - 1 \in 0..(m + 1)
    BY <2>3
  <2>5. \A p \in 0..(m + 1) : p # 0 => h[p - 1] = g[p - 1]
    BY <2>4
  <2>6. \A p \in 0..(m + 1) :
           h[p] = IF p = 0 THEN [i \in 1..n |-> i] ELSE Rise(t[p], h[p - 1])
    <3> TAKE p \in 0..(m + 1)
    <3>1. CASE p <= m
      <4>1. p \in 0..m /\ h[p] = g[p]
        BY <2>3, <3>1
      <4> QED BY <2>2, <2>5, <4>1
    <3>2. CASE ~(p <= m)
      <4>1. h[p] = Rise(t[p], g[p - 1]) /\ p # 0
        BY <2>3, <3>2
      <4> QED BY <2>5, <4>1
    <3> QED BY <3>1, <3>2
  <2>7. h = Up(h, m + 1)
    <3>1. h = [p \in 0..(m + 1) |-> h[p]]
      OBVIOUS
    <3> HIDE DEF h
    <3> QED BY <2>6, <3>1
  <2>8. m + 1 \in Nat
    BY <2>3
  <2> QED BY <2>7, <2>8
<1>4. MaxLevel \in Built
  <2> HIDE DEF Built
  <2>1. \A m \in 0..((MaxLevel - 1) + 1) : m \in Built
    BY <1>1, <1>2, <1>3, Reached
  <2> QED BY <1>1, <2>1
<1>5. PICK g : g = Up(g, MaxLevel)
  BY <1>4
<1> DEFINE ends == EndsIn(t, n)
<1>6. ends = Up(ends, MaxLevel)
  BY <1>5 DEF EndsIn, Rise
<1>7. 0 \in 0..MaxLevel /\ \A p \in 1..MaxLevel : p \in 0..MaxLevel /\ p # 0
  BY <1>1
<1> HIDE DEF ends
<1>8. /\ ends[0] = [i \in 1..n |-> i]
      /\ \A p \in 1..MaxLevel : ends[p] = Rise(t[p], ends[p - 1])
  BY <1>6, <1>7
<1> QED BY <1>8 DEF ends

\* A node's hash is of the last chunk below it.
LEMMA HashIsOfLast ==
  ASSUME NEW f \in Seq(Chunk), f # <<>>, NEW p \in 1..MaxLevel,
         NEW k \in DOMAIN buildTree(Leaves(f))[p]
  PROVE  buildTree(Leaves(f))[p][k].hash.of = f[EndsIn(buildTree(Leaves(f)), Len(f))[p][k]]
<1> DEFINE t == buildTree(Leaves(f))
<1> DEFINE ends == EndsIn(t, Len(f))
<1> DEFINE Level(q) == IF q = 0 THEN Leaves(f) ELSE t[q]
<1> DEFINE Named(q) == \A l \in 1..Len(Level(q)) : /\ Level(q)[l].hash \in HashType
                                                   /\ Level(q)[l].hash.of = f[ends[q][l]]
<1> DEFINE Reach == {n \in Nat : n \in 0..MaxLevel => Named(n)}
<1>1. MaxLevel \in Nat \ {0} /\ Len(f) \in Nat \ {0} /\ DOMAIN f = 1..Len(f)
  BY TreeAssumption
<1>2. Len(Leaves(f)) = Len(f) /\ \A i \in 1..Len(f) : Leaves(f)[i] = [hash |-> ChunkHash(f[i])]
  BY <1>1, LeavesLen DEF Leaves
<1>3. ends[0] = [i \in 1..Len(f) |-> i] /\ \A q \in 1..MaxLevel : ends[q] = Rise(t[q], ends[q - 1])
  BY <1>1, EndsLevels
<1>4. t[1] = buildLevel1(Leaves(f)) /\ \A q \in 2..MaxLevel : t[q] = buildLevelx(t[q - 1])
  BY TreeLevels
<1>5. \A q \in 1..MaxLevel :
        Len(t[q]) \in Nat /\ (t[q] = <<>> \/ Covers(t[q], Under(Leaves(f), q)))
  BY <1>1, <1>2, LevelsCover
<1>6. \A q \in 1..MaxLevel : DOMAIN t[q] = 1..Len(t[q])
  <2> TAKE q \in 1..MaxLevel
  <2>1. CASE t[q] = <<>>
    BY <2>1
  <2>2. CASE t[q] # <<>>
    <3>1. PICK S : t[q] \in Seq(S)
      BY <1>5, <2>2 DEF Covers
    <3> QED BY <3>1
  <2> QED BY <2>1, <2>2
<1> HIDE DEF t, ends
<1>7. 0 \in Reach
  <2>1. ASSUME NEW i \in 1..Len(f)
        PROVE  Leaves(f)[i].hash \in HashType /\ Leaves(f)[i].hash.of = f[ends[0][i]]
    <3>1. f[i] \in Chunk /\ ends[0][i] = i
      BY <1>1, <1>3
    <3>2. Leaves(f)[i].hash = ChunkHash(f[i])
      BY <1>1 DEF Leaves
    <3>3. ChunkHash(f[i]) \in HashType /\ ChunkHash(f[i]).of = f[i]
      BY <3>1 DEF ChunkHash, HashType
    <3> QED BY <3>1, <3>2, <3>3
  <2> QED BY <1>2, <2>1
<1>8. ASSUME NEW n \in 0..(MaxLevel - 1), n \in Reach PROVE n + 1 \in Reach
  <2>1. /\ n \in Nat /\ n + 1 \in Nat /\ n + 1 \in 1..MaxLevel /\ n \in 0..MaxLevel
        /\ (n + 1) - 1 = n /\ n + 1 # 0 /\ (n # 0 => n \in 1..MaxLevel /\ n + 1 \in 2..MaxLevel)
    BY <1>1
  <2>2. Named(n)
    BY <1>8, <2>1
  <2>3. ends[n + 1] = Rise(t[n + 1], ends[n]) /\ DOMAIN t[n + 1] = 1..Len(t[n + 1])
    BY <1>3, <1>6, <2>1
  <2>4. HashedOver(t[n + 1], Level(n))
    <3>1. CASE n = 0
      BY <1>1, <1>2, <1>4, <3>1, Level1Hashed
    <3>2. CASE n # 0 /\ Len(t[n]) <= 1
      <4>1. DOMAIN t[n + 1] = {}
        BY <1>4, <2>1, <3>2 DEF buildLevelx
      <4> QED BY <4>1 DEF HashedOver
    <3>3. CASE n # 0 /\ ~(Len(t[n]) <= 1)
      <4>1. Len(t[n]) \in Nat \ {0}
        BY <1>5, <2>1, <3>3
      <4>2. t[n + 1] = Grouped(t[n])
        BY <1>4, <2>1, <3>3 DEF buildLevelx
      <4> QED BY <3>3, <4>1, <4>2, GroupedHashed
    <3> QED BY <3>1, <3>2, <3>3
  <2>5. ASSUME NEW l \in 1..Len(t[n + 1])
        PROVE  t[n + 1][l].hash \in HashType /\ t[n + 1][l].hash.of = f[ends[n + 1][l]]
    <3> DEFINE last == t[n + 1][l].last
    <3> DEFINE hash == Level(n)[last].hash
    <3>1. last \in 1..Len(Level(n)) /\ t[n + 1][l].hash \in {SHA1(hash), SHA1_FinalAgain(SHA1(hash))}
      BY <2>3, <2>4 DEF HashedOver
    <3>2. ends[n + 1][l] = ends[n][last]
      BY <2>3 DEF Rise
    <3> HIDE DEF last, Level
    <3>3. hash \in HashType /\ hash.of = f[ends[n][last]]
      BY <2>2, <3>1
    <3> QED BY <3>1, <3>2, <3>3, SHA1Of
  <2>6. Named(n + 1)
    BY <2>1, <2>5
  <2> QED BY <2>1, <2>6
<1>9. p \in Reach
  <2> HIDE DEF Reach
  <2>1. MaxLevel - 1 \in Nat /\ p \in 0..((MaxLevel - 1) + 1)
    BY <1>1
  <2>2. \A n \in 0..((MaxLevel - 1) + 1) : n \in Reach
    BY <1>7, <1>8, <2>1, Reached
  <2> QED BY <2>1, <2>2
<1>10. p # 0 /\ p \in 0..MaxLevel
  BY <1>1
<1>11. Named(p)
  BY <1>9, <1>10
<1>12. k \in 1..Len(t[p])
  BY <1>6 DEF t
<1> QED BY <1>10, <1>11, <1>12 DEF t, ends

\* Every hash in a level file is of the last chunk of a node a walk began, and
\* so is every node a walk stopped at.
BegunInv ==
  /\ \A p \in 1..MaxLevel : \A i \in DOMAIN levels[p] : <<p, levels[p][i].of>> \in begun
  /\ \A node \in stopped : <<node[1], LastChunk(node)>> \in begun

LEMMA InitBegun == Init => BegunInv
BY DEF Init, BegunInv

\* The hash of the node the walk is at.
LEMMA NodeHash ==
  ASSUME ReasonInv, NEW p \in 1..MaxLevel, Visiting(p)
  PROVE  Node.hash.of = LastChunk(Head(stack)) /\ Head(stack)[1] = p
<1>1. /\ WalkInv /\ pc = "walk" /\ stack # <<>> /\ Head(stack)[1] = p
      /\ file # <<>> /\ tree = buildTree(Leaves(file)) /\ file \in Seq(Chunk)
  BY DEF ReasonInv, WalkInv, TypeOK, Visiting
<1> DEFINE k == Head(stack)[2]
<1>2. k \in 1..Len(tree[p]) /\ Node = tree[p][k]
  <2>1. p # 0
    BY TreeSizes
  <2> QED BY <1>1, <2>1, TailPlaces DEF Place, Node
<1>3. k \in DOMAIN tree[p]
  <2>1. tree[p] # <<>>
    BY <1>2
  <2>2. PICK S : tree[p] \in Seq(S)
    BY <1>1, <2>1, TreeLevelsCover DEF Covers
  <2> QED BY <1>2, <2>2
<1> HIDE DEF k
<1>4. tree[p][k].hash.of = file[EndsIn(tree, Len(file))[p][k]]
  BY <1>1, <1>3, HashIsOfLast
<1> QED BY <1>1, <1>2, <1>4 DEF k, LastChunk

\* What a walk appends is of the node it begins.
LEMMA NewBegun ==
  ASSUME BegunInv, LevelsInv, ReasonInv, NEW p \in 1..MaxLevel, Visiting(p),
         insertLP(p, Node.hash), Begin
  PROVE  /\ begun \subseteq begun'
         /\ \A q \in 1..MaxLevel : \A i \in DOMAIN levels'[q] : <<q, levels'[q][i].of>> \in begun'
<1> DEFINE hash == Node.hash
<1>1. begun' = begun \cup {<<p, hash.of>>}
  BY NodeHash DEF Begin
<1>2. CASE p \notin reached
  BY <1>1, <1>2 DEF insertLP, BegunInv
<1>3. CASE p \in reached
  <2>1. levels' = [levels EXCEPT ![p] = Append(levels[p], hash)] /\ DOMAIN levels = 1..MaxLevel
    BY <1>3 DEF insertLP, LevelsInv
  <2>2. PICK Hash : levels[p] \in Seq(Hash)
    BY DEF LevelsInv
  <2> HIDE DEF hash
  <2>3. ASSUME NEW q \in 1..MaxLevel, NEW i \in DOMAIN levels'[q]
        PROVE  <<q, levels'[q][i].of>> \in begun'
    <3>1. CASE q # p
      BY <1>1, <2>1, <2>3, <3>1 DEF BegunInv
    <3>2. CASE q = p
      <4>1. levels'[p] = Append(levels[p], hash)
        BY <2>1
      <4>2. \/ i \in DOMAIN levels[p] /\ levels'[p][i] = levels[p][i]
            \/ levels'[p][i] = hash
        BY <2>2, <2>3, <3>2, <4>1
      <4> QED BY <1>1, <3>2, <4>2 DEF BegunInv
    <3> QED BY <3>1, <3>2
  <2> QED BY <1>1, <2>3
<1> QED BY <1>2, <1>3

LEMMA NextBegun == BegunInv /\ LevelsInv /\ ReasonInv /\ [Next]_vars => BegunInv'
<1> SUFFICES ASSUME BegunInv, LevelsInv, ReasonInv, [Next]_vars PROVE BegunInv'
  OBVIOUS
<1>1. ASSUME UNCHANGED <<levels, file, tree, stopped, begun>> PROVE BegunInv'
  <2>1. \A node : LastChunk(node)' = LastChunk(node)
    BY <1>1 DEF LastChunk, EndsIn
  <2> QED BY <1>1, <2>1 DEF BegunInv
<1>2. ASSUME UNCHANGED <<levels, begun>>, stopped' = {} PROVE BegunInv'
  BY <1>2 DEF BegunInv
<1>3. UNCHANGED vars => UNCHANGED <<levels, file, tree, stopped, begun>>
  BY DEF vars, store, run
<1>4. WalkChunk \/ WalkDone => UNCHANGED <<levels, file, tree, stopped, begun>>
  BY DEF WalkChunk, WalkDone, store, run
<1>5. \A f \in Files : PlainWrite(f) \/ BuildEmpty(f) \/ BuildTooHigh(f)
                         => UNCHANGED <<levels, file, tree, stopped, begun>>
  BY DEF PlainWrite, BuildEmpty, BuildTooHigh, store, run
<1>6. \A f \in Files : Build(f) => UNCHANGED <<levels, begun>> /\ stopped' = {}
  BY DEF Build, NewTask, ReasonInv, store
<1>7. Save \/ Crash => UNCHANGED <<levels, begun>> /\ stopped' = {}
  BY DEF Save, Crash, Exit, store
<1>8. ASSUME NEW p \in 1..MaxLevel, WalkKnown(p) PROVE BegunInv'
  <2>1. /\ Visiting(p) /\ lookupLP(p, Node.hash) /\ stopped' = stopped \cup {Head(stack)}
        /\ UNCHANGED <<levels, file, tree, begun>>
    BY <1>8 DEF WalkKnown, store
  <2>2. Node.hash.of = LastChunk(Head(stack)) /\ Head(stack)[1] = p
    BY <2>1, NodeHash
  <2>3. <<p, Node.hash.of>> \in begun
    BY <2>1 DEF lookupLP, BegunInv
  <2>4. \A node : LastChunk(node)' = LastChunk(node)
    BY <2>1 DEF LastChunk, EndsIn
  <2>5. ASSUME NEW node \in stopped' PROVE <<node[1], LastChunk(node)'>> \in begun'
    BY <2>1, <2>2, <2>3, <2>4, <2>5 DEF BegunInv
  <2> QED BY <2>1, <2>5 DEF BegunInv
<1>9. ASSUME NEW p \in 1..MaxLevel, WalkNew(p) PROVE BegunInv'
  <2>1. Visiting(p) /\ insertLP(p, Node.hash) /\ Begin /\ UNCHANGED <<file, tree, stopped>>
    BY <1>9 DEF WalkNew
  <2>2. \A node : LastChunk(node)' = LastChunk(node)
    BY <2>1 DEF LastChunk, EndsIn
  <2>3. ASSUME NEW node \in stopped' PROVE <<node[1], LastChunk(node)'>> \in begun'
    BY <2>1, <2>2, <2>3, NewBegun DEF BegunInv
  <2> QED BY <2>1, <2>3, NewBegun DEF BegunInv
<1>10. ASSUME NEW p \in 1..MaxLevel, WalkChildless(p) PROVE BegunInv'
  <2>1. Visiting(p) /\ insertLP(p, Node.hash) /\ Begin /\ stopped' = {}
    BY <1>10 DEF WalkChildless, Exit
  <2> QED BY <2>1, NewBegun DEF BegunInv
<1> QED BY <1>1, <1>2, <1>3, <1>4, <1>5, <1>6, <1>7, <1>8, <1>9, <1>10 DEF Next, Work

\* Where the walk ends a chunk counts as found because lookupL0 met it or the
\* walk stopped above it, and for no other reason; and it stops at a node only
\* if a walk was about to go below one of the same level with the same last
\* chunk, for files of any length, groups of any size, any number of levels and
\* whatever levels' files a walk reaches (walk, lookupL0, lookupLP).
THEOREM FoundHasReasonHolds == Spec => []FoundHasReason
<1>1. ReasonInv /\ BegunInv => FoundHasReason
  <2> SUFFICES ASSUME ReasonInv, BegunInv, pc = "save"
               PROVE  /\ \A i \in DOMAIN file :
                           found[i] <=> (file[i] \in visible \/ Above(i) \cap stopped # {})
                      /\ \A node \in stopped : <<node[1], LastChunk(node)>> \in begun
    BY DEF FoundHasReason
  <2>1. ASSUME NEW i \in DOMAIN file
        PROVE  found[i] <=> (file[i] \in visible \/ Above(i) \cap stopped # {})
    <3>1. /\ WalkInv /\ file # <<>> /\ tree = buildTree(Leaves(file)) /\ stack = <<>>
          /\ stopped \subseteq (1..MaxLevel) \X Nat /\ Reason(i)
      BY DEF ReasonInv
    <3>2. ~Some(stack, Line(i))
      BY <3>1 DEF Some
    <3>3. Above(i) \cap stopped = Line(i) \cap stopped
      BY <3>1, AboveIsLine
    <3> QED BY <3>1, <3>2, <3>3 DEF Reason
  <2> QED BY <2>1 DEF BegunInv
<1> QED BY <1>1, InitLevels, InitReason, InitBegun, NextLevels, NextReason, NextBegun, PTL DEF Spec
=============================================================================
