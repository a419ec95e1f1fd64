------------------------------ MODULE MerkleTree ------------------------------
(***************************************************************************)
(* The tree src/src/merkle_tree.cpp builds over the chunks of a file: the  *)
(* levels, from 1 on, as sequences of nodes.  A node has a hash and the    *)
(* positions first..last of its children in the level below; level 0 is    *)
(* the sequence of the chunks themselves.                                  *)
(***************************************************************************)
EXTENDS Integers, Sequences

CONSTANTS
    GroupSize,   \* 10
    MaxLevel     \* 6

ASSUME TreeAssumption == GroupSize \in Nat \ {0, 1} /\ MaxLevel \in Nat \ {0}

\* Hashes are free: of a chunk, of a hash (level says how often), and (again) what
\* a second SHA1_Final makes of a context that is final already.
ChunkHash(c) == [of |-> c, level |-> 0, again |-> 0]
SHA1(hash) == [hash EXCEPT !.level = @ + 1]
SHA1_FinalAgain(hash) == [hash EXCEPT !.again = 1]

LP_node(hash, first, last) == [hash |-> hash, first |-> first, last |-> last]

\* The chunks of a file, as L0_node.
Leaves(file) == [i \in DOMAIN file |-> [hash |-> ChunkHash(file[i])]]

LastOf(k, n) == IF k * GroupSize <= n THEN k * GroupSize ELSE n

\* Mutant: the children of the last, smaller group are counted from the full size.
Grouped_Full(lower) ==
    [k \in 1..((Len(lower) + GroupSize - 1) \div GroupSize) |->
       LP_node(SHA1(lower[LastOf(k, Len(lower))].hash),
               Len(lower) - LastOf(k, Len(lower)) + 1, LastOf(k, Len(lower)))]

\* The nodes over groups of GroupSize.  SHA1_Init is called for every child,
\* so that a node's hash is that of its last child alone.
Grouped(lower) ==
    [k \in 1..((Len(lower) + GroupSize - 1) \div GroupSize) |->
       LP_node(SHA1(lower[LastOf(k, Len(lower))].hash),
               (k - 1) * GroupSize + 1, LastOf(k, Len(lower)))]

\* Level 1 always gets a node for the rest, one without children when the
\* groups come out even.
buildLevel1(nodes) ==
    LET full == Grouped(nodes)
    IN  IF Len(nodes) % GroupSize # 0 THEN full
        ELSE Append(full, LP_node(SHA1_FinalAgain(full[Len(full)].hash),
                                  Len(nodes) + 1, Len(nodes)))

\* A level above one that has a single node is not built.
buildLevelx(lower) == IF Len(lower) <= 1 THEN <<>> ELSE Grouped(lower)

buildTree(nodes) ==
    LET level[p \in 1..MaxLevel] ==
          IF p = 1 THEN buildLevel1(nodes)
          ELSE LET lower == level[p - 1] IN buildLevelx(lower)
    IN  level

\* markNonDuplicateNodes: the walk begins at the highest level with one node.
TooHigh(tree) == Len(tree[MaxLevel]) > 1
Top(tree) == CHOOSE p \in 1..MaxLevel :
                /\ Len(tree[p]) = 1
                /\ \A q \in (p + 1)..MaxLevel : Len(tree[q]) # 1
=============================================================================
