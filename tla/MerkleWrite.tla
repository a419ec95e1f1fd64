----------------------------- MODULE MerkleWrite -----------------------------
(***************************************************************************)
(* The write of main.cpp with MerkleTree set to yes (lines 374-419): the   *)
(* file is chunked, the tree is built, and a walk from the top looks its   *)
(* nodes up in the level files, adding those it does not find and going    *)
(* down below them; a chunk it does not reach keeps found = true.  Then    *)
(* the chunks not found are saved and the recipe and the index written.    *)
(* Plain writes come in between; a process may die at any step.            *)
(***************************************************************************)
EXTENDS MerkleTree, FiniteSets, Functions

CONSTANTS
    Chunk,      \* the chunk contents
    Files,      \* the files, as sequences of chunks
    LevelCap,   \* the hashes lookupLP reads of a level file: 1024*1024
    MaxTasks    \* bound on the number of tasks

ASSUME MerkleAssumption ==
    /\ \A file \in Files : file \in Seq(Chunk)
    /\ LevelCap \in Nat /\ MaxTasks \in Nat

VARIABLES
    index,     \* the chunks fingerprints.meta has an entry for
    levels,    \* MTL1 to MTL6: the hashes of each level file, in order
    recipes,   \* the recipes, in order of their numbers
    pc,        \* "idle", "walk", "save"
    file,      \* L0_nodes
    tree,      \* tree
    stack,     \* the nodes walk has to visit, the next one first: <<level, k>>
    found,     \* L0_node::found
    reached,   \* the levels of meta_path that still name their file
    visible,   \* the chunks of the index that lookupL0 can see
    container_buf_pointer,   \* how much the container in memory is filled
    containers,   \* the chunks in containers on disk
    stopped,   \* history: the nodes the walk found and did not go below
    begun,     \* history: the levels and last chunks of the nodes a walk did
    ntasks     \* history: the tasks started

store == <<index, levels, recipes, containers>>
run == <<file, tree, stack, found, reached, visible, container_buf_pointer, stopped>>
vars == <<store, pc, run, begun, ntasks>>

NoTree == [p \in 1..MaxLevel |-> <<>>]

Init ==
    /\ index = {} /\ levels = [p \in 1..MaxLevel |-> <<>>] /\ recipes = <<>>
    /\ containers = {} /\ pc = "idle" /\ ntasks = 0
    /\ file = <<>> /\ tree = NoTree /\ stack = <<>> /\ found = <<>>
    /\ reached = {} /\ visible = {} /\ container_buf_pointer = 0
    /\ stopped = {} /\ begun = {}

\* The end of the process, and of what it had in memory.
Exit ==
    /\ pc' = "idle" /\ file' = <<>> /\ tree' = NoTree /\ stack' = <<>> /\ found' = <<>>
    /\ reached' = {} /\ visible' = {} /\ container_buf_pointer' = 0 /\ stopped' = {}

NewTask == pc = "idle" /\ ntasks < MaxTasks /\ ntasks' = ntasks + 1

\* A write without the tree, as DedupStore has it in detail.
PlainWrite(f) ==
    /\ NewTask
    /\ index' = index \cup Range(f) /\ containers' = containers \cup Range(f)
    /\ recipes' = Append(recipes, f)
    /\ UNCHANGED <<levels, pc, run, begun>>

\* lookupL0 goes through fingerprints.meta in steps of 30 bytes where the
\* entries have 36: of n entries it meets those at place 0, 5, 10 and so on,
\* and which chunks are there is up to the hash map that wrote the file.
Seen(chunks) ==
    {s \in SUBSET chunks : Cardinality(s) = (Cardinality(chunks) + 4) \div 5}

\* The tree is built and the walk begins at its top.  meta_path points into
\* strings that are gone by then (config.h returns them by value).  As the
\* program is built, -O0, a short one is left in its place in main's frame; a
\* longer one was on the heap, and releasing it overwrote its first bytes, so
\* that no file has that name.  Which levels are lost is up to the lengths.
Build(f) ==
    /\ NewTask /\ f # <<>>
    /\ tree' = buildTree(Leaves(f)) /\ ~TooHigh(tree')
    /\ stack' = << <<Top(tree'), 1>> >>
    /\ file' = f /\ found' = [i \in DOMAIN f |-> TRUE]
    /\ reached' \in SUBSET (0..MaxLevel)
    /\ visible' \in IF 0 \in reached' THEN Seen(index) ELSE {{}}
    /\ pc' = "walk"
    /\ UNCHANGED <<store, container_buf_pointer, stopped, begun>>

\* The read of the first node of an empty file ends the process.
BuildEmpty(f) == NewTask /\ f = <<>> /\ UNCHANGED <<store, pc, run, begun>>

\* So does a highest level of more than one node: "ERROR, L6 size > 1".
BuildTooHigh(f) ==
    /\ NewTask
    /\ f # <<>> /\ TooHigh(buildTree(Leaves(f)))
    /\ UNCHANGED <<store, pc, run, begun>>

\* Mutant: the lookup forgets what is in the file.
lookupLP_Empty(p, hash) == FALSE

\* A file that cannot be opened holds nothing.
lookupLP(p, hash) ==
    /\ p \in reached
    /\ \E i \in DOMAIN levels[p] : i <= LevelCap /\ levels[p][i] = hash

insertLP(p, hash) ==
    levels' = IF p \in reached THEN [levels EXCEPT ![p] = Append(@, hash)] ELSE levels

\* Mutant: the last child is left out.
Children_ButLast(p, node) == [i \in 1..(node.last - node.first) |-> <<p - 1, node.first + i - 1>>]

Children(p, node) == [i \in 1..(node.last - node.first + 1) |-> <<p - 1, node.first + i - 1>>]

Visiting(p) == pc = "walk" /\ stack # <<>> /\ Head(stack)[1] = p
Node == tree[Head(stack)[1]][Head(stack)[2]]

\* The position of the last chunk before the end of each node, down from it by
\* its last child, the last of that, and so on.
EndsIn(t, n) ==
    LET ends[p \in 0..MaxLevel] ==
          IF p = 0 THEN [i \in 1..n |-> i]
          ELSE [k \in DOMAIN t[p] |-> ends[p - 1][t[p][k].last]]
    IN  ends

LastChunk(node) == file[EndsIn(tree, Len(file))[node[1]][node[2]]]

\* The walk is about to go below the node it is at.
Begin == begun' = begun \cup {<<Head(stack)[1], LastChunk(Head(stack))>>}

\* walk at a chunk.
WalkChunk ==
    /\ Visiting(0)
    /\ found' = [found EXCEPT ![Head(stack)[2]] = file[Head(stack)[2]] \in visible]
    /\ stack' = Tail(stack)
    /\ UNCHANGED <<store, pc, file, tree, reached, visible, container_buf_pointer, stopped,
                   begun, ntasks>>

\* walk at a node whose hash is in its level file.
WalkKnown(p) ==
    /\ Visiting(p) /\ lookupLP(p, Node.hash)
    /\ stack' = Tail(stack)
    /\ stopped' = stopped \cup {Head(stack)}
    /\ UNCHANGED <<store, pc, file, tree, found, reached, visible, container_buf_pointer,
                   begun, ntasks>>

\* walk at a node that is new: its hash is appended, then come the children.
WalkNew(p) ==
    /\ Visiting(p) /\ ~lookupLP(p, Node.hash) /\ Node.first <= Node.last
    /\ insertLP(p, Node.hash) /\ Begin
    /\ stack' = Children(p, Node) \o Tail(stack)
    /\ UNCHANGED <<index, recipes, containers, pc, file, tree, found, reached, visible,
                   container_buf_pointer, stopped, ntasks>>

\* A new node without children: its hash is appended and children[0] of an
\* empty vector ends the process.
WalkChildless(p) ==
    /\ Visiting(p) /\ ~lookupLP(p, Node.hash) /\ Node.first > Node.last
    /\ insertLP(p, Node.hash) /\ Begin
    /\ Exit
    /\ UNCHANGED <<index, recipes, containers, ntasks>>

WalkDone ==
    /\ pc = "walk" /\ stack = <<>>
    /\ pc' = "save"
    /\ UNCHANGED <<store, run, begun, ntasks>>

\* What saving a chunk adds to container_buf_pointer: the branch leaves that
\* to the loop of the plain write, which it jumps over.
Advance == 0

\* The chunks not found are copied to the container in memory; it is flushed
\* if there is anything in it; recipe and index are saved.
Save ==
    /\ pc = "save"
    /\ LET new == {i \in DOMAIN file : ~found[i]}
           filled == container_buf_pointer + Advance * Cardinality(new)
       IN  containers' = IF filled > 0 THEN containers \cup {file[i] : i \in new} ELSE containers
    /\ recipes' = Append(recipes, file)
    /\ Exit
    /\ UNCHANGED <<index, levels, begun, ntasks>>

\* The process dies.
Crash == pc # "idle" /\ Exit /\ UNCHANGED <<store, begun, ntasks>>

Work == \/ WalkChunk \/ WalkDone \/ Save
        \/ \E p \in 1..MaxLevel : WalkKnown(p) \/ WalkNew(p) \/ WalkChildless(p)

Next ==
    \/ Work \/ Crash
    \/ \E f \in Files : PlainWrite(f) \/ Build(f) \/ BuildEmpty(f) \/ BuildTooHigh(f)

Spec == Init /\ [][Next]_vars

-------------------------------------------------------------------------------
\* Every variable keeps its type; the stack holds nodes of the tree (walk).
TypeOK ==
    /\ index \subseteq Chunk /\ containers \subseteq Chunk /\ recipes \in Seq(Seq(Chunk))
    /\ DOMAIN levels = 1..MaxLevel /\ pc \in {"idle", "walk", "save"}
    /\ file \in Seq(Chunk) /\ visible \subseteq index /\ reached \subseteq 0..MaxLevel
    /\ found \in Seq(BOOLEAN) /\ Len(found) = Len(file)
    /\ \A i \in DOMAIN stack : /\ stack[i][1] \in 0..MaxLevel
                               /\ stack[i][2] \in 1..Len(IF stack[i][1] = 0 THEN file
                                                         ELSE tree[stack[i][1]])

Below(p) == IF p = 1 THEN Len(file) ELSE Len(tree[p - 1])

\* The children of each level's nodes are the level below, each once, in order
\* and in groups of at most GroupSize (buildLevel1, buildLevelx): no chunk is
\* outside the tree, none is in two groups.  (With the types of TypeOK.)
TreeCovers ==
    /\ TypeOK
    /\ \A p \in 1..MaxLevel : tree[p] # <<>> =>
         /\ tree[p][1].first = 1 /\ tree[p][Len(tree[p])].last = Below(p)
         /\ \A k \in DOMAIN tree[p] :
              /\ tree[p][k].last - tree[p][k].first < GroupSize
              /\ k < Len(tree[p]) => tree[p][k + 1].first = tree[p][k].last + 1

\* The nodes above chunk i.
Above(i) ==
    LET over[p \in 0..MaxLevel] ==
          IF p = 0 THEN {i}
          ELSE {k \in DOMAIN tree[p] :
                  \E j \in over[p - 1] : tree[p][k].first <= j /\ j <= tree[p][k].last}
    IN  {node \in (1..MaxLevel) \X (1..Len(file)) : node[2] \in over[node[1]]}

\* Where the walk ends, a chunk counts as found for one of two reasons only:
\* lookupL0 met it in the index, or the walk stopped at a node above it; all
\* others were looked up.  And it stops at a node only if a walk, this one or
\* one before, was about to go below a node of the same level that ends in the
\* same chunk: by its last chunk alone a node is known.  What else is below it
\* need not have been seen before (walk, lookupLP).
FoundHasReason ==
    pc = "save" =>
      /\ \A i \in DOMAIN file :
           found[i] <=> (file[i] \in visible \/ Above(i) \cap stopped # {})
      /\ \A node \in stopped : <<node[1], LastChunk(node)>> \in begun

\* Of the hashes one read of a level file takes in none comes again, there or
\* behind them, over walks that die, are tried again or cannot open the file.
HashesOnce ==
    \A p \in 1..MaxLevel : \A i, j \in DOMAIN levels[p] :
       i < j /\ i <= LevelCap => levels[p][i] # levels[p][j]

\* main.cpp:403 says of the branch "save non-duplicate chunks to container":
\* when a write is done, each chunk of the file is in a container.
NonDuplicatesSaved ==
    pc = "idle" => \A v \in DOMAIN recipes : Range(recipes[v]) \subseteq containers
=============================================================================
