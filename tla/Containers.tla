------------------------------ MODULE Containers ------------------------------
(***************************************************************************)
(* Container files and the operations main.cpp applies to them.  A file is *)
(* a sequence of cells; the cell <<c, i>> is the i-th unit of chunk c.     *)
(* Offsets are counted from 0, as in the code.                             *)
(***************************************************************************)
EXTENDS Integers, Sequences

CONSTANTS
    Chunk,          \* the distinct chunk contents
    ChunkLen,       \* their lengths
    ContainerSize,  \* CONTAINER_SIZE
    Junk            \* stands in a cell for bytes of a stale static buffer

ASSUME ChunkAssumption ==
    /\ ChunkLen \in [Chunk -> Nat \ {0}]
    /\ ContainerSize \in Nat
    /\ \A c \in Chunk : ChunkLen[c] < ContainerSize
    /\ Junk \notin Chunk

Cell == (Chunk \cup {Junk}) \X Nat

Larger(m, n) == IF m >= n THEN m ELSE n

\* open(O_RDWR | O_CREAT) without O_TRUNC, then write: what the new content
\* does not reach of an older file stays.
Overlay(new, old) ==
    [i \in 1..Larger(Len(new), Len(old)) |->
        IF i <= Len(new) THEN new[i] ELSE old[i]]

\* memcpy of chunk c to the end of the container buffer.
AppendChunk(buf, c) ==
    [i \in 1..(Len(buf) + ChunkLen[c]) |->
        IF i <= Len(buf) THEN buf[i] ELSE <<c, i - Len(buf)>>]

Full(buf, c) == Len(buf) + ChunkLen[c] >= ContainerSize

\* What del_seg copies behind the cut: the bytes read after oft + len.
Rest(file, oft, len) == IF Len(file) > oft + len THEN Len(file) - oft - len ELSE 0

\* Mutant: the cut starts one unit too late.
del_seg_OffByOne(file, oft, len) ==
    [i \in 1..(oft + Rest(file, oft, len)) |->
        IF i <= oft + 1 /\ i <= Len(file) THEN file[i]
        ELSE IF i <= oft THEN <<Junk, 0>>
        ELSE file[i + len]]

\* del_seg: keep [0, oft), drop len units, keep the rest.  The prefix is
\* written with the requested length even when the read was shorter, so a
\* prefix behind the end of the file is filled with stale buffer bytes.
del_seg(file, oft, len) ==
    [i \in 1..(oft + Rest(file, oft, len)) |->
        IF i <= oft
        THEN IF i <= Len(file) THEN file[i] ELSE <<Junk, 0>>
        ELSE file[i + len]]

\* Mutant: an empty file stays.
CutRemovesFile_Never(file, oft, len) == FALSE

\* The two removes of del_seg leave no file when nothing is kept.
CutRemovesFile(file, oft, len) == oft = 0 /\ Rest(file, oft, len) = 0
=============================================================================
