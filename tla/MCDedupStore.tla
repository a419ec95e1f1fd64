---------------------------- MODULE MCDedupStore ----------------------------
(***************************************************************************)
(* Values for the constants of DedupStore.                                 *)
(***************************************************************************)
EXTENDS DedupStore

CONSTANTS k1, k2, k3, k4

\* Chunks of length 1 and 2: with ContainerSize 5 a container holds up to
\* three of them, long ones before, between and behind short ones.
MCChunk == {k1, k2, k3, k4}
MCChunkLen == [x \in MCChunk |-> IF x \in {k2, k4} THEN 2 ELSE 1]

\* Shared chunks in different orders, repeats, files that fill a container
\* and begin a second one, the empty file.
MCFiles == { <<k1, k2, k3>>, <<k3, k4, k3>>, <<k2, k1, k4>>, <<k4>>, <<>> }
MCSmallFiles == { <<k1, k2>>, <<k2>>, <<k3, k1>> }
MCTwoFiles == { <<k1, k2>>, <<k2>> }

AllTasks == {"write", "write_pipeline", "delete"}
SerialTasks == {"write", "delete"}
PipelineTasks == {"write_pipeline", "delete"}
SerialWrite == {"write"}
=============================================================================
