------------------------------ MODULE MCPipeline ------------------------------
(***************************************************************************)
(* Values for the constants of Pipeline.                                   *)
(***************************************************************************)
EXTENDS PipelineRefinement

CONSTANTS ReadSize, HandSize

MCQueueSize == [q \in Queues |-> IF q = "read_queue" THEN ReadSize ELSE HandSize]

\* The empty file, one shorter than a block, and one of several blocks with
\* cuts that fall inside, at and behind the end of a block.
Input(cut, known) == [len |-> Len(cut), cut |-> cut, known |-> known]
MCFiles ==
    { Input(<<>>, {}), Input(<<2>>, {1}), Input(<<3, 3>>, {}),
      Input(<<2, 1, 3, 3, 1, 2, 3>>, {1, 6}), Input(<<3, 1, 1, 1, 2, 3>>, 1..6),
      Input(<<1, 1, 2, 1, 3>>, {}),
      Input(<<1, 3, 2, 1, 1, 3, 1, 2, 3, 2, 1>>, {2, 5}) }
===============================================================================
