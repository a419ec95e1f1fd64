-------------------------------- MODULE Pipeline --------------------------------
(***************************************************************************)
(* The pipelined write of one file: main (main.cpp:297-328) and the        *)
(* threads read, chunk, hash and dedup of src/src/pipeline_*.cpp, which    *)
(* hand struct chunks on through three SyncQueues.  What dedup does with a *)
(* chunk beyond its recipe is the task "write_pipeline" of DedupStore.     *)
(***************************************************************************)
EXTENDS SyncQueue, CInt, FiniteSets, Functions

CONSTANTS
    Files,      \* inputs: [len, cut, known], cut[i] the chunk length at unit i,
                \* known the units at which a chunk the index has would begin
    BlockSize,  \* DEFAULT_BLOCK_SIZE
    MaxChunk,   \* max_chunk_size, the longest chunk chunking() returns
    QueueSize   \* per queue, the argument of sync_queue_new

Threads == {"main", "read", "chunk", "hash", "dedup"}
Queues == {"read_queue", "chunk_queue", "hash_queue"}

ASSUME PipelineAssumption ==
    /\ BlockSize \in Nat \ {0}
    /\ MaxChunk \in Nat \ {0}
    /\ QueueSize \in [Queues -> Nat \ {0}]
    /\ \A f \in Files :
         /\ f.len \in Nat /\ f.cut \in [1..f.len -> 1..MaxChunk]
         /\ f.known \subseteq 1..f.len

VARIABLES
    file,       \* the input: its units are the numbers 1..file.len
    pc,         \* per thread, where it is
    queue,      \* the queues that exist
    jcr,        \* jcr: the status and the four counters of dedup
    pos,        \* read: units read so far
    block_buf, buf_off, rest_size,   \* chunk: its buffer and the window in it
    eof,        \* chunk: c holds the CHUNK_FILE_END
    hand,       \* hash: c
    file_recipe,   \* dedup: the recipe in memory
    stored,     \* the recipe, the last container and the index are on disk
    report      \* history: the counters of jcr that main has shown

chunkVars == <<block_buf, buf_off, rest_size, eof>>
vars == <<file, pc, queue, jcr, pos, chunkVars, hand, file_recipe, stored, report>>

\* struct chunk: the flag, the data and the fingerprint (the data stand for
\* it; new_chunk leaves it empty).
Chunk(flag, data) == [flag |-> flag, data |-> data, fp |-> <<>>]
Start == Chunk("FILE_START", <<>>)
End == Chunk("FILE_END", <<>>)
Normal(data) == Chunk("NORMAL", data)

Units(first, last) == [i \in 1..(last - first + 1) |-> first + i - 1]
Smaller(m, n) == IF m <= n THEN m ELSE n

\* struct jcr, as init_backup_jcr leaves it.
init_jcr == [status |-> "INIT", chunk_num |-> 0, data_size |-> 0,
             unique_chunk_num |-> 0, unique_data_size |-> 0]

Init ==
    /\ file \in Files
    /\ pc = [t \in Threads |-> IF t = "main" THEN "start_read" ELSE "none"]
    /\ queue = [q \in {} |-> New(0)]
    /\ jcr = init_jcr
    /\ pos = 0
    /\ block_buf = [i \in 1..(BlockSize + MaxChunk) |-> 0]
    /\ buf_off = 0 /\ rest_size = 0 /\ eof = FALSE
    /\ hand = End
    /\ file_recipe = <<>> /\ stored = FALSE /\ report = <<>>

Goto(t, label) == pc' = [pc EXCEPT ![t] = label]

\* The queue a thread takes from and the one it hands on to.
In == [chunk |-> "read_queue", hash |-> "chunk_queue", dedup |-> "hash_queue"]
Out == [read |-> "read_queue", chunk |-> "chunk_queue", hash |-> "hash_queue"]

\* sync_queue_push of thread t, which goes on at label when it returns.
Push(t, item, label) ==
    LET q == Out[t] IN
    /\ Awake(queue[q], t) /\ ~SleepsInPush(queue[q], t)
    /\ queue' = IF Drops(queue[q], t) THEN queue
                ELSE [queue EXCEPT ![q] = Pushed(@, t, item)]
    /\ Goto(t, label)

\* sync_queue_pop of thread t, and what it returns.
NULL == Chunk("NULL", <<>>)
Item(t) == LET q == queue[In[t]] IN IF Gives(q) THEN Head(q.queue) ELSE NULL

Pop(t) ==
    LET q == In[t] IN
    /\ Awake(queue[q], t) /\ ~SleepsInPop(queue[q])
    /\ queue' = IF Gives(queue[q]) THEN [queue EXCEPT ![q] = Popped(@)] ELSE queue

\* A thread goes to sleep inside its call.
SleepPushing(t) ==
    /\ Awake(queue[Out[t]], t) /\ SleepsInPush(queue[Out[t]], t)
    /\ queue' = [queue EXCEPT ![Out[t]] = SleepInPush(@, t)]
    /\ UNCHANGED <<file, pc, jcr, pos, chunkVars, hand, file_recipe, stored, report>>

SleepPopping(t) ==
    /\ Awake(queue[In[t]], t) /\ SleepsInPop(queue[In[t]])
    /\ queue' = [queue EXCEPT ![In[t]] = SleepInPop(@, t)]
    /\ UNCHANGED <<file, pc, jcr, pos, chunkVars, hand, file_recipe, stored, report>>

\* The thread's last call: sync_queue_term of the queue it filled.
TermQueue(t) ==
    /\ pc[t] = "term"
    /\ queue' = [queue EXCEPT ![Out[t]] = Terminated(@)]
    /\ Goto(t, "end")
    /\ UNCHANGED <<file, jcr, pos, chunkVars, hand, file_recipe, stored, report>>

(***************************************************************************)
(* main: the phases are started, then it waits for the status and joins.   *)
(***************************************************************************)
StartThread(t, label) == pc' = [pc EXCEPT !["main"] = label, ![t] = "run"]
Create(q) == queue' = [x \in DOMAIN queue \cup {q} |->
                         IF x = q THEN New(QueueSize[q]) ELSE queue[x]]

StartPhases ==
    /\ \/ /\ pc["main"] = "start_read"
          /\ jcr' = [jcr EXCEPT !.status = "RUNNING"]
          /\ Create("read_queue") /\ StartThread("read", "start_chunk")
       \/ /\ pc["main"] = "start_chunk"
          /\ Create("chunk_queue") /\ StartThread("chunk", "start_hash")
          /\ UNCHANGED jcr
       \/ /\ pc["main"] = "start_hash"
          /\ Create("hash_queue") /\ StartThread("hash", "start_dedup")
          /\ UNCHANGED jcr
       \/ /\ pc["main"] = "start_dedup"
          /\ StartThread("dedup", "wait")
          /\ UNCHANGED <<queue, jcr>>
    /\ UNCHANGED <<file, pos, chunkVars, hand, file_recipe, stored, report>>

show_backup_jcr == report' = jcr

\* The loop on jcr.status, the four pthread_join and the report.
StopPhases ==
    /\ \/ /\ pc["main"] = "wait" /\ jcr.status = "DONE"
          /\ Goto("main", "join")
          /\ UNCHANGED report
       \/ /\ pc["main"] = "join"
          /\ \A t \in Threads \ {"main"} : pc[t] = "end"
          /\ Goto("main", "end")
          /\ show_backup_jcr
    /\ UNCHANGED <<file, queue, jcr, pos, chunkVars, hand, file_recipe, stored>>

(***************************************************************************)
(* read: CHUNK_FILE_START, the blocks fread returns, CHUNK_FILE_END.       *)
(***************************************************************************)
Block == Units(pos + 1, Smaller(pos + BlockSize, file.len))

Read ==
    /\ \/ /\ pc["read"] = "run"
          /\ Push("read", Start, "blocks")
          /\ UNCHANGED pos
       \/ /\ pc["read"] = "blocks" /\ pos < file.len
          /\ Push("read", Normal(Block), "blocks")
          /\ pos' = pos + Len(Block)
       \/ /\ pc["read"] = "blocks" /\ pos = file.len
          /\ Push("read", End, "term")
          /\ UNCHANGED pos
    /\ UNCHANGED <<file, jcr, chunkVars, hand, file_recipe, stored, report>>

(***************************************************************************)
(* chunk: blocks are collected in block_buf until the longest chunk is in  *)
(* the window buf_off, rest_size, or the file has ended; then a chunk is   *)
(* cut from it.                                                            *)
(***************************************************************************)
\* memcpy of data to, and memmove of n units from, an offset of block_buf.
Copied(buf, off, data) ==
    [i \in DOMAIN buf |-> IF i - off \in DOMAIN data THEN data[i - off] ELSE buf[i]]
Moved(buf, off, n) ==
    [i \in DOMAIN buf |-> IF i <= n THEN buf[off + i] ELSE buf[i]]

\* Mutant: buf_off is reset before the memmove that needs it.
Refilled_ResetFirst(data) == Copied(Moved(block_buf, 0, rest_size), rest_size, data)

Refilled(data) == Copied(Moved(block_buf, buf_off, rest_size), rest_size, data)

\* Mutant: a chunk is cut from whatever is in the window.
Filling_WhenEmpty == rest_size = 0 /\ ~eof

\* Mutant: the whole file is collected before the first cut.
Filling_Unbounded == ~eof

\* Mutant: the fill loop does not look at c.
Filling_PastEnd == rest_size < MaxChunk

\* c = NULL and not enough in the window to be sure of the next cut.
Filling == rest_size < MaxChunk /\ ~eof

\* chunking: where the content says, or at the end of the window.
ChunkSize == Smaller(file.cut[block_buf[buf_off + 1]], rest_size)

\* The pop before the loop, which finds buf_off = 0, and those in it.
ChunkFill ==
    /\ pc["chunk"] = "first" \/ (pc["chunk"] = "loop" /\ Filling)
    /\ Pop("chunk")
    /\ LET c == Item("chunk") IN
         /\ Goto("chunk", IF c = NULL THEN "abort" ELSE "loop")
         /\ IF c \in {NULL, End}
            THEN eof' = (eof \/ c = End) /\ UNCHANGED <<block_buf, buf_off, rest_size>>
            ELSE /\ block_buf' = Refilled(c.data)
                 /\ buf_off' = 0 /\ rest_size' = rest_size + Len(c.data)
                 /\ UNCHANGED eof
    /\ UNCHANGED <<file, jcr, pos, hand, file_recipe, stored, report>>

ChunkCut ==
    /\ pc["chunk"] = "loop" /\ ~Filling /\ rest_size > 0
    /\ Push("chunk", Normal(SubSeq(block_buf, buf_off + 1, buf_off + ChunkSize)), "loop")
    /\ rest_size' = rest_size - ChunkSize
    /\ buf_off' = buf_off + ChunkSize
    /\ UNCHANGED <<file, jcr, pos, block_buf, eof, hand, file_recipe, stored, report>>

ChunkStart ==
    /\ pc["chunk"] = "run"
    /\ Pop("chunk")
    /\ LET c == Item("chunk") IN
         Goto("chunk", IF c = NULL THEN "term"
                       ELSE IF c.flag = "FILE_START" THEN "forward" ELSE "abort")
    /\ UNCHANGED <<file, jcr, pos, chunkVars, hand, file_recipe, stored, report>>

ChunkForward ==
    /\ \/ /\ pc["chunk"] = "forward"
          /\ Push("chunk", Start, "first")
          /\ UNCHANGED <<buf_off, eof>>
       \/ /\ pc["chunk"] = "loop" /\ ~Filling /\ rest_size = 0
          /\ Push("chunk", End, "run")
          /\ buf_off' = 0 /\ eof' = FALSE
    /\ UNCHANGED <<file, jcr, pos, block_buf, rest_size, hand, file_recipe, stored, report>>

(***************************************************************************)
(* hash: every chunk gets its fingerprint and is handed on.                *)
(***************************************************************************)
Hashed(c) == IF c.flag = "NORMAL" THEN [c EXCEPT !.fp = c.data] ELSE c

HashPop ==
    /\ pc["hash"] = "run"
    /\ Pop("hash")
    /\ IF Item("hash") = NULL
       THEN Goto("hash", "term") /\ UNCHANGED hand
       ELSE Goto("hash", "forward") /\ hand' = Hashed(Item("hash"))
    /\ UNCHANGED <<file, jcr, pos, chunkVars, file_recipe, stored, report>>

HashForward ==
    /\ pc["hash"] = "forward"
    /\ Push("hash", hand, "run")
    /\ UNCHANGED <<file, jcr, pos, chunkVars, hand, file_recipe, stored, report>>

(***************************************************************************)
(* dedup: the recipe grows by one fingerprint a chunk; at CHUNK_FILE_END   *)
(* everything is saved, and only then main is told.                        *)
(***************************************************************************)
\* What a chunk adds to the counters of the job; they are int.
Unique(c) == c.fp[1] \notin file.known
Counted(c) ==
    [jcr EXCEPT !.chunk_num = ToInt(@ + 1),
                !.data_size = ToInt(@ + Len(c.data)),
                !.unique_chunk_num = IF Unique(c) THEN ToInt(@ + 1) ELSE @,
                !.unique_data_size = IF Unique(c) THEN ToInt(@ + Len(c.data)) ELSE @]

DedupPop ==
    /\ pc["dedup"] = "run"
    /\ Pop("dedup")
    /\ LET c == Item("dedup") IN
         /\ Goto("dedup", IF c = NULL THEN "abort"
                          ELSE IF c = End THEN "save" ELSE "run")
         /\ IF c.flag = "NORMAL"
            THEN file_recipe' = Append(file_recipe, c.fp) /\ jcr' = Counted(c)
            ELSE UNCHANGED <<file_recipe, jcr>>
    /\ UNCHANGED <<file, pos, chunkVars, hand, stored, report>>

\* Mutant: main is told before the saves.
DedupFinish_StatusFirst ==
    /\ \/ /\ pc["dedup"] = "save" /\ Goto("dedup", "status")
          /\ jcr' = [jcr EXCEPT !.status = "DONE"]
          /\ UNCHANGED stored
       \/ /\ pc["dedup"] = "status" /\ Goto("dedup", "end")
          /\ stored' = TRUE
          /\ UNCHANGED jcr
    /\ UNCHANGED <<file, queue, pos, chunkVars, hand, file_recipe, report>>

DedupFinish ==
    /\ \/ /\ pc["dedup"] = "save" /\ Goto("dedup", "status")
          /\ stored' = TRUE
          /\ UNCHANGED jcr
       \/ /\ pc["dedup"] = "status" /\ Goto("dedup", "end")
          /\ jcr' = [jcr EXCEPT !.status = "DONE"]
          /\ UNCHANGED stored
    /\ UNCHANGED <<file, queue, pos, chunkVars, hand, file_recipe, report>>

-------------------------------------------------------------------------------
\* The calls a thread is in and may sleep in.
InPush(t) ==
    \/ t = "read" /\ pc[t] \in {"run", "blocks"}
    \/ t = "chunk" /\ (pc[t] = "forward" \/ (pc[t] = "loop" /\ ~Filling))
    \/ t = "hash" /\ pc[t] = "forward"

InPop(t) ==
    \/ t = "chunk" /\ (pc[t] \in {"run", "first"} \/ (pc[t] = "loop" /\ Filling))
    \/ t \in {"hash", "dedup"} /\ pc[t] = "run"

Sleep(t) ==
    \/ InPush(t) /\ SleepPushing(t)
    \/ InPop(t) /\ SleepPopping(t)

Main == StartPhases \/ StopPhases
ReadThread == Read \/ TermQueue("read") \/ Sleep("read")
ChunkThread ==
    \/ ChunkStart \/ ChunkFill \/ ChunkCut \/ ChunkForward
    \/ TermQueue("chunk") \/ Sleep("chunk")
HashThread == HashPop \/ HashForward \/ TermQueue("hash") \/ Sleep("hash")
DedupThread == DedupPop \/ DedupFinish \/ Sleep("dedup")

SpuriousWakeup ==
    /\ \E q \in DOMAIN queue, t \in Threads :
         /\ ~Awake(queue[q], t)
         /\ queue' = [queue EXCEPT ![q] = Woken(@, t)]
    /\ UNCHANGED <<file, pc, jcr, pos, chunkVars, hand, file_recipe, stored, report>>

Next ==
    \/ Main \/ ReadThread \/ ChunkThread \/ HashThread \/ DedupThread
    \/ SpuriousWakeup

Spec == Init /\ [][Next]_vars

\* Every thread that can run is run.
FairSpec ==
    /\ Spec
    /\ WF_vars(Main) /\ WF_vars(ReadThread) /\ WF_vars(ChunkThread)
    /\ WF_vars(HashThread) /\ WF_vars(DedupThread)

-------------------------------------------------------------------------------
Labels == {"none", "start_read", "start_chunk", "start_hash", "start_dedup", "wait",
           "join", "run", "blocks", "forward", "first", "loop", "save", "status",
           "term", "end", "abort"}

IsChunk(c) == c.flag \in {"NORMAL", "FILE_START", "FILE_END"}

TypeOK ==
    /\ file \in Files
    /\ pc \in [Threads -> Labels]
    /\ DOMAIN queue \subseteq Queues
    /\ \A q \in DOMAIN queue :
         /\ \A i \in DOMAIN queue[q].queue : IsChunk(queue[q].queue[i])
         /\ Len(queue[q].queue) <= QueueSize[q]
         /\ queue[q].max_work \cup queue[q].min_work \cup queue[q].entered \subseteq Threads
    /\ jcr.status \in {"INIT", "RUNNING", "DONE"}
    /\ pos \in 0..file.len
    /\ buf_off \in Nat /\ rest_size \in Nat /\ eof \in BOOLEAN
    /\ IsChunk(hand)
    /\ stored \in BOOLEAN

\* No thread runs into an assertion (pipeline_chunk.cpp:30, 57) or takes the
\* NULL of a drained queue for a chunk (pipeline_chunk.cpp:35 and 46,
\* pipeline_dedup.cpp:85): the marks and the terms reach every stage in order.
NoAbort == \A t \in Threads : pc[t] # "abort"

\* The window, with the block that may still be copied behind it, stays within
\* the DEFAULT_BLOCK_SIZE + max_chunk_size bytes of block_buf.  (With the types of TypeOK.)
WindowFits ==
    /\ TypeOK
    /\ buf_off + rest_size <= BlockSize + MaxChunk
    /\ \A i \in 1..rest_size : block_buf[buf_off + i] # 0

\* When main sees JCR_STATUS_DONE everything is on disk, and when it leaves no
\* queue holds anything back and what it has shown counts the whole file: the
\* sizes modulo the width of an int, the chunks that went into the recipe, and
\* of both those the index did not know (show_backup_jcr).
DoneMeansStored ==
    LET new == {i \in DOMAIN file_recipe : file_recipe[i][1] \notin file.known}
    IN  /\ pc["main"] \in {"join", "end"} => stored
        /\ pc["main"] = "end" =>
             /\ \A q \in DOMAIN queue : queue[q].queue = <<>> /\ queue[q].entered = {}
             /\ report.data_size = ToInt(file.len)
             /\ report.chunk_num = ToInt(Len(file_recipe))
             /\ report.unique_chunk_num = ToInt(Cardinality(new))
             /\ new = DOMAIN file_recipe => report.unique_data_size = report.data_size

\* The write comes to its end: no stage waits for another for ever.
Finishes == <>(pc["main"] = "end")
===============================================================================
