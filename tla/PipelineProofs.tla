---------------------------- MODULE PipelineProofs ----------------------------
(***************************************************************************)
(* The pipelined write for any file, any size of blocks, chunks and        *)
(* queues.  The marks FILE_START and FILE_END are followed through the     *)
(* queues (Inv): no thread aborts and the window stays inside block_buf.   *)
(* The units of the file are followed the same way (StreamInv): they stay  *)
(* in order in the stages, and the cuts are those of the whole file.  With *)
(* what main has been told (DoneInv) this gives the end of a write, and    *)
(* that the pipeline implements ChunkStream.                               *)
(***************************************************************************)
EXTENDS PipelineRefinement, WellFoundedInduction, FiniteSetTheorems, TLAPS

-------------------------------------------------------------------------------
\* The inductive invariant.

Q(q) == IF q \in DOMAIN queue THEN queue[q].queue ELSE <<>>
T(q) == q \in DOMAIN queue /\ queue[q].term

rq == Q("read_queue")
cq == Q("chunk_queue")
hq == Q("hash_queue")

\* What is handed on: a mark, or data with or without a fingerprint.
NormalItem == [flag : {"NORMAL"}, data : Seq(1..file.len), fp : Seq(1..file.len)]
Passed == {Start, End} \cup NormalItem

QueueType(q) ==
  [queue : Seq(Passed), max_size : {QueueSize[q]}, term : BOOLEAN,
   entered : SUBSET Threads, max_work : SUBSET Threads, min_work : SUBSET Threads]

QueueInv ==
  /\ DOMAIN queue \subseteq Queues
  /\ \A q \in DOMAIN queue :
       queue[q] \in QueueType(q) /\ Len(queue[q].queue) <= QueueSize[q]

PcInv ==
  /\ pc \in [Threads -> Labels]
  /\ pc["main"] \in {"start_read", "start_chunk", "start_hash", "start_dedup",
                     "wait", "join", "end"}
  /\ pc["read"] \in {"none", "run", "blocks", "term", "end"}
  /\ pc["chunk"] \in {"none", "run", "forward", "first", "loop", "term", "end"}
  /\ pc["hash"] \in {"none", "run", "forward", "term", "end"}
  /\ pc["dedup"] \in {"none", "run", "save", "status", "end"}

\* main makes a queue before it starts the threads that use it.
StartInv ==
  /\ "read_queue" \in DOMAIN queue <=> pc["main"] # "start_read"
  /\ "chunk_queue" \in DOMAIN queue <=> pc["main"] \notin {"start_read", "start_chunk"}
  /\ "hash_queue" \in DOMAIN queue
       <=> pc["main"] \notin {"start_read", "start_chunk", "start_hash"}
  /\ pc["read"] = "none" <=> pc["main"] = "start_read"
  /\ pc["chunk"] = "none" <=> pc["main"] \in {"start_read", "start_chunk"}
  /\ pc["hash"] = "none" <=> pc["main"] \in {"start_read", "start_chunk", "start_hash"}
  /\ pc["dedup"] = "none"
       <=> pc["main"] \in {"start_read", "start_chunk", "start_hash", "start_dedup"}

DataInv ==
  /\ file \in Files /\ pos \in 0..file.len /\ hand \in Passed
  /\ eof \in BOOLEAN /\ stored \in BOOLEAN
  /\ jcr.status \in {"INIT", "RUNNING", "DONE"}
  /\ jcr = [status |-> jcr.status, chunk_num |-> jcr.chunk_num, data_size |-> jcr.data_size,
            unique_chunk_num |-> jcr.unique_chunk_num,
            unique_data_size |-> jcr.unique_data_size]

WindowInv ==
  /\ block_buf \in [1..(BlockSize + MaxChunk) -> 0..file.len]
  /\ buf_off \in Nat /\ rest_size \in Nat
  /\ buf_off + rest_size <= BlockSize + MaxChunk
  /\ \A i \in 1..rest_size : block_buf[buf_off + i] # 0
  /\ pc["chunk"] # "loop" => buf_off = 0 /\ rest_size = 0
  /\ \A i \in 1..Len(rq) : Len(rq[i].data) <= BlockSize

EndsWith(s) == s # <<>> /\ s[Len(s)] = End
OnlyLast(s) == \A i \in 1..Len(s) : s[i] = End => i = Len(s)

ReadDone == pc["read"] \in {"term", "end"}
\* chunk has met the end of the file.
ChunkMet == pc["chunk"] \in {"run", "term", "end"} \/ (pc["chunk"] = "loop" /\ eof)

\* read_queue: FILE_START, blocks, FILE_END.
ReadInv ==
  /\ T("read_queue") => pc["read"] = "end"
  /\ pc["read"] \in {"none", "run"} => rq = <<>> /\ pc["chunk"] \in {"none", "run"}
  /\ OnlyLast(rq)
  /\ \A i \in 1..Len(rq) :
       /\ rq[i] = End => ReadDone
       /\ rq[i] = Start => i = 1 /\ pc["chunk"] \in {"none", "run"}
  /\ ReadDone => EndsWith(rq) \/ (rq = <<>> /\ ChunkMet)
  /\ pc["chunk"] \in {"term", "end"} \/ (pc["chunk"] = "loop" /\ eof) => ReadDone /\ rq = <<>>
  /\ eof => pc["chunk"] = "loop"
  /\ pc["chunk"] \in {"none", "run"} =>
       \/ rq = <<>> /\ pc["read"] \in {"none", "run"}
       \/ rq # <<>> /\ rq[1] = Start
       \/ pc["chunk"] = "run" /\ rq = <<>> /\ ReadDone

\* chunk has handed on FILE_END.
EndCut == pc["chunk"] \in {"term", "end"} \/ (pc["chunk"] = "run" /\ rq = <<>> /\ ReadDone)
Held == pc["hash"] = "forward" /\ hand = End
Past == pc["dedup"] \in {"save", "status", "end"}

\* chunk_queue and hash_queue: FILE_END is in one place, with nothing behind it.
EndInv ==
  /\ T("chunk_queue") => pc["chunk"] = "end"
  /\ T("hash_queue") => pc["hash"] = "end"
  /\ pc["hash"] \in {"term", "end"} => pc["chunk"] = "end" /\ cq = <<>>
  /\ OnlyLast(cq) /\ OnlyLast(hq)
  /\ EndsWith(cq) => EndCut /\ ~Held /\ ~EndsWith(hq) /\ ~Past
  /\ Held => EndCut /\ cq = <<>> /\ ~EndsWith(hq) /\ ~Past
  /\ EndsWith(hq) => EndCut /\ cq = <<>> /\ pc["hash"] # "forward" /\ ~Past
  /\ Past => EndCut /\ cq = <<>> /\ hq = <<>> /\ pc["hash"] # "forward"
  /\ EndCut => EndsWith(cq) \/ Held \/ EndsWith(hq) \/ Past

Inv == QueueInv /\ PcInv /\ StartInv /\ DataInv /\ WindowInv /\ ReadInv /\ EndInv

-------------------------------------------------------------------------------
\* What the calls do to the queues.

LEMMA QueueNames ==
  /\ Out["read"] = "read_queue" /\ Out["chunk"] = "chunk_queue" /\ Out["hash"] = "hash_queue"
  /\ In["chunk"] = "read_queue" /\ In["hash"] = "chunk_queue" /\ In["dedup"] = "hash_queue"
BY DEF Out, In

LEMMA UpdateEffect ==
  ASSUME QueueInv, NEW q \in DOMAIN queue, NEW s \in QueueType(q),
         Len(s.queue) <= QueueSize[q], queue' = [queue EXCEPT ![q] = s], file' = file
  PROVE  /\ QueueInv' /\ DOMAIN queue' = DOMAIN queue
         /\ Q(q)' = s.queue /\ T(q)' = s.term
         /\ \A x : x # q => Q(x)' = Q(x) /\ T(x)' = T(x)
<1>1. DOMAIN queue' = DOMAIN queue /\ queue'[q] = s
  OBVIOUS
<1>2. \A x \in DOMAIN queue : x # q => queue'[x] = queue[x]
  OBVIOUS
<1>3. \A x : QueueType(x)' = QueueType(x)
  BY DEF QueueType, Passed, NormalItem
<1>4. QueueInv'
  <2>1. ASSUME NEW x \in DOMAIN queue'
        PROVE  queue'[x] \in QueueType(x)' /\ Len(queue'[x].queue) <= QueueSize[x]
    <3>1. CASE x = q
      BY <1>1, <1>3, <3>1
    <3>2. CASE x # q
      BY <1>1, <1>2, <1>3, <2>1, <3>2 DEF QueueInv
    <3> QED BY <3>1, <3>2
  <2> QED BY <1>1, <2>1 DEF QueueInv
<1>5. \A x : x # q => Q(x)' = Q(x) /\ T(x)' = T(x)
  BY <1>1, <1>2 DEF Q, T
<1>6. Q(q)' = s.queue /\ T(q)' = s.term
  <2>1. s.term \in BOOLEAN
    BY DEF QueueType
  <2> QED BY <1>1, <2>1 DEF Q, T
<1> QED BY <1>1, <1>4, <1>5, <1>6

\* A push appends: no queue is terminated while its producer still pushes.
LEMMA PushEffect ==
  ASSUME QueueInv, NEW t \in Threads, NEW q \in DOMAIN queue, q = Out[t], ~T(q),
         NEW item \in Passed, NEW label, Push(t, item, label), file' = file
  PROVE  /\ QueueInv' /\ DOMAIN queue' = DOMAIN queue
         /\ Q(q)' = Append(Q(q), item) /\ T(q)' = T(q)
         /\ \A x : x # q => Q(x)' = Q(x) /\ T(x)' = T(x)
         /\ pc' = [pc EXCEPT ![t] = label]
<1> DEFINE s == queue[q]
<1>1. s \in QueueType(q) /\ Len(s.queue) <= QueueSize[q] /\ ~s.term /\ q \in Queues
  BY DEF QueueInv, T
<1>2. ~Drops(s, t) /\ ~Full(s)
  BY <1>1 DEF Push, SleepsInPush, Drops
<1>3. queue' = [queue EXCEPT ![q] = Pushed(s, t, item)] /\ pc' = [pc EXCEPT ![t] = label]
  BY <1>2 DEF Push, Goto
<1>4. QueueSize[q] \in Nat \ {0} /\ s.max_size = QueueSize[q] /\ s.queue \in Seq(Passed)
  BY <1>1, PipelineAssumption DEF QueueType
<1>5. Len(s.queue) < QueueSize[q]
  BY <1>2, <1>4 DEF Full
<1>6. Append(s.queue, item) \in Seq(Passed) /\ Len(Append(s.queue, item)) <= QueueSize[q]
  BY <1>4, <1>5
<1> DEFINE new == Pushed(s, t, item)
<1>7. new \in QueueType(q) /\ new.queue = Append(s.queue, item) /\ new.term = s.term
  BY <1>1, <1>6 DEF Pushed, QueueType
<1>8. Q(q) = s.queue /\ T(q) = s.term
  BY <1>1 DEF Q, T, QueueType
<1> HIDE DEF new, s
<1>9. queue' = [queue EXCEPT ![q] = new]
  BY <1>3 DEF new
<1> QED BY <1>3, <1>6, <1>7, <1>8, <1>9, UpdateEffect

\* A pop takes the first item, or returns NULL from a terminated queue.
LEMMA PopEffect ==
  ASSUME QueueInv, NEW t, NEW q \in DOMAIN queue, q = In[t], Pop(t), file' = file
  PROVE  /\ QueueInv' /\ DOMAIN queue' = DOMAIN queue
         /\ T(q)' = T(q)
         /\ \A x : x # q => Q(x)' = Q(x) /\ T(x)' = T(x)
         /\ \/ /\ Q(q) # <<>> /\ Q(q) \in Seq(Passed)
               /\ Item(t) = Q(q)[1] /\ Item(t) \in Passed /\ Item(t) # NULL
               /\ Q(q)' = Tail(Q(q))
            \/ Q(q) = <<>> /\ T(q) /\ Item(t) = NULL /\ Q(q)' = <<>>
<1> DEFINE s == queue[q]
<1>1. s \in QueueType(q) /\ Len(s.queue) <= QueueSize[q] /\ q \in Queues
  BY DEF QueueInv
<1>2. s.queue \in Seq(Passed) /\ s.term \in BOOLEAN /\ QueueSize[q] \in Nat
  BY <1>1, PipelineAssumption DEF QueueType
<1>3. Q(q) = s.queue /\ T(q) = s.term
  BY <1>1 DEF Q, T, QueueType
<1>4. CASE Gives(s)
  <2> DEFINE new == Popped(s)
  <2>1. queue' = [queue EXCEPT ![q] = new]
    BY <1>4 DEF Pop
  <2>2. s.queue # <<>>
    BY <1>4 DEF Gives
  <2>3. /\ Tail(s.queue) \in Seq(Passed) /\ Len(Tail(s.queue)) <= QueueSize[q]
        /\ Head(s.queue) = s.queue[1] /\ s.queue[1] \in Passed
    BY <1>1, <1>2, <2>2
  <2>4. new \in QueueType(q) /\ new.queue = Tail(s.queue) /\ new.term = s.term
    BY <1>1, <2>3 DEF Popped, QueueType
  <2>5. Item(t) = s.queue[1]
    BY <1>4, <2>3 DEF Item
  <2>6. NULL \notin Passed
    BY DEF NULL, Passed, Start, End, Chunk, NormalItem
  <2> HIDE DEF new, s
  <2>7. /\ QueueInv' /\ DOMAIN queue' = DOMAIN queue
        /\ Q(q)' = Tail(s.queue) /\ T(q)' = s.term
        /\ \A x : x # q => Q(x)' = Q(x) /\ T(x)' = T(x)
    BY <2>1, <2>3, <2>4, UpdateEffect
  <2> QED BY <1>2, <1>3, <2>2, <2>3, <2>5, <2>6, <2>7
<1>5. CASE ~Gives(s)
  <2>1. queue' = queue /\ Item(t) = NULL
    BY <1>5 DEF Pop, Item
  <2>2. s.queue = <<>> /\ s.term
    BY <1>2, <1>5 DEF Pop, Gives, SleepsInPop
  <2>3. QueueInv'
    BY <2>1 DEF QueueInv, QueueType, Passed, NormalItem
  <2>4. \A x : Q(x)' = Q(x) /\ T(x)' = T(x)
    BY <2>1 DEF Q, T
  <2> QED BY <1>3, <2>1, <2>2, <2>3, <2>4
<1> QED BY <1>4, <1>5

\* Going to sleep and waking up leave the contents alone.
Quiet ==
  /\ UNCHANGED <<file, pc, jcr, pos, chunkVars, hand, file_recipe, stored, report>>
  /\ QueueInv' /\ DOMAIN queue' = DOMAIN queue
  /\ \A x : Q(x)' = Q(x) /\ T(x)' = T(x)

LEMMA QuietEffect ==
  ASSUME QueueInv, NEW q \in DOMAIN queue, NEW s \in QueueType(q),
         s.queue = queue[q].queue, s.term = queue[q].term,
         queue' = [queue EXCEPT ![q] = s],
         UNCHANGED <<file, pc, jcr, pos, chunkVars, hand, file_recipe, stored, report>>
  PROVE  Quiet
<1>1. Len(s.queue) <= QueueSize[q] /\ file' = file
  BY DEF QueueInv
<1>2. /\ QueueInv' /\ DOMAIN queue' = DOMAIN queue
      /\ Q(q)' = s.queue /\ T(q)' = s.term
      /\ \A x : x # q => Q(x)' = Q(x) /\ T(x)' = T(x)
  BY <1>1, UpdateEffect
<1>3. Q(q) = s.queue /\ T(q) = s.term
  BY DEF Q, T, QueueType
<1> QED BY <1>2, <1>3 DEF Quiet

LEMMA SleepQuiet ==
  ASSUME QueueInv, NEW t \in Threads, Sleep(t),
         InPush(t) => Out[t] \in DOMAIN queue, InPop(t) => In[t] \in DOMAIN queue
  PROVE  Quiet
<1>1. CASE InPush(t) /\ SleepPushing(t)
  <2> DEFINE q == Out[t]
  <2> DEFINE s == SleepInPush(queue[q], t)
  <2>1. /\ q \in DOMAIN queue /\ queue' = [queue EXCEPT ![q] = s]
        /\ UNCHANGED <<file, pc, jcr, pos, chunkVars, hand, file_recipe, stored, report>>
    BY <1>1 DEF SleepPushing
  <2>2. queue[q] \in QueueType(q)
    BY <2>1 DEF QueueInv
  <2>3. s \in QueueType(q) /\ s.queue = queue[q].queue /\ s.term = queue[q].term
    BY <2>2 DEF SleepInPush, QueueType
  <2> HIDE DEF q, s
  <2> QED BY <2>1, <2>3, QuietEffect
<1>2. CASE InPop(t) /\ SleepPopping(t)
  <2> DEFINE q == In[t]
  <2> DEFINE s == SleepInPop(queue[q], t)
  <2>1. /\ q \in DOMAIN queue /\ queue' = [queue EXCEPT ![q] = s]
        /\ UNCHANGED <<file, pc, jcr, pos, chunkVars, hand, file_recipe, stored, report>>
    BY <1>2 DEF SleepPopping
  <2>2. queue[q] \in QueueType(q)
    BY <2>1 DEF QueueInv
  <2>3. s \in QueueType(q) /\ s.queue = queue[q].queue /\ s.term = queue[q].term
    BY <2>2 DEF SleepInPop, QueueType
  <2> HIDE DEF q, s
  <2> QED BY <2>1, <2>3, QuietEffect
<1> QED BY <1>1, <1>2 DEF Sleep

LEMMA WakeQuiet == ASSUME QueueInv, SpuriousWakeup PROVE Quiet
<1>1. PICK q \in DOMAIN queue, t \in Threads : queue' = [queue EXCEPT ![q] = Woken(@, t)]
  BY DEF SpuriousWakeup
<1> DEFINE s == Woken(queue[q], t)
<1>2. queue[q] \in QueueType(q) /\ queue' = [queue EXCEPT ![q] = s]
  BY <1>1 DEF QueueInv
<1>3. s \in QueueType(q) /\ s.queue = queue[q].queue /\ s.term = queue[q].term
  BY <1>2 DEF Woken, QueueType
<1>4. UNCHANGED <<file, pc, jcr, pos, chunkVars, hand, file_recipe, stored, report>>
  BY DEF SpuriousWakeup
<1> HIDE DEF s
<1> QED BY <1>2, <1>3, <1>4, QuietEffect

LEMMA QuietKeeps == ASSUME Inv, Quiet PROVE Inv'
<1>1. rq' = rq /\ cq' = cq /\ hq' = hq /\ \A q : T(q)' = T(q)
  BY DEF Quiet, rq, cq, hq
<1>2. UNCHANGED <<file, pc, jcr, pos, block_buf, buf_off, rest_size, eof, hand, stored>>
  BY DEF Quiet, chunkVars
<1>3. PcInv' /\ StartInv' /\ DataInv'
  BY <1>2 DEF Inv, Quiet, PcInv, StartInv, DataInv, Passed, NormalItem
<1>4. WindowInv'
  BY <1>1, <1>2 DEF Inv, WindowInv
<1>5. ReadInv'
  BY <1>1, <1>2 DEF Inv, ReadInv, ReadDone, ChunkMet
<1>6. EndInv'
  BY <1>1, <1>2 DEF Inv, EndInv, EndCut, Held, Past, ReadDone
<1> QED BY <1>3, <1>4, <1>5, <1>6 DEF Inv, Quiet


-------------------------------------------------------------------------------
\* The marks in a queue.

LEMMA Marks ==
  /\ Start # End /\ Start.flag = "FILE_START" /\ End.flag = "FILE_END"
  /\ Start.data = <<>> /\ End.data = <<>> /\ NULL.flag = "NULL"
  /\ \A c \in NormalItem : c # Start /\ c # End /\ c.flag = "NORMAL"
BY DEF Start, End, NULL, Chunk, NormalItem

LEMMA QueuesTyped ==
  ASSUME QueueInv
  PROVE  rq \in Seq(Passed) /\ cq \in Seq(Passed) /\ hq \in Seq(Passed)
BY DEF QueueInv, QueueType, rq, cq, hq, Q

LEMMA AppendMark ==
  ASSUME NEW S, NEW s \in Seq(S), NEW item \in S, OnlyLast(s), ~EndsWith(s)
  PROVE  /\ OnlyLast(Append(s, item)) /\ (EndsWith(Append(s, item)) <=> item = End)
         /\ \A i \in 1..Len(s) : s[i] # End
         /\ Append(s, item) # <<>> /\ Len(Append(s, item)) = Len(s) + 1
         /\ Append(s, item)[Len(s) + 1] = item
         /\ \A i \in 1..Len(s) : Append(s, item)[i] = s[i]
<1> DEFINE new == Append(s, item)
<1>1. /\ Len(new) = Len(s) + 1 /\ new[Len(s) + 1] = item /\ new # <<>> /\ Len(s) \in Nat
      /\ \A i \in 1..Len(s) : new[i] = s[i]
  OBVIOUS
<1>2. \A i \in 1..Len(s) : s[i] # End
  BY <1>1 DEF OnlyLast, EndsWith
<1> HIDE DEF new
<1>3. \A i \in 1..Len(new) : i \in 1..Len(s) \/ i = Len(new)
  BY <1>1
<1>4. OnlyLast(new) /\ (EndsWith(new) <=> item = End)
  BY <1>1, <1>2, <1>3 DEF OnlyLast, EndsWith
<1> QED BY <1>1, <1>2, <1>4 DEF new

LEMMA TailMark ==
  ASSUME NEW S, NEW s \in Seq(S), s # <<>>, OnlyLast(s)
  PROVE  /\ OnlyLast(Tail(s))
         /\ s[1] = End => Tail(s) = <<>> /\ EndsWith(s)
         /\ s[1] # End => (EndsWith(Tail(s)) <=> EndsWith(s))
         /\ Len(Tail(s)) \in Nat
         /\ \A i \in 1..Len(Tail(s)) : i + 1 \in 1..Len(s) /\ i + 1 # 1 /\ Tail(s)[i] = s[i + 1]
<1> DEFINE t == Tail(s)
<1>1. /\ Len(s) \in Nat \ {0} /\ Len(t) = Len(s) - 1 /\ Len(t) \in Nat
      /\ \A i \in 1..Len(t) : i + 1 \in 1..Len(s) /\ i + 1 # 1 /\ t[i] = s[i + 1]
      /\ t = <<>> <=> Len(s) = 1
  <2>1. Len(s) \in Nat \ {0} /\ Len(t) = Len(s) - 1 /\ t \in Seq(S)
    OBVIOUS
  <2>2. \A i \in 1..Len(t) : t[i] = s[i + 1]
    BY <2>1
  <2> HIDE DEF t
  <2>3. t = <<>> <=> Len(t) = 0
    BY <2>1
  <2>4. \A i \in 1..Len(t) : i + 1 \in 1..Len(s) /\ i + 1 # 1
    BY <2>1
  <2> QED BY <2>1, <2>2, <2>3, <2>4
<1> HIDE DEF t
<1>2. OnlyLast(t)
  BY <1>1 DEF OnlyLast
<1>3. s[1] = End => Len(s) = 1 /\ EndsWith(s)
  BY <1>1 DEF OnlyLast, EndsWith
<1>4. s[1] # End => (EndsWith(t) <=> EndsWith(s))
  <2>1. CASE Len(s) = 1
    BY <1>1, <2>1 DEF EndsWith
  <2>2. CASE Len(s) # 1
    <3>1. Len(t) \in 1..Len(t) /\ Len(t) + 1 = Len(s) /\ t # <<>>
      BY <1>1, <2>2
    <3>2. t[Len(t)] = s[Len(s)]
      BY <1>1, <3>1
    <3> QED BY <3>1, <3>2 DEF EndsWith
  <2> QED BY <2>1, <2>2
<1> QED BY <1>1, <1>2, <1>3, <1>4 DEF t

\* Every queue is there for the threads that use it.
LEMMA QueuesThere ==
  ASSUME Inv
  PROVE  /\ pc["read"] # "none" => "read_queue" \in DOMAIN queue
         /\ pc["chunk"] # "none" => /\ "read_queue" \in DOMAIN queue
                                    /\ "chunk_queue" \in DOMAIN queue
         /\ pc["hash"] # "none" => /\ "chunk_queue" \in DOMAIN queue
                                   /\ "hash_queue" \in DOMAIN queue
         /\ pc["dedup"] # "none" => "hash_queue" \in DOMAIN queue
BY DEF Inv, StartInv

\* A thread's move from one label to another.
LEMMA Moves ==
  ASSUME Inv, NEW t \in Threads, NEW label \in Labels, pc' = [pc EXCEPT ![t] = label]
  PROVE  pc' \in [Threads -> Labels] /\ pc'[t] = label /\ \A u \in Threads \ {t} : pc'[u] = pc[u]
BY DEF Inv, PcInv

-------------------------------------------------------------------------------
\* The steps of the threads.

LEMMA InitKeeps == ASSUME Init PROVE Inv
<1>1. DOMAIN queue = {}
  BY DEF Init
<1>2. rq = <<>> /\ cq = <<>> /\ hq = <<>> /\ \A q : ~T(q)
  BY <1>1 DEF rq, cq, hq, Q, T
<1>3. /\ pc["main"] = "start_read" /\ pc["read"] = "none" /\ pc["chunk"] = "none"
      /\ pc["hash"] = "none" /\ pc["dedup"] = "none"
  BY DEF Init, Threads
<1>4. QueueInv
  BY <1>1 DEF QueueInv
<1>5. PcInv
  BY <1>3 DEF Init, PcInv, Labels, Threads
<1>6. StartInv
  BY <1>1, <1>3 DEF StartInv
<1>7. DataInv
  <2>1. file \in Files /\ pos = 0 /\ file.len \in Nat
    BY PipelineAssumption DEF Init
  <2>2. jcr = init_jcr /\ hand \in Passed /\ eof = FALSE /\ stored = FALSE
    BY DEF Init, Passed
  <2>3. pos \in 0..file.len
    BY <2>1
  <2> QED BY <2>1, <2>2, <2>3 DEF DataInv, init_jcr
<1>8. WindowInv
  <2>1. file.len \in Nat /\ BlockSize \in Nat /\ MaxChunk \in Nat
    BY PipelineAssumption DEF Init
  <2> QED BY <1>2, <1>3, <2>1 DEF Init, WindowInv
<1>9. ReadInv
  BY <1>2, <1>3 DEF Init, ReadInv, ReadDone, OnlyLast
<1>10. EndInv
  BY <1>2, <1>3 DEF EndInv, EndCut, Held, Past, OnlyLast, EndsWith
<1> QED BY <1>4, <1>5, <1>6, <1>7, <1>8, <1>9, <1>10 DEF Inv

LEMMA CreateEffect ==
  ASSUME QueueInv, NEW q \in Queues, q \notin DOMAIN queue, Create(q), file' = file
  PROVE  /\ QueueInv' /\ DOMAIN queue' = DOMAIN queue \cup {q}
         /\ \A x : Q(x)' = Q(x) /\ T(x)' = T(x)
<1>1. /\ DOMAIN queue' = DOMAIN queue \cup {q} /\ queue'[q] = New(QueueSize[q])
      /\ \A x \in DOMAIN queue : queue'[x] = queue[x]
  BY DEF Create
<1>2. \A x : QueueType(x)' = QueueType(x)
  BY DEF QueueType, Passed, NormalItem
<1>3. New(QueueSize[q]) \in QueueType(q) /\ Len(New(QueueSize[q]).queue) <= QueueSize[q]
  BY PipelineAssumption DEF New, QueueType
<1>4. QueueInv'
  BY <1>1, <1>2, <1>3 DEF QueueInv
<1>5. \A x : Q(x)' = Q(x) /\ T(x)' = T(x)
  BY <1>1 DEF Q, T, New
<1> QED BY <1>1, <1>4, <1>5

\* main makes the queue that a thread fills and starts the thread.
LEMMA StartEffect ==
  ASSUME Inv, StartPhases
  PROVE  /\ UNCHANGED <<file, pos, block_buf, buf_off, rest_size, eof, hand, file_recipe, stored, report>>
         /\ QueueInv' /\ (\A x : Q(x)' = Q(x) /\ T(x)' = T(x)) /\ StartInv' /\ PcInv'
         /\ \A u \in {"read", "chunk", "hash", "dedup"} :
              pc'[u] = pc[u] \/ (pc[u] = "none" /\ pc'[u] = "run")
         /\ pc["main"] \notin {"wait", "join", "end"} /\ pc'["main"] \notin {"join", "end"}
         /\ jcr' = jcr \/ jcr' = [jcr EXCEPT !.status = "RUNNING"]
<1>1. UNCHANGED <<file, pos, block_buf, buf_off, rest_size, eof, hand, file_recipe, stored, report>>
  BY DEF StartPhases, chunkVars
<1>2. QueueInv /\ pc \in [Threads -> Labels] /\ {"main", "read", "chunk", "hash", "dedup"} = Threads
  BY DEF Inv, PcInv, Threads
<1>3. PICK t \in Threads \ {"main"} : \E label \in Labels :
         /\ pc' = [pc EXCEPT !["main"] = label, ![t] = "run"]
         /\ \/ /\ t = "read" /\ pc["main"] = "start_read" /\ label = "start_chunk"
               /\ Create("read_queue")
            \/ /\ t = "chunk" /\ pc["main"] = "start_chunk" /\ label = "start_hash"
               /\ Create("chunk_queue")
            \/ /\ t = "hash" /\ pc["main"] = "start_hash" /\ label = "start_dedup"
               /\ Create("hash_queue")
            \/ /\ t = "dedup" /\ pc["main"] = "start_dedup" /\ label = "wait"
               /\ UNCHANGED queue
  BY DEF StartPhases, StartThread, Threads, Labels
<1>4. pc[t] = "none" /\ pc'[t] = "run" /\ \A u \in Threads \ {"main", t} : pc'[u] = pc[u]
  BY <1>2, <1>3 DEF Inv, StartInv
<1>5. QueueInv' /\ (\A x : Q(x)' = Q(x) /\ T(x)' = T(x)) /\ StartInv' /\ PcInv'
  <2>1. CASE t = "read"
    <3>1. pc["main"] = "start_read" /\ Create("read_queue") /\ pc'["main"] = "start_chunk"
      BY <1>2, <1>3, <2>1
    <3>2. "read_queue" \notin DOMAIN queue /\ "read_queue" \in Queues
      BY <3>1 DEF Inv, StartInv, Queues
    <3>3. /\ QueueInv' /\ DOMAIN queue' = DOMAIN queue \cup {"read_queue"}
          /\ \A x : Q(x)' = Q(x) /\ T(x)' = T(x)
      BY <1>1, <1>2, <3>1, <3>2, CreateEffect
    <3> QED BY <1>2, <1>3, <1>4, <2>1, <3>1, <3>3 DEF Inv, StartInv, PcInv, Labels
  <2>2. CASE t = "chunk"
    <3>1. pc["main"] = "start_chunk" /\ Create("chunk_queue") /\ pc'["main"] = "start_hash"
      BY <1>2, <1>3, <2>2
    <3>2. "chunk_queue" \notin DOMAIN queue /\ "chunk_queue" \in Queues
      BY <3>1 DEF Inv, StartInv, Queues
    <3>3. /\ QueueInv' /\ DOMAIN queue' = DOMAIN queue \cup {"chunk_queue"}
          /\ \A x : Q(x)' = Q(x) /\ T(x)' = T(x)
      BY <1>1, <1>2, <3>1, <3>2, CreateEffect
    <3> QED BY <1>2, <1>3, <1>4, <2>2, <3>1, <3>3 DEF Inv, StartInv, PcInv, Labels
  <2>3. CASE t = "hash"
    <3>1. pc["main"] = "start_hash" /\ Create("hash_queue") /\ pc'["main"] = "start_dedup"
      BY <1>2, <1>3, <2>3
    <3>2. "hash_queue" \notin DOMAIN queue /\ "hash_queue" \in Queues
      BY <3>1 DEF Inv, StartInv, Queues
    <3>3. /\ QueueInv' /\ DOMAIN queue' = DOMAIN queue \cup {"hash_queue"}
          /\ \A x : Q(x)' = Q(x) /\ T(x)' = T(x)
      BY <1>1, <1>2, <3>1, <3>2, CreateEffect
    <3> QED BY <1>2, <1>3, <1>4, <2>3, <3>1, <3>3 DEF Inv, StartInv, PcInv, Labels
  <2>4. CASE t = "dedup"
    <3>1. pc["main"] = "start_dedup" /\ UNCHANGED queue /\ pc'["main"] = "wait"
      BY <1>2, <1>3, <2>4
    <3>2. QueueInv' /\ \A x : Q(x)' = Q(x) /\ T(x)' = T(x)
      BY <1>1, <1>2, <3>1 DEF QueueInv, QueueType, Passed, NormalItem, Q, T
    <3> QED BY <1>2, <1>3, <1>4, <2>4, <3>1, <3>2 DEF Inv, StartInv, PcInv, Labels
  <2> QED BY <1>3, <2>1, <2>2, <2>3, <2>4
<1>6. \A u \in {"read", "chunk", "hash", "dedup"} :
        pc'[u] = pc[u] \/ (pc[u] = "none" /\ pc'[u] = "run")
  BY <1>2, <1>4
<1>7. pc["main"] \notin {"wait", "join", "end"} /\ pc'["main"] \notin {"join", "end"}
  BY <1>2, <1>3
<1>8. jcr' = jcr \/ jcr' = [jcr EXCEPT !.status = "RUNNING"]
  BY DEF StartPhases
<1> QED BY <1>1, <1>5, <1>6, <1>7, <1>8

LEMMA StartKeeps == ASSUME Inv, StartPhases PROVE Inv'
<1>1. UNCHANGED <<file, pos, block_buf, buf_off, rest_size, eof, hand, stored>>
  BY StartEffect
<1>2. QueueInv' /\ (\A x : Q(x)' = Q(x) /\ T(x)' = T(x)) /\ StartInv' /\ PcInv'
  BY StartEffect
<1>3. rq' = rq /\ cq' = cq /\ hq' = hq /\ \A q : T(q)' = T(q)
  BY <1>2 DEF rq, cq, hq
<1>4. DataInv'
  <2>1. jcr' = jcr \/ jcr' = [jcr EXCEPT !.status = "RUNNING"]
    BY StartEffect
  <2> QED BY <1>1, <2>1 DEF Inv, DataInv, Passed, NormalItem
<1>5. /\ \A u \in {"read", "chunk", "hash", "dedup"} :
            pc'[u] = pc[u] \/ (pc[u] = "none" /\ pc'[u] = "run")
  BY StartEffect
<1>6. WindowInv'
  BY <1>1, <1>3, <1>5 DEF Inv, WindowInv
<1>7. ReadInv'
  BY <1>1, <1>3, <1>5 DEF Inv, ReadInv, ReadDone, ChunkMet
<1>8. EndInv'
  <2>1. EndCut' <=> EndCut
    BY <1>1, <1>3, <1>5 DEF Inv, ReadInv, EndCut, ReadDone
  <2>2. (Held' <=> Held) /\ (Past' <=> Past)
    BY <1>1, <1>5 DEF Held, Past
  <2> QED BY <1>3, <1>5, <2>1, <2>2 DEF Inv, EndInv
<1> QED BY <1>2, <1>4, <1>6, <1>7, <1>8 DEF Inv

LEMMA StopKeeps == ASSUME Inv, StopPhases PROVE Inv'
<1>1. UNCHANGED <<file, queue, jcr, pos, block_buf, buf_off, rest_size, eof, hand, stored>>
  BY DEF StopPhases, chunkVars
<1>2. /\ pc' \in [Threads -> Labels] /\ pc["main"] \in {"wait", "join"}
      /\ pc'["main"] \in {"join", "end"}
      /\ \A u \in {"read", "chunk", "hash", "dedup"} : pc'[u] = pc[u]
  BY DEF StopPhases, Goto, Inv, PcInv, Threads, Labels
<1>3. rq' = rq /\ cq' = cq /\ hq' = hq /\ \A q : T(q)' = T(q)
  BY <1>1 DEF rq, cq, hq, Q, T
<1>4. QueueInv' /\ DataInv'
  BY <1>1 DEF Inv, QueueInv, QueueType, DataInv, Passed, NormalItem
<1>5. PcInv' /\ StartInv'
  BY <1>1, <1>2 DEF Inv, PcInv, StartInv
<1>6. WindowInv'
  BY <1>1, <1>2, <1>3 DEF Inv, WindowInv
<1>7. ReadInv'
  BY <1>1, <1>2, <1>3 DEF Inv, ReadInv, ReadDone, ChunkMet
<1>8. EndInv'
  BY <1>1, <1>2, <1>3 DEF Inv, EndInv, EndCut, Held, Past, ReadDone
<1> QED BY <1>4, <1>5, <1>6, <1>7, <1>8 DEF Inv


\* A block is the next units of the file, no more than BlockSize.
LEMMA BlockTyped ==
  ASSUME file \in Files, pos \in 0..file.len, pos < file.len
  PROVE  /\ Normal(Block) \in Passed /\ Len(Block) \in Nat /\ Len(Block) <= BlockSize
         /\ pos + Len(Block) \in 0..file.len
<1> DEFINE last == Smaller(pos + BlockSize, file.len)
<1>1. file.len \in Nat /\ BlockSize \in Nat \ {0} /\ pos \in Nat
  BY PipelineAssumption
<1>2. last \in Nat /\ last <= file.len /\ last <= pos + BlockSize /\ pos < last
  BY <1>1 DEF Smaller
<1>3. Block = [j \in 1..(last - (pos + 1) + 1) |-> (pos + 1) + j - 1]
  BY DEF Block, Units
<1> HIDE DEF last
<1> DEFINE n == last - (pos + 1) + 1
<1>4. n \in Nat /\ n <= BlockSize /\ pos + n <= file.len
  BY <1>1, <1>2
<1>5. \A j \in 1..n : (pos + 1) + j - 1 \in 1..file.len
  BY <1>1, <1>4
<1> HIDE DEF n
<1>6. Block = [j \in 1..n |-> (pos + 1) + j - 1]
  BY <1>3 DEF n
<1>7. Block \in Seq(1..file.len) /\ Len(Block) = n
  BY <1>4, <1>5, <1>6
<1>8. Normal(Block) \in NormalItem
  BY <1>7 DEF Normal, Chunk, NormalItem
<1> QED BY <1>1, <1>4, <1>7, <1>8 DEF Passed

\* A step of read: START first, END last.
LEMMA ReadKeeps == ASSUME Inv, Read PROVE Inv'
<1>1. UNCHANGED <<file, jcr, block_buf, buf_off, rest_size, eof, hand, stored>>
  BY DEF Read, chunkVars
<1>2. PICK item, label :
        /\ Push("read", item, label)
        /\ \/ /\ pc["read"] = "run" /\ item = Start /\ label = "blocks" /\ pos' = pos
           \/ /\ pc["read"] = "blocks" /\ item = Normal(Block) /\ label = "blocks"
              /\ pos < file.len /\ pos' = pos + Len(Block)
           \/ /\ pc["read"] = "blocks" /\ item = End /\ label = "term" /\ pos' = pos
  BY DEF Read
<1>3. /\ item \in Passed /\ Len(item.data) <= BlockSize /\ pos' \in 0..file.len
      /\ item = End <=> label = "term"
      /\ item = Start <=> pc["read"] = "run"
  <2>1. BlockSize \in Nat /\ Len(<<>>) = 0
    BY PipelineAssumption
  <2>2. Start \in Passed /\ End \in Passed
    BY DEF Passed
  <2>3. CASE item = Normal(Block) /\ pos < file.len /\ pc["read"] = "blocks" /\ label = "blocks"
              /\ pos' = pos + Len(Block)
    <3>1. item \in Passed /\ Len(Block) <= BlockSize /\ pos' \in 0..file.len
      BY <2>3, BlockTyped DEF Inv, DataInv
    <3>2. item.data = Block /\ item.flag = "NORMAL"
      BY <2>3 DEF Normal, Chunk
    <3> QED BY <2>3, <3>1, <3>2, Marks
  <2> QED BY <1>2, <2>1, <2>2, <2>3, Marks DEF Inv, DataInv
<1>4. pc["read"] \in {"run", "blocks"} /\ label \in {"blocks", "term"}
  BY <1>2
<1>5. "read_queue" \in DOMAIN queue /\ ~T("read_queue") /\ QueueInv
  BY <1>4, QueuesThere DEF Inv, ReadInv
<1>6. /\ QueueInv' /\ DOMAIN queue' = DOMAIN queue
      /\ rq' = Append(rq, item) /\ cq' = cq /\ hq' = hq /\ \A q : T(q)' = T(q)
      /\ pc' = [pc EXCEPT !["read"] = label]
  <2>1. /\ QueueInv' /\ DOMAIN queue' = DOMAIN queue
        /\ Q("read_queue")' = Append(Q("read_queue"), item) /\ T("read_queue")' = T("read_queue")
        /\ \A x : x # "read_queue" => Q(x)' = Q(x) /\ T(x)' = T(x)
        /\ pc' = [pc EXCEPT !["read"] = label]
    BY <1>1, <1>2, <1>3, <1>5, QueueNames, PushEffect DEF Threads
  <2>2. \A q : T(q)' = T(q)
    BY <2>1
  <2> QED BY <2>1, <2>2 DEF rq, cq, hq
<1>7. /\ pc' \in [Threads -> Labels] /\ pc'["read"] = label
      /\ pc'["main"] = pc["main"] /\ pc'["chunk"] = pc["chunk"]
      /\ pc'["hash"] = pc["hash"] /\ pc'["dedup"] = pc["dedup"]
  <2>1. label \in Labels
    BY <1>4 DEF Labels
  <2> QED BY <1>6, <2>1, Moves DEF Threads
<1>8. PcInv' /\ StartInv'
  BY <1>4, <1>6, <1>7 DEF Inv, PcInv, StartInv
<1>9. DataInv'
  BY <1>1, <1>3 DEF Inv, DataInv, Passed, NormalItem
<1>10. rq \in Seq(Passed) /\ OnlyLast(rq) /\ ~EndsWith(rq)
  <2>1. rq \in Seq(Passed) /\ OnlyLast(rq)
    BY QueuesTyped DEF Inv, ReadInv
  <2>2. ~EndsWith(rq)
    BY <1>4, <2>1 DEF Inv, ReadInv, ReadDone, EndsWith
  <2> QED BY <2>1, <2>2
<1>11. /\ OnlyLast(rq') /\ (EndsWith(rq') <=> item = End) /\ rq' # <<>>
       /\ Len(rq') = Len(rq) + 1 /\ rq'[Len(rq) + 1] = item /\ Len(rq) \in Nat
       /\ \A i \in 1..Len(rq) : rq'[i] = rq[i] /\ rq[i] # End
  BY <1>3, <1>6, <1>10, AppendMark
<1>12. \A i \in 1..Len(rq') : i \in 1..Len(rq) \/ i = Len(rq) + 1
  BY <1>11
<1>13. WindowInv'
  <2>1. \A i \in 1..Len(rq') : Len(rq'[i].data) <= BlockSize
    BY <1>3, <1>11, <1>12 DEF Inv, WindowInv
  <2> QED BY <1>1, <1>7, <2>1 DEF Inv, WindowInv
<1>14. ReadDone' <=> item = End
  BY <1>3, <1>4, <1>7 DEF ReadDone
<1>15. ReadInv'
  <2>1. ~T("read_queue")'
    BY <1>5, <1>6
  <2>2. pc'["read"] \notin {"none", "run"}
    BY <1>4, <1>7
  <2>3. \A i \in 1..Len(rq') :
          /\ rq'[i] = End => ReadDone'
          /\ rq'[i] = Start => i = 1 /\ pc'["chunk"] \in {"none", "run"}
    <3> TAKE i \in 1..Len(rq')
    <3>1. CASE i \in 1..Len(rq)
      BY <1>7, <1>11, <3>1 DEF Inv, ReadInv
    <3>2. CASE i = Len(rq) + 1
      <4>1. rq'[i] = item
        BY <1>11, <3>2
      <4>2. item = Start => rq = <<>> /\ pc["chunk"] \in {"none", "run"}
        BY <1>3 DEF Inv, ReadInv
      <4> QED BY <1>7, <1>14, <3>2, <4>1, <4>2
    <3> QED BY <1>12, <3>1, <3>2
  <2>4. ~ReadDone /\ pc["chunk"] \notin {"term", "end"} /\ ~(pc["chunk"] = "loop" /\ eof)
    BY <1>4 DEF Inv, ReadInv, ReadDone
  <2>5. pc["chunk"] \in {"none", "run"} => rq'[1] = Start
    <3>1. CASE rq = <<>>
      <4>1. pc["chunk"] \in {"none", "run"} => pc["read"] = "run"
        BY <1>4, <2>4, <3>1 DEF Inv, ReadInv
      <4>2. rq'[1] = item
        BY <1>11, <3>1
      <4> QED BY <1>3, <4>1, <4>2
    <3>2. CASE rq # <<>>
      <4>1. pc["chunk"] \in {"none", "run"} => rq[1] = Start
        BY <3>2 DEF Inv, ReadInv
      <4>2. 1 \in 1..Len(rq)
        BY <1>10, <3>2
      <4> QED BY <1>11, <4>1, <4>2
    <3> QED BY <3>1, <3>2
  <2>6. eof' => pc'["chunk"] = "loop"
    BY <1>1, <1>7 DEF Inv, ReadInv
  <2> QED BY <1>1, <1>7, <1>11, <1>14, <2>1, <2>2, <2>3, <2>4, <2>5, <2>6 DEF ReadInv
<1>16. EndInv'
  <2>1. ~EndCut
    BY <1>4 DEF Inv, ReadInv, EndCut, ReadDone
  <2>2. ~EndCut'
    BY <1>7, <1>11, <2>1 DEF EndCut
  <2>3. (Held' <=> Held) /\ (Past' <=> Past)
    BY <1>1, <1>7 DEF Held, Past
  <2> QED BY <1>6, <1>7, <2>1, <2>2, <2>3 DEF Inv, EndInv
<1> QED BY <1>6, <1>8, <1>9, <1>13, <1>15, <1>16 DEF Inv

\* The queue a thread has filled is terminated.
LEMMA TermEffect ==
  ASSUME Inv, NEW t \in {"read", "chunk", "hash"}, TermQueue(t)
  PROVE  /\ UNCHANGED <<file, jcr, pos, block_buf, buf_off, rest_size, eof, hand, file_recipe, stored, report>>
         /\ QueueInv' /\ DOMAIN queue' = DOMAIN queue
         /\ rq' = rq /\ cq' = cq /\ hq' = hq
         /\ pc' \in [Threads -> Labels]
         /\ \A u \in {"main", "read", "chunk", "hash", "dedup"} :
              pc'[u] = pc[u] \/ (u = t /\ pc[u] = "term" /\ pc'[u] = "end")
         /\ pc'[t] = "end"
         /\ T("read_queue")' => T("read_queue") \/ t = "read"
         /\ T("chunk_queue")' => T("chunk_queue") \/ t = "chunk"
         /\ T("hash_queue")' => T("hash_queue") \/ t = "hash"
<1> DEFINE q == Out[t]
<1>1. /\ pc[t] = "term" /\ pc' = [pc EXCEPT ![t] = "end"]
      /\ queue' = [queue EXCEPT ![q] = Terminated(@)]
      /\ UNCHANGED <<file, jcr, pos, block_buf, buf_off, rest_size, eof, hand, file_recipe, stored, report>>
  BY DEF TermQueue, Goto, chunkVars
<1>2. q \in DOMAIN queue /\ QueueInv
  BY <1>1, QueueNames, QueuesThere DEF Inv
<1> DEFINE s == Terminated(queue[q])
<1>3. queue[q] \in QueueType(q) /\ Len(queue[q].queue) <= QueueSize[q]
  BY <1>2 DEF QueueInv
<1>4. s \in QueueType(q) /\ s.queue = queue[q].queue /\ s.term = TRUE
  BY <1>3 DEF Terminated, QueueType
<1>5. /\ QueueInv' /\ DOMAIN queue' = DOMAIN queue
      /\ Q(q)' = s.queue
      /\ \A x : x # q => Q(x)' = Q(x) /\ T(x)' = T(x)
  <2> HIDE DEF s, q
  <2>1. queue' = [queue EXCEPT ![q] = s]
    BY <1>1 DEF s
  <2> QED BY <1>1, <1>2, <1>3, <1>4, <2>1, UpdateEffect
<1>6. Q(q) = s.queue
  BY <1>2, <1>4 DEF Q
<1>7. rq' = rq /\ cq' = cq /\ hq' = hq
  <2> HIDE DEF s, q
  <2>1. \A x : Q(x)' = Q(x)
    BY <1>5, <1>6
  <2> QED BY <2>1 DEF rq, cq, hq
<1>8. t \in Threads /\ "end" \in Labels
  BY DEF Threads, Labels
<1>9. /\ pc' \in [Threads -> Labels] /\ pc'[t] = "end"
      /\ \A u \in Threads \ {t} : pc'[u] = pc[u]
  BY <1>1, <1>8, Moves
<1>10. \A u \in {"main", "read", "chunk", "hash", "dedup"} :
         pc'[u] = pc[u] \/ (u = t /\ pc[u] = "term" /\ pc'[u] = "end")
  BY <1>1, <1>9 DEF Threads
<1>11. /\ T("read_queue")' => T("read_queue") \/ t = "read"
       /\ T("chunk_queue")' => T("chunk_queue") \/ t = "chunk"
       /\ T("hash_queue")' => T("hash_queue") \/ t = "hash"
  BY <1>5, QueueNames
<1> HIDE DEF q, s
<1> QED BY <1>1, <1>5, <1>7, <1>9, <1>10, <1>11

LEMMA TermKeeps ==
  ASSUME Inv, NEW t \in {"read", "chunk", "hash"}, TermQueue(t)
  PROVE  Inv'
<1>1. /\ UNCHANGED <<file, jcr, pos, block_buf, buf_off, rest_size, eof, hand, stored>>
      /\ QueueInv' /\ DOMAIN queue' = DOMAIN queue
      /\ rq' = rq /\ cq' = cq /\ hq' = hq
  BY TermEffect
<1>2. /\ pc' \in [Threads -> Labels] /\ pc'[t] = "end"
      /\ \A u \in {"main", "read", "chunk", "hash", "dedup"} :
           pc'[u] = pc[u] \/ (u = t /\ pc[u] = "term" /\ pc'[u] = "end")
  BY TermEffect
<1>3. /\ T("read_queue")' => T("read_queue") \/ t = "read"
      /\ T("chunk_queue")' => T("chunk_queue") \/ t = "chunk"
      /\ T("hash_queue")' => T("hash_queue") \/ t = "hash"
  BY TermEffect
<1>4. PcInv' /\ StartInv'
  BY <1>1, <1>2 DEF Inv, PcInv, StartInv
<1>5. DataInv'
  BY <1>1 DEF Inv, DataInv, Passed, NormalItem
<1>6. WindowInv'
  BY <1>1, <1>2 DEF Inv, WindowInv
<1>7. (ReadDone' <=> ReadDone) /\ (EndCut' <=> EndCut)
  BY <1>1, <1>2 DEF ReadDone, EndCut
<1>8. ReadInv'
  BY <1>1, <1>2, <1>3, <1>7 DEF Inv, ReadInv, ChunkMet
<1>9. (Held' <=> Held) /\ (Past' <=> Past)
  BY <1>1, <1>2 DEF Held, Past
<1>10. EndInv'
  BY <1>1, <1>2, <1>3, <1>7, <1>9 DEF Inv, EndInv
<1> QED BY <1>1, <1>4, <1>5, <1>6, <1>8, <1>10 DEF Inv

\* What a pop of chunk gives: the first of read_queue, or NULL once all is read.
LEMMA ChunkPops ==
  ASSUME Inv, pc["chunk"] # "none", Pop("chunk"), file' = file
  PROVE  /\ QueueInv' /\ DOMAIN queue' = DOMAIN queue
         /\ cq' = cq /\ hq' = hq /\ \A q : T(q)' = T(q)
         /\ \/ /\ rq # <<>> /\ rq \in Seq(Passed) /\ OnlyLast(rq)
               /\ Item("chunk") = rq[1] /\ rq[1] \in Passed /\ rq' = Tail(rq)
               /\ 1 \in 1..Len(rq)
            \/ rq = <<>> /\ rq' = <<>> /\ Item("chunk") = NULL /\ ReadDone
<1>1. "read_queue" \in DOMAIN queue /\ QueueInv
  BY QueuesThere DEF Inv
<1>2. /\ QueueInv' /\ DOMAIN queue' = DOMAIN queue /\ T("read_queue")' = T("read_queue")
      /\ \A x : x # "read_queue" => Q(x)' = Q(x) /\ T(x)' = T(x)
      /\ \/ /\ rq # <<>> /\ rq \in Seq(Passed)
            /\ Item("chunk") = rq[1] /\ Item("chunk") \in Passed /\ rq' = Tail(rq)
         \/ rq = <<>> /\ T("read_queue") /\ Item("chunk") = NULL /\ rq' = <<>>
  BY <1>1, QueueNames, PopEffect DEF rq
<1>3. cq' = cq /\ hq' = hq /\ \A q : T(q)' = T(q)
  BY <1>2 DEF cq, hq
<1>4. OnlyLast(rq) /\ (T("read_queue") => ReadDone)
  BY DEF Inv, ReadInv, ReadDone
<1>5. rq # <<>> /\ rq \in Seq(Passed) => 1 \in 1..Len(rq)
  OBVIOUS
<1> QED BY <1>2, <1>3, <1>4, <1>5

\* chunk waits for FILE_START, and finds it or the end of the queue.
LEMMA ChunkStartKeeps == ASSUME Inv, ChunkStart PROVE Inv'
<1>1. /\ pc["chunk"] = "run" /\ Pop("chunk")
      /\ UNCHANGED <<file, jcr, pos, block_buf, buf_off, rest_size, eof, hand, stored>>
      /\ pc' = [pc EXCEPT !["chunk"] =
                  IF Item("chunk") = NULL THEN "term"
                  ELSE IF Item("chunk").flag = "FILE_START" THEN "forward" ELSE "abort"]
  BY DEF ChunkStart, chunkVars, Goto
<1>2. /\ QueueInv' /\ DOMAIN queue' = DOMAIN queue
      /\ cq' = cq /\ hq' = hq /\ \A q : T(q)' = T(q)
  BY <1>1, ChunkPops
<1>3. DataInv'
  BY <1>1 DEF Inv, DataInv, Passed, NormalItem
<1>4. \A label \in Labels : pc' = [pc EXCEPT !["chunk"] = label] =>
        /\ pc' \in [Threads -> Labels] /\ pc'["chunk"] = label
        /\ pc'["main"] = pc["main"] /\ pc'["read"] = pc["read"]
        /\ pc'["hash"] = pc["hash"] /\ pc'["dedup"] = pc["dedup"]
  BY Moves DEF Threads
<1>5. CASE rq = <<>>
  <2>1. rq' = rq /\ Item("chunk") = NULL /\ ReadDone
    BY <1>1, <1>5, ChunkPops
  <2>2. /\ pc' \in [Threads -> Labels] /\ pc'["chunk"] = "term"
        /\ pc'["main"] = pc["main"] /\ pc'["read"] = pc["read"]
        /\ pc'["hash"] = pc["hash"] /\ pc'["dedup"] = pc["dedup"]
    BY <1>1, <1>4, <2>1 DEF Labels
  <2>3. PcInv' /\ StartInv'
    BY <1>1, <1>2, <2>2 DEF Inv, PcInv, StartInv
  <2>4. WindowInv'
    BY <1>1, <2>1, <2>2 DEF Inv, WindowInv
  <2>5. EndCut /\ EndCut' /\ ReadDone'
    BY <1>1, <1>5, <2>1, <2>2 DEF EndCut, ReadDone
  <2>6. ~eof
    BY <1>1 DEF Inv, ReadInv
  <2>7. ReadInv'
    BY <1>1, <1>2, <1>5, <2>1, <2>2, <2>5, <2>6 DEF Inv, ReadInv, ReadDone, ChunkMet
  <2>8. (Held' <=> Held) /\ (Past' <=> Past)
    BY <1>1, <2>2 DEF Held, Past
  <2>9. EndInv'
    BY <1>1, <1>2, <2>2, <2>5, <2>8 DEF Inv, EndInv
  <2> QED BY <1>2, <1>3, <2>3, <2>4, <2>7, <2>9 DEF Inv
<1>6. CASE rq # <<>>
  <2>1. /\ rq \in Seq(Passed) /\ OnlyLast(rq) /\ Item("chunk") = rq[1] /\ rq' = Tail(rq)
        /\ 1 \in 1..Len(rq)
    BY <1>1, <1>6, ChunkPops
  <2>2. rq[1] = Start
    BY <1>1, <1>6 DEF Inv, ReadInv
  <2>3. Item("chunk") # NULL /\ Item("chunk").flag = "FILE_START" /\ rq[1] # End
    BY <2>1, <2>2, Marks
  <2>4. /\ pc' \in [Threads -> Labels] /\ pc'["chunk"] = "forward"
        /\ pc'["main"] = pc["main"] /\ pc'["read"] = pc["read"]
        /\ pc'["hash"] = pc["hash"] /\ pc'["dedup"] = pc["dedup"]
    BY <1>1, <1>4, <2>3 DEF Labels
  <2>5. PcInv' /\ StartInv'
    BY <1>1, <1>2, <2>4 DEF Inv, PcInv, StartInv
  <2>6. /\ OnlyLast(rq') /\ (EndsWith(rq') <=> EndsWith(rq))
        /\ \A j \in 1..Len(rq') : j + 1 \in 1..Len(rq) /\ j + 1 # 1 /\ rq'[j] = rq[j + 1]
    BY <1>6, <2>1, <2>3, TailMark
  <2>7. WindowInv'
    BY <1>1, <2>4, <2>6 DEF Inv, WindowInv
  <2>8. ~EndCut /\ ~EndCut' /\ (ReadDone' <=> ReadDone) /\ ~eof
    BY <1>1, <1>6, <2>4 DEF Inv, ReadInv, EndCut, ReadDone
  <2>9. ReadInv'
    <3>1. pc["read"] \notin {"none", "run"}
      BY <1>6 DEF Inv, ReadInv
    <3>2. ReadDone' => EndsWith(rq')
      BY <1>6, <2>6, <2>8 DEF Inv, ReadInv
    <3>3. \A j \in 1..Len(rq') : (rq'[j] = End => ReadDone') /\ rq'[j] # Start
      BY <2>6, <2>8 DEF Inv, ReadInv
    <3> QED BY <1>1, <1>2, <2>4, <2>6, <2>8, <3>1, <3>2, <3>3 DEF Inv, ReadInv
  <2>10. (Held' <=> Held) /\ (Past' <=> Past)
    BY <1>1, <2>4 DEF Held, Past
  <2>11. EndInv'
    <3>1. pc["hash"] \notin {"term", "end"} /\ ~T("chunk_queue")
      BY <1>1 DEF Inv, EndInv
    <3> QED BY <1>2, <2>4, <2>8, <2>10, <3>1 DEF Inv, EndInv
  <2> QED BY <1>2, <1>3, <2>5, <2>7, <2>9, <2>11 DEF Inv
<1> QED BY <1>5, <1>6

\* A block goes behind the rest of the last ones: there is room for it.
LEMMA RefilledFits ==
  ASSUME Inv, rest_size < MaxChunk, NEW data \in Seq(1..file.len), Len(data) <= BlockSize
  PROVE  /\ Refilled(data) \in [1..(BlockSize + MaxChunk) -> 0..file.len]
         /\ rest_size + Len(data) \in Nat
         /\ 0 + (rest_size + Len(data)) <= BlockSize + MaxChunk
         /\ \A i \in 1..(rest_size + Len(data)) : Refilled(data)[0 + i] # 0
<1> DEFINE room == BlockSize + MaxChunk
<1> DEFINE moved == Moved(block_buf, buf_off, rest_size)
<1> DEFINE new == Refilled(data)
<1>1. /\ BlockSize \in Nat /\ MaxChunk \in Nat /\ file.len \in Nat /\ Len(data) \in Nat
      /\ rest_size \in Nat /\ buf_off \in Nat /\ buf_off + rest_size <= room
      /\ block_buf \in [1..room -> 0..file.len]
      /\ \A i \in 1..rest_size : block_buf[buf_off + i] # 0
  BY PipelineAssumption DEF Inv, WindowInv, DataInv
<1> HIDE DEF room
<1>2. moved = [i \in 1..room |-> IF i <= rest_size THEN block_buf[buf_off + i] ELSE block_buf[i]]
  BY <1>1 DEF Moved
<1>3. \A i \in 1..room : i <= rest_size => i \in 1..rest_size /\ buf_off + i \in 1..room
  BY <1>1 DEF room
<1>4. \A i \in 1..room : moved[i] \in 0..file.len /\ (i <= rest_size => moved[i] # 0)
  BY <1>1, <1>2, <1>3
<1>5. DOMAIN moved = 1..room
  BY <1>2
<1> HIDE DEF moved
<1>6. new = [i \in 1..room |->
               IF i - rest_size \in DOMAIN data THEN data[i - rest_size] ELSE moved[i]]
  BY <1>5 DEF Refilled, Copied, moved
<1> HIDE DEF new
<1>7. \A j \in DOMAIN data : data[j] \in 0..file.len /\ data[j] # 0
  BY <1>1
<1>8. \A i \in 1..room : new[i] \in 0..file.len
  BY <1>4, <1>6, <1>7
<1>9. new \in [1..room -> 0..file.len]
  BY <1>6, <1>8
<1>10. rest_size + Len(data) \in Nat /\ 0 + (rest_size + Len(data)) <= room
  BY <1>1 DEF room
<1>11. ASSUME NEW i \in 1..(rest_size + Len(data)) PROVE new[0 + i] # 0
  <2>1. i \in 1..room /\ 0 + i = i
    BY <1>1, <1>10 DEF room
  <2>2. ~(i <= rest_size) => i - rest_size \in DOMAIN data
    BY <1>1
  <2> QED BY <1>4, <1>6, <1>7, <2>1, <2>2
<1> QED BY <1>9, <1>10, <1>11 DEF new, room

\* chunk takes another block, or learns that there is none.
LEMMA ChunkFillKeeps == ASSUME Inv, ChunkFill PROVE Inv'
<1> DEFINE c == Item("chunk")
<1>1. /\ pc["chunk"] = "first" \/ (pc["chunk"] = "loop" /\ Filling)
      /\ Pop("chunk")
      /\ UNCHANGED <<file, jcr, pos, hand, stored>>
      /\ pc' = [pc EXCEPT !["chunk"] = IF c = NULL THEN "abort" ELSE "loop"]
      /\ IF c \in {NULL, End}
         THEN eof' = (eof \/ c = End) /\ UNCHANGED <<block_buf, buf_off, rest_size>>
         ELSE /\ block_buf' = Refilled(c.data)
              /\ buf_off' = 0 /\ rest_size' = rest_size + Len(c.data)
              /\ UNCHANGED eof
  BY DEF ChunkFill, Goto
<1>2. /\ QueueInv' /\ DOMAIN queue' = DOMAIN queue
      /\ cq' = cq /\ hq' = hq /\ \A q : T(q)' = T(q)
  BY <1>1, ChunkPops
<1>3. ~eof /\ rest_size < MaxChunk
  <2>1. CASE pc["chunk"] = "first"
    <3>1. ~eof /\ rest_size = 0 /\ MaxChunk \in Nat \ {0}
      BY <2>1, PipelineAssumption DEF Inv, ReadInv, WindowInv
    <3> QED BY <3>1
  <2> QED BY <1>1, <2>1 DEF Filling
<1>4. ~ChunkMet
  BY <1>1, <1>3 DEF ChunkMet
<1>5. /\ rq # <<>> /\ rq \in Seq(Passed) /\ OnlyLast(rq) /\ c = rq[1] /\ rq[1] \in Passed
      /\ rq' = Tail(rq) /\ 1 \in 1..Len(rq)
  <2>1. ReadDone => rq # <<>>
    BY <1>4 DEF Inv, ReadInv, EndsWith
  <2> QED BY <1>1, <2>1, ChunkPops
<1>6. c # Start /\ c # NULL
  <2>1. rq[1] # Start
    BY <1>1, <1>5 DEF Inv, ReadInv
  <2>2. NULL \notin Passed
    BY DEF NULL, Passed, Start, End, Chunk, NormalItem
  <2> QED BY <1>5, <2>1, <2>2
<1>7. /\ pc' \in [Threads -> Labels] /\ pc'["chunk"] = "loop"
      /\ pc'["main"] = pc["main"] /\ pc'["read"] = pc["read"]
      /\ pc'["hash"] = pc["hash"] /\ pc'["dedup"] = pc["dedup"]
  <2>1. pc' = [pc EXCEPT !["chunk"] = "loop"]
    BY <1>1, <1>6
  <2>2. "chunk" \in Threads /\ "loop" \in Labels
    BY DEF Threads, Labels
  <2>3. /\ pc' \in [Threads -> Labels] /\ pc'["chunk"] = "loop"
        /\ \A u \in Threads \ {"chunk"} : pc'[u] = pc[u]
    BY <2>1, <2>2, Moves
  <2> QED BY <2>3 DEF Threads
<1>8. PcInv' /\ StartInv'
  BY <1>1, <1>2, <1>7 DEF Inv, PcInv, StartInv
<1>9. eof' \in BOOLEAN /\ (eof' <=> c = End)
  <2>1. eof = FALSE
    BY <1>3 DEF Inv, DataInv
  <2>2. IF c = End THEN eof' = (eof \/ c = End) ELSE eof' = eof
    BY <1>1, <1>6
  <2> HIDE DEF c
  <2> QED BY <2>1, <2>2
<1>10. DataInv'
  BY <1>1, <1>9 DEF Inv, DataInv, Passed, NormalItem
<1>11. /\ OnlyLast(rq') /\ (c = End => rq' = <<>> /\ EndsWith(rq))
       /\ c # End => (EndsWith(rq') <=> EndsWith(rq))
       /\ \A j \in 1..Len(rq') : j + 1 \in 1..Len(rq) /\ j + 1 # 1 /\ rq'[j] = rq[j + 1]
  BY <1>5, TailMark
<1>12. WindowInv'
  <2>1. \A j \in 1..Len(rq') : Len(rq'[j].data) <= BlockSize
    BY <1>11 DEF Inv, WindowInv
  <2>2. CASE c = End
    <3>1. UNCHANGED <<block_buf, buf_off, rest_size>>
      BY <1>1, <2>2
    <3> QED BY <1>1, <1>7, <2>1, <3>1 DEF Inv, WindowInv
  <2>3. CASE c # End
    <3>1. c \in NormalItem /\ Len(c.data) <= BlockSize
      BY <1>5, <1>6, <2>3 DEF Passed, Inv, WindowInv
    <3>2. c.data \in Seq(1..file.len)
      BY <3>1 DEF NormalItem
    <3>3. block_buf' = Refilled(c.data) /\ buf_off' = 0 /\ rest_size' = rest_size + Len(c.data)
      BY <1>1, <1>6, <2>3
    <3> HIDE DEF c
    <3>4. /\ Refilled(c.data) \in [1..(BlockSize + MaxChunk) -> 0..file.len]
          /\ rest_size + Len(c.data) \in Nat
          /\ 0 + (rest_size + Len(c.data)) <= BlockSize + MaxChunk
          /\ \A i \in 1..(rest_size + Len(c.data)) : Refilled(c.data)[0 + i] # 0
      BY <1>3, <3>1, <3>2, RefilledFits
    <3> QED BY <1>1, <1>7, <2>1, <3>3, <3>4 DEF WindowInv
  <2> QED BY <2>2, <2>3
<1>13. ReadDone' <=> ReadDone
  BY <1>7 DEF ReadDone
<1>14. ReadInv'
  <2>1. pc["read"] \notin {"none", "run"}
    BY <1>1 DEF Inv, ReadInv
  <2>2. c = End => ReadDone
    BY <1>5 DEF Inv, ReadInv
  <2>3. ReadDone => EndsWith(rq)
    BY <1>5 DEF Inv, ReadInv
  <2>4. \A j \in 1..Len(rq') : (rq'[j] = End => ReadDone') /\ rq'[j] # Start
    BY <1>1, <1>11, <1>13 DEF Inv, ReadInv
  <2>5. ReadDone' => EndsWith(rq') \/ (rq' = <<>> /\ ChunkMet')
    BY <1>7, <1>9, <1>11, <1>13, <2>3 DEF ChunkMet
  <2>6. T("read_queue")' => pc'["read"] = "end"
    BY <1>2, <1>7 DEF Inv, ReadInv
  <2> HIDE DEF c
  <2> QED BY <1>7, <1>9, <1>11, <1>13, <2>1, <2>2, <2>4, <2>5, <2>6 DEF ReadInv
<1>15. EndInv'
  <2>1. ~EndCut /\ ~EndCut'
    BY <1>1, <1>7 DEF EndCut
  <2>2. (Held' <=> Held) /\ (Past' <=> Past)
    BY <1>1, <1>7 DEF Held, Past
  <2>3. pc["hash"] \notin {"term", "end"} /\ ~T("chunk_queue")
    BY <1>1 DEF Inv, EndInv
  <2> QED BY <1>2, <1>7, <2>1, <2>2, <2>3 DEF Inv, EndInv
<1> QED BY <1>2, <1>8, <1>10, <1>12, <1>14, <1>15 DEF Inv


\* A step of chunk that hands something on: what is left of the invariant.
LEMMA ChunkHandsOn ==
  ASSUME Inv, NEW item \in Passed, NEW label \in {"first", "loop", "run"},
         pc["chunk"] \in {"forward", "loop"}, ~(pc["chunk"] = "loop" /\ Filling),
         Push("chunk", item, label),
         item = End <=> label = "run",
         label = "run" => ReadDone /\ rq = <<>>,
         pc["chunk"] = "forward" <=> label = "first",
         eof' = IF label = "run" THEN FALSE ELSE eof,
         UNCHANGED <<file, jcr, pos, hand, stored>>
  PROVE  /\ QueueInv' /\ PcInv' /\ StartInv' /\ DataInv' /\ ReadInv' /\ EndInv'
         /\ rq' = rq /\ pc'["chunk"] = label
<1>1. "chunk_queue" \in DOMAIN queue /\ ~T("chunk_queue") /\ QueueInv
  BY QueuesThere DEF Inv, EndInv
<1>2. /\ QueueInv' /\ DOMAIN queue' = DOMAIN queue
      /\ cq' = Append(cq, item) /\ rq' = rq /\ hq' = hq /\ \A q : T(q)' = T(q)
      /\ pc' = [pc EXCEPT !["chunk"] = label]
  <2>1. /\ QueueInv' /\ DOMAIN queue' = DOMAIN queue
        /\ Q("chunk_queue")' = Append(Q("chunk_queue"), item)
        /\ T("chunk_queue")' = T("chunk_queue")
        /\ \A x : x # "chunk_queue" => Q(x)' = Q(x) /\ T(x)' = T(x)
        /\ pc' = [pc EXCEPT !["chunk"] = label]
    BY <1>1, QueueNames, PushEffect DEF Threads
  <2>2. \A q : T(q)' = T(q)
    BY <2>1
  <2> QED BY <2>1, <2>2 DEF rq, cq, hq
<1>3. /\ pc' \in [Threads -> Labels] /\ pc'["chunk"] = label
      /\ pc'["main"] = pc["main"] /\ pc'["read"] = pc["read"]
      /\ pc'["hash"] = pc["hash"] /\ pc'["dedup"] = pc["dedup"]
  <2>1. label \in Labels
    BY DEF Labels
  <2> QED BY <1>2, <2>1, Moves DEF Threads
<1>4. PcInv' /\ StartInv'
  BY <1>2, <1>3 DEF Inv, PcInv, StartInv
<1>5. DataInv'
  <2>1. eof' \in BOOLEAN
    BY DEF Inv, DataInv
  <2> QED BY <2>1 DEF Inv, DataInv, Passed, NormalItem
<1>6. ReadDone' <=> ReadDone
  BY <1>3 DEF ReadDone
<1>7. ReadInv'
  <2>1. pc["read"] \notin {"none", "run"} /\ \A i \in 1..Len(rq) : rq[i] # Start
    BY DEF Inv, ReadInv
  <2>2. ChunkMet => ChunkMet'
    BY <1>3 DEF ChunkMet
  <2>3. eof' => pc'["chunk"] = "loop"
    BY <1>3 DEF Inv, ReadInv
  <2>4. pc'["chunk"] \in {"term", "end"} \/ (pc'["chunk"] = "loop" /\ eof') => ReadDone /\ rq = <<>>
    BY <1>3 DEF Inv, ReadInv
  <2> QED BY <1>2, <1>3, <1>6, <2>1, <2>2, <2>3, <2>4 DEF Inv, ReadInv
<1>8. ~EndCut /\ (EndCut' <=> item = End)
  BY <1>2, <1>3, <1>6 DEF EndCut
<1>9. (Held' <=> Held) /\ (Past' <=> Past)
  BY <1>3 DEF Held, Past
<1>10. /\ ~EndsWith(cq) /\ ~Held /\ ~EndsWith(hq) /\ ~Past /\ OnlyLast(cq)
       /\ pc["hash"] \notin {"term", "end"}
  BY <1>8 DEF Inv, EndInv
<1>11. OnlyLast(cq') /\ (EndsWith(cq') <=> item = End)
  <2>1. cq \in Seq(Passed)
    BY QueuesTyped DEF Inv
  <2> QED BY <1>2, <1>10, <2>1, AppendMark
<1>12. EndInv'
  BY <1>1, <1>2, <1>3, <1>8, <1>9, <1>10, <1>11 DEF Inv, EndInv
<1> QED BY <1>2, <1>3, <1>4, <1>5, <1>7, <1>12

\* A cut takes at least one unit of the window and no more than it holds.
LEMMA ChunkCutKeeps == ASSUME Inv, ChunkCut PROVE Inv'
<1> DEFINE n == ChunkSize
<1> DEFINE data == SubSeq(block_buf, buf_off + 1, buf_off + n)
<1>1. /\ pc["chunk"] = "loop" /\ ~Filling /\ rest_size > 0
      /\ Push("chunk", Normal(data), "loop")
      /\ rest_size' = rest_size - n /\ buf_off' = buf_off + n
      /\ UNCHANGED <<file, jcr, pos, block_buf, eof, hand, stored>>
  BY DEF ChunkCut
<1>2. /\ BlockSize \in Nat /\ MaxChunk \in Nat /\ file.len \in Nat
      /\ file.cut \in [1..file.len -> 1..MaxChunk]
      /\ rest_size \in Nat /\ buf_off \in Nat
      /\ buf_off + rest_size <= BlockSize + MaxChunk
      /\ block_buf \in [1..(BlockSize + MaxChunk) -> 0..file.len]
      /\ \A i \in 1..rest_size : block_buf[buf_off + i] # 0
  BY PipelineAssumption DEF Inv, WindowInv, DataInv
<1>3. n \in 1..rest_size
  <2>1. 1 \in 1..rest_size /\ buf_off + 1 \in 1..(BlockSize + MaxChunk)
    BY <1>1, <1>2
  <2>2. block_buf[buf_off + 1] \in 1..file.len
    BY <1>2, <2>1
  <2>3. file.cut[block_buf[buf_off + 1]] \in 1..MaxChunk
    BY <1>2, <2>2
  <2> QED BY <1>1, <1>2, <2>3 DEF ChunkSize, Smaller
<1> HIDE DEF n
<1>4. data \in Seq(1..file.len)
  <2>1. \A i \in (buf_off + 1)..(buf_off + n) : block_buf[i] \in 1..file.len
    <3> TAKE i \in (buf_off + 1)..(buf_off + n)
    <3>1. i - buf_off \in 1..rest_size /\ buf_off + (i - buf_off) = i
          /\ i \in 1..(BlockSize + MaxChunk)
      BY <1>2, <1>3
    <3>2. block_buf[i] # 0 /\ block_buf[i] \in 0..file.len
      BY <1>2, <3>1
    <3> QED BY <1>2, <3>2
  <2>2. data = [i \in 1..n |-> block_buf[buf_off + i]]
    <3>1. data = [i \in 1..((buf_off + n) - (buf_off + 1) + 1) |-> block_buf[i + (buf_off + 1) - 1]]
      BY <1>2, <1>3
    <3>2. (buf_off + n) - (buf_off + 1) + 1 = n
      BY <1>2, <1>3
    <3>3. \A i \in 1..n : i + (buf_off + 1) - 1 = buf_off + i
      BY <1>2, <1>3
    <3> QED BY <3>1, <3>2, <3>3
  <2>3. \A i \in 1..n : block_buf[buf_off + i] \in 1..file.len
    <3> TAKE i \in 1..n
    <3>1. buf_off + i \in (buf_off + 1)..(buf_off + n)
      BY <1>2, <1>3
    <3> QED BY <2>1, <3>1
  <2>4. n \in Nat
    BY <1>3
  <2> HIDE DEF data
  <2> QED BY <2>2, <2>3, <2>4
<1> HIDE DEF data
<1>5. Normal(data) \in Passed /\ Normal(data) # End
  <2>1. Normal(data) \in NormalItem
    BY <1>4 DEF Normal, Chunk, NormalItem
  <2> QED BY <2>1, Marks DEF Passed
<1>6. /\ QueueInv' /\ PcInv' /\ StartInv' /\ DataInv' /\ ReadInv' /\ EndInv'
      /\ rq' = rq /\ pc'["chunk"] = "loop"
  BY <1>1, <1>5, ChunkHandsOn
<1>7. WindowInv'
  <2>1. /\ buf_off + n \in Nat /\ rest_size - n \in Nat
        /\ (buf_off + n) + (rest_size - n) <= BlockSize + MaxChunk
    BY <1>2, <1>3
  <2>2. ASSUME NEW i \in 1..(rest_size - n) PROVE block_buf[(buf_off + n) + i] # 0
    <3>1. n + i \in 1..rest_size /\ (buf_off + n) + i = buf_off + (n + i)
      BY <1>2, <1>3
    <3> QED BY <1>2, <3>1
  <2> QED BY <1>1, <1>6, <2>1, <2>2 DEF Inv, WindowInv
<1> QED BY <1>6, <1>7 DEF Inv

LEMMA ChunkForwardKeeps == ASSUME Inv, ChunkForward PROVE Inv'
<1>1. /\ UNCHANGED <<file, jcr, pos, block_buf, rest_size, hand, stored>>
      /\ \/ /\ pc["chunk"] = "forward" /\ Push("chunk", Start, "first")
            /\ UNCHANGED <<buf_off, eof>>
         \/ /\ pc["chunk"] = "loop" /\ ~Filling /\ rest_size = 0
            /\ Push("chunk", End, "run")
            /\ buf_off' = 0 /\ eof' = FALSE
  BY DEF ChunkForward
<1>2. Start \in Passed /\ End \in Passed /\ Start # End
  BY Marks DEF Passed
<1>3. CASE pc["chunk"] = "forward"
  <2>1. Push("chunk", Start, "first") /\ UNCHANGED <<buf_off, eof>>
    BY <1>1, <1>3
  <2>2. /\ QueueInv' /\ PcInv' /\ StartInv' /\ DataInv' /\ ReadInv' /\ EndInv'
        /\ rq' = rq /\ pc'["chunk"] = "first"
    BY <1>1, <1>2, <1>3, <2>1, ChunkHandsOn
  <2>3. WindowInv'
    BY <1>1, <1>3, <2>1, <2>2 DEF Inv, WindowInv
  <2> QED BY <2>2, <2>3 DEF Inv
<1>4. CASE pc["chunk"] = "loop"
  <2>1. /\ ~Filling /\ rest_size = 0 /\ Push("chunk", End, "run") /\ buf_off' = 0 /\ eof' = FALSE
    BY <1>1, <1>4
  <2>2. eof
    BY <2>1, PipelineAssumption DEF Filling
  <2>3. ReadDone /\ rq = <<>>
    BY <1>4, <2>2 DEF Inv, ReadInv
  <2>4. /\ QueueInv' /\ PcInv' /\ StartInv' /\ DataInv' /\ ReadInv' /\ EndInv'
        /\ rq' = rq /\ pc'["chunk"] = "run"
    BY <1>1, <1>2, <1>4, <2>1, <2>3, ChunkHandsOn
  <2>5. WindowInv'
    <3>1. 0 + 0 <= BlockSize + MaxChunk
      BY PipelineAssumption
    <3> QED BY <1>1, <2>1, <2>4, <3>1 DEF Inv, WindowInv
  <2> QED BY <2>4, <2>5 DEF Inv
<1> QED BY <1>1, <1>3, <1>4


\* hash takes from chunk_queue; a mark keeps being one.
LEMMA HashPopKeeps == ASSUME Inv, HashPop PROVE Inv'
<1> DEFINE c == Item("hash")
<1>1. /\ pc["hash"] = "run" /\ Pop("hash")
      /\ IF c = NULL THEN Goto("hash", "term") /\ UNCHANGED hand
         ELSE Goto("hash", "forward") /\ hand' = Hashed(c)
      /\ UNCHANGED <<file, jcr, pos, block_buf, buf_off, rest_size, eof, stored>>
  BY DEF HashPop, chunkVars
<1>2. /\ QueueInv' /\ DOMAIN queue' = DOMAIN queue
      /\ rq' = rq /\ hq' = hq /\ \A q : T(q)' = T(q)
      /\ \/ /\ cq # <<>> /\ cq \in Seq(Passed) /\ c = cq[1] /\ c \in Passed /\ c # NULL
            /\ cq' = Tail(cq)
         \/ cq = <<>> /\ T("chunk_queue") /\ c = NULL /\ cq' = <<>>
  <2>1. "chunk_queue" \in DOMAIN queue /\ QueueInv
    BY <1>1, QueuesThere DEF Inv
  <2>2. /\ QueueInv' /\ DOMAIN queue' = DOMAIN queue /\ T("chunk_queue")' = T("chunk_queue")
        /\ \A x : x # "chunk_queue" => Q(x)' = Q(x) /\ T(x)' = T(x)
        /\ \/ /\ Q("chunk_queue") # <<>> /\ Q("chunk_queue") \in Seq(Passed)
              /\ c = Q("chunk_queue")[1] /\ c \in Passed /\ c # NULL
              /\ Q("chunk_queue")' = Tail(Q("chunk_queue"))
           \/ /\ Q("chunk_queue") = <<>> /\ T("chunk_queue") /\ c = NULL
              /\ Q("chunk_queue")' = <<>>
    BY <1>1, <2>1, QueueNames, PopEffect
  <2>3. \A q : T(q)' = T(q)
    BY <2>2
  <2> QED BY <2>2, <2>3 DEF rq, cq, hq
<1> HIDE DEF c
<1> DEFINE label == IF c = NULL THEN "term" ELSE "forward"
<1>3. /\ pc' \in [Threads -> Labels] /\ pc'["hash"] = label
      /\ pc'["main"] = pc["main"] /\ pc'["read"] = pc["read"]
      /\ pc'["chunk"] = pc["chunk"] /\ pc'["dedup"] = pc["dedup"]
  <2>1. label \in Labels /\ pc' = [pc EXCEPT !["hash"] = label]
    BY <1>1 DEF Labels, Goto
  <2> HIDE DEF label
  <2> QED BY <2>1, Moves DEF Threads
<1>4. PcInv' /\ StartInv'
  BY <1>1, <1>2, <1>3 DEF Inv, PcInv, StartInv
<1>5. hand' \in Passed /\ (c # NULL => (hand' = End <=> c = End))
  <2>1. CASE c = NULL
    BY <1>1, <2>1 DEF Inv, DataInv
  <2>2. CASE c # NULL
    <3>1. c \in Passed /\ hand' = Hashed(c)
      BY <1>1, <1>2, <2>2
    <3>2. CASE c \in {Start, End}
      BY <3>1, <3>2, Marks DEF Hashed, Passed
    <3>3. CASE c \in NormalItem
      <4>1. hand' = [c EXCEPT !.fp = c.data]
        BY <3>1, <3>3, Marks DEF Hashed
      <4>2. hand' \in NormalItem
        BY <3>3, <4>1 DEF NormalItem
      <4> QED BY <3>3, <4>2, Marks DEF Passed
    <3> QED BY <3>1, <3>2, <3>3 DEF Passed
  <2> QED BY <2>1, <2>2
<1>6. DataInv'
  <2>1. Passed' = Passed
    BY <1>1 DEF Passed, NormalItem
  <2> HIDE DEF label
  <2> QED BY <1>1, <1>5, <2>1 DEF Inv, DataInv
<1>7. WindowInv'
  BY <1>1, <1>2, <1>3 DEF Inv, WindowInv
<1>8. ReadInv'
  BY <1>1, <1>2, <1>3 DEF Inv, ReadInv, ReadDone, ChunkMet
<1>9. (EndCut' <=> EndCut) /\ (Past' <=> Past) /\ ~Held
  BY <1>1, <1>2, <1>3 DEF EndCut, ReadDone, Held, Past
<1>10. OnlyLast(cq) /\ OnlyLast(hq)
  BY DEF Inv, EndInv
<1>11. EndInv'
  <2>1. CASE c = NULL
    <3>1. cq = <<>> /\ cq' = <<>> /\ pc["chunk"] = "end" /\ ~Held'
      BY <1>2, <1>3, <2>1 DEF Inv, EndInv, Held
    <3>2. pc'["hash"] = "term" /\ ~T("hash_queue")
      BY <1>1, <1>3, <2>1 DEF Inv, EndInv
    <3>3. OnlyLast(cq') /\ OnlyLast(hq') /\ ~EndsWith(cq') /\ ~EndsWith(cq)
          /\ (EndsWith(hq') <=> EndsWith(hq))
      BY <1>2, <1>10, <3>1 DEF EndsWith
    <3> HIDE DEF label
    <3> QED BY <1>2, <1>3, <1>9, <3>1, <3>2, <3>3 DEF Inv, EndInv
  <2>2. CASE c # NULL
    <3>1. /\ cq # <<>> /\ cq \in Seq(Passed) /\ c = cq[1] /\ cq' = Tail(cq)
          /\ pc'["hash"] = "forward"
      BY <1>2, <1>3, <2>2
    <3>2. Held' <=> c = End
      BY <1>5, <2>2, <3>1 DEF Held
    <3>3. /\ OnlyLast(cq') /\ (c = End => cq' = <<>> /\ EndsWith(cq))
          /\ c # End => (EndsWith(cq') <=> EndsWith(cq))
      BY <1>10, <3>1, TailMark
    <3>4. ~EndsWith(hq) /\ ~Past /\ ~(T("hash_queue"))
      BY <1>1, <3>1 DEF Inv, EndInv
    <3>5. ~EndsWith(cq') \/ c # End
      BY <3>3 DEF EndsWith
    <3> HIDE DEF label
    <3> QED BY <1>1, <1>2, <1>3, <1>9, <3>1, <3>2, <3>3, <3>4, <3>5 DEF Inv, EndInv
  <2> QED BY <2>1, <2>2
<1> QED BY <1>2, <1>4, <1>6, <1>7, <1>8, <1>11 DEF Inv

LEMMA HashForwardKeeps == ASSUME Inv, HashForward PROVE Inv'
<1>1. /\ pc["hash"] = "forward" /\ Push("hash", hand, "run") /\ hand \in Passed
      /\ UNCHANGED <<file, jcr, pos, block_buf, buf_off, rest_size, eof, hand, stored>>
  BY DEF HashForward, chunkVars, Inv, DataInv
<1>2. /\ QueueInv' /\ DOMAIN queue' = DOMAIN queue
      /\ hq' = Append(hq, hand) /\ rq' = rq /\ cq' = cq /\ \A q : T(q)' = T(q)
      /\ pc' = [pc EXCEPT !["hash"] = "run"]
  <2>1. "hash_queue" \in DOMAIN queue /\ ~T("hash_queue") /\ QueueInv
    BY <1>1, QueuesThere DEF Inv, EndInv
  <2>2. /\ QueueInv' /\ DOMAIN queue' = DOMAIN queue
        /\ Q("hash_queue")' = Append(Q("hash_queue"), hand) /\ T("hash_queue")' = T("hash_queue")
        /\ \A x : x # "hash_queue" => Q(x)' = Q(x) /\ T(x)' = T(x)
        /\ pc' = [pc EXCEPT !["hash"] = "run"]
    BY <1>1, <2>1, QueueNames, PushEffect DEF Threads
  <2>3. \A q : T(q)' = T(q)
    BY <2>2
  <2> QED BY <2>2, <2>3 DEF rq, cq, hq
<1>3. /\ pc' \in [Threads -> Labels] /\ pc'["hash"] = "run"
      /\ pc'["main"] = pc["main"] /\ pc'["read"] = pc["read"]
      /\ pc'["chunk"] = pc["chunk"] /\ pc'["dedup"] = pc["dedup"]
  <2>1. "hash" \in Threads /\ "run" \in Labels
    BY DEF Threads, Labels
  <2>2. /\ pc' \in [Threads -> Labels] /\ pc'["hash"] = "run"
        /\ \A u \in Threads \ {"hash"} : pc'[u] = pc[u]
    BY <1>2, <2>1, Moves
  <2> QED BY <2>2 DEF Threads
<1>4. PcInv' /\ StartInv'
  BY <1>1, <1>2, <1>3 DEF Inv, PcInv, StartInv
<1>5. DataInv'
  BY <1>1 DEF Inv, DataInv, Passed, NormalItem
<1>6. WindowInv'
  BY <1>1, <1>2, <1>3 DEF Inv, WindowInv
<1>7. ReadInv'
  BY <1>1, <1>2, <1>3 DEF Inv, ReadInv, ReadDone, ChunkMet
<1>8. /\ (EndCut' <=> EndCut) /\ (Past' <=> Past) /\ ~Held' /\ (Held <=> hand = End)
  BY <1>1, <1>2, <1>3 DEF EndCut, ReadDone, Held, Past
<1>9. ~EndsWith(hq) /\ ~Past /\ OnlyLast(hq) /\ ~T("hash_queue")
  BY <1>1 DEF Inv, EndInv
<1>10. OnlyLast(hq') /\ (EndsWith(hq') <=> hand = End)
  <2>1. hq \in Seq(Passed)
    BY QueuesTyped DEF Inv
  <2> QED BY <1>1, <1>2, <1>9, <2>1, AppendMark
<1>11. EndInv'
  BY <1>2, <1>3, <1>8, <1>9, <1>10 DEF Inv, EndInv
<1> QED BY <1>2, <1>4, <1>5, <1>6, <1>7, <1>11 DEF Inv

\* dedup never finds hash_queue drained before FILE_END was in it.
LEMMA DedupPopEffect ==
  ASSUME Inv, DedupPop
  PROVE  /\ UNCHANGED <<file, pos, block_buf, buf_off, rest_size, eof, hand, stored, report>>
         /\ QueueInv' /\ DOMAIN queue' = DOMAIN queue /\ \A q : T(q)' = T(q)
         /\ rq' = rq /\ cq' = cq /\ \A u \in Threads \ {"dedup"} : pc'[u] = pc[u]
         /\ pc["dedup"] = "run" /\ hq # <<>> /\ hq \in Seq(Passed) /\ hq[1] \in Passed
         /\ hq' = Tail(hq) /\ pc'["dedup"] = (IF hq[1] = End THEN "save" ELSE "run")
         /\ IF hq[1].flag = "NORMAL"
            THEN file_recipe' = Append(file_recipe, hq[1].fp) /\ jcr' = Counted(hq[1])
            ELSE UNCHANGED <<file_recipe, jcr>>
<1> DEFINE c == Item("dedup")
<1>1. /\ pc["dedup"] = "run" /\ Pop("dedup")
      /\ pc' = [pc EXCEPT !["dedup"] = IF c = NULL THEN "abort" ELSE IF c = End THEN "save" ELSE "run"]
      /\ IF c.flag = "NORMAL"
         THEN file_recipe' = Append(file_recipe, c.fp) /\ jcr' = Counted(c)
         ELSE UNCHANGED <<file_recipe, jcr>>
      /\ UNCHANGED <<file, pos, block_buf, buf_off, rest_size, eof, hand, stored, report>>
  BY DEF DedupPop, chunkVars, Goto
<1>2. "hash_queue" \in DOMAIN queue /\ QueueInv
  BY <1>1, QueuesThere DEF Inv
<1>3. /\ QueueInv' /\ DOMAIN queue' = DOMAIN queue /\ T("hash_queue")' = T("hash_queue")
      /\ \A x : x # "hash_queue" => Q(x)' = Q(x) /\ T(x)' = T(x)
      /\ \/ /\ hq # <<>> /\ hq \in Seq(Passed) /\ c = hq[1] /\ c \in Passed /\ c # NULL
            /\ hq' = Tail(hq)
         \/ hq = <<>> /\ T("hash_queue")
  BY <1>1, <1>2, QueueNames, PopEffect DEF hq
<1> HIDE DEF c
<1>4. hq # <<>>
  <2> SUFFICES ASSUME hq = <<>> PROVE FALSE
    OBVIOUS
  <2>1. pc["hash"] = "end" /\ pc["chunk"] = "end" /\ cq = <<>>
    BY <1>3 DEF Inv, EndInv
  <2>2. EndCut /\ ~Held /\ ~EndsWith(cq) /\ ~EndsWith(hq)
    BY <2>1 DEF EndCut, Held, EndsWith
  <2> QED BY <1>1, <2>2 DEF Inv, EndInv, Past
<1>5. c = hq[1] /\ c # NULL
  BY <1>3, <1>4
<1>6. pc'["dedup"] = (IF hq[1] = End THEN "save" ELSE "run")
  BY <1>1, <1>5 DEF Inv, PcInv, Threads
<1>7. \A u \in Threads \ {"dedup"} : pc'[u] = pc[u]
  BY <1>1 DEF Inv, PcInv
<1>8. \A q : T(q)' = T(q)
  BY <1>3
<1> QED BY <1>1, <1>3, <1>4, <1>5, <1>6, <1>7, <1>8 DEF rq, cq

\* The counters are fields of their own.
LEMMA CountedFields ==
  ASSUME Inv, NEW c, jcr' = Counted(c)
  PROVE  /\ jcr' = [status |-> jcr'.status, chunk_num |-> jcr'.chunk_num,
                    data_size |-> jcr'.data_size,
                    unique_chunk_num |-> jcr'.unique_chunk_num,
                    unique_data_size |-> jcr'.unique_data_size]
         /\ jcr'.status = jcr.status
         /\ jcr'.chunk_num = ToInt(jcr.chunk_num + 1)
         /\ jcr'.data_size = ToInt(jcr.data_size + Len(c.data))
         /\ jcr'.unique_chunk_num = (IF Unique(c) THEN ToInt(jcr.unique_chunk_num + 1)
                                     ELSE jcr.unique_chunk_num)
         /\ jcr'.unique_data_size = (IF Unique(c) THEN ToInt(jcr.unique_data_size + Len(c.data))
                                     ELSE jcr.unique_data_size)
<1> DEFINE num == ToInt(jcr.chunk_num + 1)
<1> DEFINE size == ToInt(jcr.data_size + Len(c.data))
<1> DEFINE unum == IF Unique(c) THEN ToInt(jcr.unique_chunk_num + 1) ELSE jcr.unique_chunk_num
<1> DEFINE usize == IF Unique(c) THEN ToInt(jcr.unique_data_size + Len(c.data))
                    ELSE jcr.unique_data_size
<1>1. jcr' = [jcr EXCEPT !.chunk_num = num, !.data_size = size,
                         !.unique_chunk_num = unum, !.unique_data_size = usize]
  BY DEF Counted
<1> HIDE DEF num, size, unum, usize
<1>2. jcr' = [status |-> jcr.status, chunk_num |-> num, data_size |-> size,
              unique_chunk_num |-> unum, unique_data_size |-> usize]
  BY <1>1 DEF Inv, DataInv
<1> QED BY <1>2 DEF num, size, unum, usize

LEMMA DedupPopKeeps == ASSUME Inv, DedupPop PROVE Inv'
<1> DEFINE c == hq[1]
<1>1. /\ UNCHANGED <<file, pos, block_buf, buf_off, rest_size, eof, hand, stored>>
      /\ pc["dedup"] = "run"
      /\ jcr' = jcr \/ jcr' = Counted(c)
  BY DedupPopEffect
<1>2. /\ QueueInv' /\ DOMAIN queue' = DOMAIN queue /\ \A q : T(q)' = T(q)
      /\ rq' = rq /\ cq' = cq /\ hq # <<>> /\ hq \in Seq(Passed) /\ hq' = Tail(hq)
  BY DedupPopEffect
<1>3. /\ c = End => pc'["dedup"] = "save"
      /\ c # End => pc'["dedup"] = "run"
      /\ \A u \in Threads \ {"dedup"} : pc'[u] = pc[u]
  BY DedupPopEffect
<1>4. /\ pc' \in [Threads -> Labels]
      /\ pc'["main"] = pc["main"] /\ pc'["read"] = pc["read"]
      /\ pc'["chunk"] = pc["chunk"] /\ pc'["hash"] = pc["hash"]
  <2>1. \E label : pc' = [pc EXCEPT !["dedup"] = label]
    BY DEF DedupPop, Goto
  <2>2. pc'["dedup"] \in Labels
    BY <1>3 DEF Labels
  <2> QED BY <1>3, <2>1, <2>2 DEF Inv, PcInv, Threads
<1> HIDE DEF c
<1>5. PcInv' /\ StartInv'
  <2>1. pc'["dedup"] \in {"save", "run"} /\ pc["dedup"] = "run"
    BY <1>1, <1>3
  <2> QED BY <1>2, <1>4, <2>1 DEF Inv, PcInv, StartInv
<1>6. DataInv'
  <2>1. Passed' = Passed
    BY <1>1 DEF Passed, NormalItem
  <2>2. /\ jcr'.status = jcr.status
        /\ jcr' = [status |-> jcr'.status, chunk_num |-> jcr'.chunk_num,
                   data_size |-> jcr'.data_size,
                   unique_chunk_num |-> jcr'.unique_chunk_num,
                   unique_data_size |-> jcr'.unique_data_size]
    BY <1>1, CountedFields DEF Inv, DataInv
  <2> QED BY <1>1, <2>1, <2>2 DEF Inv, DataInv
<1>7. WindowInv'
  BY <1>1, <1>2, <1>4 DEF Inv, WindowInv
<1>8. ReadInv'
  BY <1>1, <1>2, <1>4 DEF Inv, ReadInv, ReadDone, ChunkMet
<1>9. (EndCut' <=> EndCut) /\ (Held' <=> Held) /\ (Past' <=> c = End) /\ ~Past
  <2>1. (EndCut' <=> EndCut) /\ (Held' <=> Held) /\ ~Past
    BY <1>1, <1>2, <1>4 DEF EndCut, ReadDone, Held, Past
  <2>2. Past' <=> c = End
    BY <1>3 DEF Past
  <2> QED BY <2>1, <2>2
<1>10. /\ OnlyLast(hq') /\ (c = End => hq' = <<>> /\ EndsWith(hq))
       /\ c # End => (EndsWith(hq') <=> EndsWith(hq))
  BY <1>2, TailMark DEF Inv, EndInv, c
<1>11. EndInv'
  <2>1. CASE c = End
    <3>1. EndsWith(hq) /\ hq' = <<>> /\ ~EndsWith(hq')
      BY <1>10, <2>1 DEF EndsWith
    <3>2. EndCut /\ cq = <<>> /\ pc["hash"] # "forward" /\ ~Held /\ ~EndsWith(cq)
      BY <3>1 DEF Inv, EndInv, Held, EndsWith
    <3> QED BY <1>2, <1>4, <1>9, <1>10, <2>1, <3>1, <3>2 DEF Inv, EndInv
  <2>2. CASE c # End
    BY <1>2, <1>4, <1>9, <1>10, <2>2 DEF Inv, EndInv
  <2> QED BY <2>1, <2>2
<1> QED BY <1>2, <1>5, <1>6, <1>7, <1>8, <1>11 DEF Inv

LEMMA DedupFinishKeeps == ASSUME Inv, DedupFinish PROVE Inv'
<1>1. /\ UNCHANGED <<file, queue, pos, block_buf, buf_off, rest_size, eof, hand>>
      /\ pc["dedup"] \in {"save", "status"} /\ stored' \in BOOLEAN
      /\ jcr' = jcr \/ jcr' = [jcr EXCEPT !.status = "DONE"]
  BY DEF DedupFinish, chunkVars, Inv, DataInv
<1>2. /\ pc' \in [Threads -> Labels] /\ pc'["dedup"] \in {"status", "end"}
      /\ pc'["main"] = pc["main"] /\ pc'["read"] = pc["read"]
      /\ pc'["chunk"] = pc["chunk"] /\ pc'["hash"] = pc["hash"]
  BY Moves DEF DedupFinish, Goto, Threads, Labels
<1>3. rq' = rq /\ cq' = cq /\ hq' = hq /\ \A q : T(q)' = T(q)
  BY <1>1 DEF rq, cq, hq, Q, T
<1>4. QueueInv'
  BY <1>1 DEF Inv, QueueInv, QueueType, Passed, NormalItem
<1>5. DataInv'
  BY <1>1 DEF Inv, DataInv, Passed, NormalItem
<1>6. PcInv' /\ StartInv'
  BY <1>1, <1>2 DEF Inv, PcInv, StartInv
<1>7. WindowInv'
  BY <1>1, <1>2, <1>3 DEF Inv, WindowInv
<1>8. ReadInv'
  BY <1>1, <1>2, <1>3 DEF Inv, ReadInv, ReadDone, ChunkMet
<1>9. (EndCut' <=> EndCut) /\ (Held' <=> Held) /\ Past /\ Past'
  BY <1>1, <1>2, <1>3 DEF EndCut, ReadDone, Held, Past
<1>10. EndInv'
  BY <1>2, <1>3, <1>9 DEF Inv, EndInv
<1> QED BY <1>4, <1>5, <1>6, <1>7, <1>8, <1>10 DEF Inv

-------------------------------------------------------------------------------
LEMMA NextKeeps == Inv /\ [Next]_vars => Inv'
<1> SUFFICES ASSUME Inv, [Next]_vars PROVE Inv'
  OBVIOUS
<1>1. ASSUME NEW t \in {"read", "chunk", "hash", "dedup"}, Sleep(t) PROVE Inv'
  <2>1. InPush(t) => Out[t] \in DOMAIN queue
    BY QueueNames, QueuesThere DEF InPush
  <2>2. InPop(t) => In[t] \in DOMAIN queue
    BY QueueNames, QueuesThere DEF InPop
  <2>3. t \in Threads /\ QueueInv
    BY DEF Threads, Inv
  <2> QED BY <1>1, <2>1, <2>2, <2>3, SleepQuiet, QuietKeeps
<1>2. CASE SpuriousWakeup
  BY <1>2, WakeQuiet, QuietKeeps DEF Inv
<1>3. CASE UNCHANGED vars
  <2>1. /\ UNCHANGED <<file, pc, jcr, pos, chunkVars, hand, file_recipe, stored, report>>
        /\ queue' = queue
    BY <1>3 DEF vars
  <2>2. QueueInv'
    BY <2>1 DEF Inv, QueueInv, QueueType, Passed, NormalItem
  <2>3. \A x : Q(x)' = Q(x) /\ T(x)' = T(x)
    BY <2>1 DEF Q, T
  <2> QED BY <2>1, <2>2, <2>3, QuietKeeps DEF Quiet
<1>4. CASE Main
  BY <1>4, StartKeeps, StopKeeps DEF Main
<1>5. CASE ReadThread
  BY <1>1, <1>5, ReadKeeps, TermKeeps DEF ReadThread
<1>6. CASE ChunkThread
  BY <1>1, <1>6, ChunkStartKeeps, ChunkFillKeeps, ChunkCutKeeps, ChunkForwardKeeps, TermKeeps
     DEF ChunkThread
<1>7. CASE HashThread
  BY <1>1, <1>7, HashPopKeeps, HashForwardKeeps, TermKeeps DEF HashThread
<1>8. CASE DedupThread
  BY <1>1, <1>8, DedupPopKeeps, DedupFinishKeeps DEF DedupThread
<1> QED BY <1>2, <1>3, <1>4, <1>5, <1>6, <1>7, <1>8 DEF Next

LEMMA InvAlways == Spec => []Inv
<1>1. Init => Inv
  BY InitKeeps
<1> QED BY <1>1, NextKeeps, PTL DEF Spec

\* No thread of the pipelined write runs into an assertion or takes the NULL
\* of a drained queue for a chunk, whatever the file, the sizes of blocks and
\* queues and the order in which the threads run.
THEOREM NoAbortHolds == Spec => []NoAbort
<1>1. Inv => NoAbort
  BY DEF Inv, PcInv, NoAbort, Threads
<1> QED BY <1>1, InvAlways, PTL

\* The window of chunk and the block copied behind it stay within block_buf,
\* and no queue exceeds its limit.
THEOREM WindowFitsHolds == Spec => []WindowFits
<1>1. Inv => WindowFits
  <2> SUFFICES ASSUME Inv PROVE WindowFits
    OBVIOUS
  <2>1. \A c \in Passed : IsChunk(c)
    BY Marks DEF Passed, IsChunk
  <2>2. ASSUME NEW q \in DOMAIN queue
        PROVE  /\ \A i \in DOMAIN queue[q].queue : IsChunk(queue[q].queue[i])
               /\ Len(queue[q].queue) <= QueueSize[q]
               /\ queue[q].max_work \cup queue[q].min_work \cup queue[q].entered \subseteq Threads
    <3>1. queue[q] \in QueueType(q) /\ Len(queue[q].queue) <= QueueSize[q]
      BY DEF Inv, QueueInv
    <3>2. queue[q].queue \in Seq(Passed)
      BY <3>1 DEF QueueType
    <3>3. \A i \in DOMAIN queue[q].queue : queue[q].queue[i] \in Passed
      BY <3>2
    <3> QED BY <2>1, <3>1, <3>3 DEF QueueType
  <2>3. IsChunk(hand)
    BY <2>1 DEF Inv, DataInv
  <2>4. TypeOK
    BY <2>2, <2>3 DEF Inv, TypeOK, DataInv, WindowInv, PcInv, QueueInv
  <2> QED BY <2>4 DEF WindowFits, Inv, WindowInv
<1> QED BY <1>1, InvAlways, PTL

-------------------------------------------------------------------------------
\* Lines of pieces that follow each other.

\* The pieces of s follow each other from a to b, each standing to its ends as
\* R has it.
Line(R, s, a, b) ==
  \E f \in [0..Len(s) -> Nat] :
    /\ f[0] = a /\ f[Len(s)] = b
    /\ \A i \in 1..Len(s) : <<s[i], f[i - 1], f[i]>> \in R

\* No pieces lead from a to a, and nowhere else.
LEMMA LineEmpty == ASSUME NEW R, NEW a \in Nat PROVE Line(R, <<>>, a, a)
<1> DEFINE f == [i \in {0} |-> a]
<1>1. 0..0 = {0} /\ Len(<<>>) = 0
  OBVIOUS
<1>2. f \in [0..Len(<<>>) -> Nat] /\ f[0] = a /\ f[Len(<<>>)] = a
  BY <1>1
<1>3. \A i \in 1..Len(<<>>) : FALSE
  BY <1>1
<1> HIDE DEF f
<1> QED BY <1>2, <1>3 DEF Line

LEMMA LineOver == ASSUME NEW R, NEW a, NEW b, Line(R, <<>>, a, b) PROVE a = b
BY DEF Line

\* The ends of a line are numbers.
LEMMA LineEnds ==
  ASSUME NEW R, NEW S, NEW s \in Seq(S), NEW a, NEW b, Line(R, s, a, b)
  PROVE  a \in Nat /\ b \in Nat
<1>1. 0 \in 0..Len(s) /\ Len(s) \in 0..Len(s)
  OBVIOUS
<1> QED BY <1>1 DEF Line

\* One more piece at the end of a line.
LEMMA LineAppend ==
  ASSUME NEW R, NEW S, NEW s \in Seq(S), NEW x, NEW a, NEW b, NEW c \in Nat,
         Line(R, s, a, b), <<x, b, c>> \in R
  PROVE  Line(R, Append(s, x), a, c)
<1>1. PICK f \in [0..Len(s) -> Nat] :
         /\ f[0] = a /\ f[Len(s)] = b
         /\ \A i \in 1..Len(s) : <<s[i], f[i - 1], f[i]>> \in R
  BY DEF Line
<1> DEFINE n == Len(s)
<1> DEFINE t == Append(s, x)
<1> DEFINE g == [i \in 0..(n + 1) |-> IF i <= n THEN f[i] ELSE c]
<1>2. n \in Nat /\ Len(t) = n + 1 /\ t[n + 1] = x /\ \A i \in 1..n : t[i] = s[i]
  <2>1. s \in Seq(S \cup {x}) /\ t \in Seq(S \cup {x})
    OBVIOUS
  <2> QED BY <2>1
<1> HIDE DEF t
<1>3. g \in [0..Len(t) -> Nat]
  BY <1>2
<1>4. g[0] = a /\ g[Len(t)] = c /\ g[n] = b
  <2>1. 0 \in 0..(n + 1) /\ n + 1 \in 0..(n + 1) /\ n \in 0..(n + 1) /\ 0 <= n /\ ~(n + 1 <= n) /\ n <= n
    BY <1>2
  <2> QED BY <1>1, <1>2, <2>1
<1>5. ASSUME NEW i \in 1..Len(t) PROVE <<t[i], g[i - 1], g[i]>> \in R
  <2>1. CASE i = n + 1
    <3>1. i - 1 = n
      BY <1>2, <2>1
    <3> HIDE DEF g
    <3> QED BY <1>2, <1>4, <2>1, <3>1
  <2>2. CASE i # n + 1
    <3>1. i \in 1..n /\ i \in 0..(n + 1) /\ i - 1 \in 0..(n + 1) /\ i <= n /\ i - 1 <= n
      BY <1>2, <2>2
    <3>2. g[i] = f[i] /\ g[i - 1] = f[i - 1] /\ t[i] = s[i]
      BY <1>2, <3>1
    <3> HIDE DEF g
    <3> QED BY <1>1, <3>1, <3>2
  <2> QED BY <2>1, <2>2
<1> HIDE DEF g
<1> QED BY <1>3, <1>4, <1>5 DEF Line, t

\* The first piece is taken off a line.
LEMMA LineTail ==
  ASSUME NEW R, NEW S, NEW s \in Seq(S), s # <<>>, NEW a, NEW b, Line(R, s, a, b)
  PROVE  \E c \in Nat : <<s[1], a, c>> \in R /\ Line(R, Tail(s), c, b)
<1>1. PICK f \in [0..Len(s) -> Nat] :
         /\ f[0] = a /\ f[Len(s)] = b
         /\ \A i \in 1..Len(s) : <<s[i], f[i - 1], f[i]>> \in R
  BY DEF Line
<1> DEFINE n == Len(s)
<1> DEFINE t == Tail(s)
<1> DEFINE g == [i \in 0..(n - 1) |-> f[i + 1]]
<1>2. n \in Nat \ {0} /\ Len(t) = n - 1 /\ \A i \in 1..(n - 1) : t[i] = s[i + 1]
  <2>1. n \in Nat \ {0} /\ Len(t) = n - 1 /\ t \in Seq(S)
    OBVIOUS
  <2>2. \A i \in 1..(n - 1) : t[i] = s[i + 1]
    BY <2>1
  <2> QED BY <2>1, <2>2
<1> HIDE DEF t
<1>3. g \in [0..Len(t) -> Nat] /\ g[0] = f[1] /\ g[Len(t)] = b /\ f[1] \in Nat
  <2>1. \A i \in 0..(n - 1) : i + 1 \in 0..n
    BY <1>2
  <2>2. 0 \in 0..(n - 1) /\ n - 1 \in 0..(n - 1) /\ 0 + 1 = 1 /\ (n - 1) + 1 = n /\ 1 \in 0..n
    BY <1>2
  <2> QED BY <1>1, <1>2, <2>1, <2>2
<1>4. ASSUME NEW i \in 1..Len(t) PROVE <<t[i], g[i - 1], g[i]>> \in R
  <2>1. /\ i + 1 \in 1..n /\ (i + 1) - 1 = i /\ i \in 0..(n - 1) /\ i - 1 \in 0..(n - 1)
        /\ (i - 1) + 1 = i /\ i \in 1..(n - 1)
    BY <1>2
  <2>2. g[i] = f[i + 1] /\ g[i - 1] = f[i]
    BY <2>1
  <2> HIDE DEF g
  <2>3. <<s[i + 1], f[i], f[i + 1]>> \in R
    BY <1>1, <2>1
  <2> QED BY <1>2, <2>1, <2>2, <2>3
<1>5. <<s[1], a, f[1]>> \in R
  <2>1. 1 \in 1..n /\ 1 - 1 = 0
    BY <1>2
  <2> QED BY <1>1, <2>1
<1>6. Line(R, t, f[1], b)
  <2> HIDE DEF g
  <2> QED BY <1>3, <1>4 DEF Line
<1> QED BY <1>3, <1>5, <1>6 DEF t

\* Two lines that meet are one.
LEMMA LineJoin ==
  ASSUME NEW R, NEW S, NEW s \in Seq(S), NEW t \in Seq(S), NEW a, NEW b, NEW c,
         Line(R, s, a, b), Line(R, t, b, c)
  PROVE  Line(R, s \o t, a, c)
<1>1. PICK f \in [0..Len(s) -> Nat] :
         /\ f[0] = a /\ f[Len(s)] = b
         /\ \A i \in 1..Len(s) : <<s[i], f[i - 1], f[i]>> \in R
  BY DEF Line
<1>2. PICK g \in [0..Len(t) -> Nat] :
         /\ g[0] = b /\ g[Len(t)] = c
         /\ \A i \in 1..Len(t) : <<t[i], g[i - 1], g[i]>> \in R
  BY DEF Line
<1> DEFINE n == Len(s)
<1> DEFINE m == Len(t)
<1> DEFINE u == s \o t
<1> DEFINE h == [i \in 0..(n + m) |-> IF i <= n THEN f[i] ELSE g[i - n]]
<1>3. /\ n \in Nat /\ m \in Nat /\ Len(u) = n + m
      /\ \A i \in 1..n : u[i] = s[i]
      /\ \A i \in (n + 1)..(n + m) : u[i] = t[i - n]
  OBVIOUS
<1> HIDE DEF u, n, m
<1>4. \A i \in 0..(n + m) : ~(i <= n) => i - n \in 0..m
  BY <1>3
<1>5. \A i \in 0..(n + m) : i <= n => i \in 0..n
  BY <1>3
<1>6. h \in [0..Len(u) -> Nat]
  BY <1>1, <1>2, <1>3, <1>4, <1>5 DEF n, m
<1>7. \A i \in 0..m : n + i \in 0..(n + m) /\ (i = 0 => n + i <= n) /\ (i # 0 => ~(n + i <= n)) /\ (n + i) - n = i
  BY <1>3
<1>8. \A i \in 0..m : h[n + i] = g[i]
  <2> TAKE i \in 0..m
  <2>1. CASE i = 0
    <3>1. n + i = n /\ h[n + i] = f[n]
      BY <1>3, <1>7, <2>1
    <3> QED BY <1>1, <1>2, <2>1, <3>1 DEF n
  <2>2. CASE i # 0
    BY <1>7, <2>2
  <2> QED BY <2>1, <2>2
<1>9. \A i \in 0..n : h[i] = f[i]
  <2>1. \A i \in 0..n : i \in 0..(n + m) /\ i <= n
    BY <1>3
  <2> QED BY <2>1
<1> HIDE DEF h
<1>10. h[0] = a /\ h[Len(u)] = c
  <2>1. 0 \in 0..n /\ m \in 0..m
    BY <1>3
  <2> QED BY <1>1, <1>2, <1>3, <1>8, <1>9, <2>1 DEF n, m
<1>11. ASSUME NEW i \in 1..Len(u) PROVE <<u[i], h[i - 1], h[i]>> \in R
  <2>1. CASE i <= n
    <3>1. i \in 1..n /\ i \in 0..n /\ i - 1 \in 0..n
      BY <1>3, <2>1
    <3> QED BY <1>1, <1>3, <1>9, <3>1 DEF n
  <2>2. CASE ~(i <= n)
    <3>1. /\ i - n \in 1..m /\ i - n \in 0..m /\ (i - n) - 1 \in 0..m
          /\ n + (i - n) = i /\ n + ((i - n) - 1) = i - 1 /\ i \in (n + 1)..(n + m)
      BY <1>3, <2>2
    <3>2. h[i] = g[i - n] /\ h[i - 1] = g[(i - n) - 1] /\ u[i] = t[i - n]
      BY <1>3, <1>8, <3>1
    <3>3. <<t[i - n], g[(i - n) - 1], g[i - n]>> \in R
      BY <1>2, <3>1 DEF m
    <3> QED BY <3>2, <3>3
  <2> QED BY <2>1, <2>2
<1> QED BY <1>6, <1>10, <1>11 DEF Line, u

\* A line stays one where its pieces are looked at in another way.
LEMMA LineOther ==
  ASSUME NEW R, NEW P, NEW s, NEW t, Len(t) = Len(s), Len(s) \in Nat, NEW a, NEW b, Line(R, s, a, b),
         \A i \in 1..Len(s) : \A x, y \in Nat : <<s[i], x, y>> \in R => <<t[i], x, y>> \in P
  PROVE  Line(P, t, a, b)
<1>1. PICK f \in [0..Len(s) -> Nat] :
         /\ f[0] = a /\ f[Len(s)] = b
         /\ \A i \in 1..Len(s) : <<s[i], f[i - 1], f[i]>> \in R
  BY DEF Line
<1>2. ASSUME NEW i \in 1..Len(s) PROVE <<t[i], f[i - 1], f[i]>> \in P
  <2>1. i - 1 \in 0..Len(s) /\ i \in 0..Len(s)
    OBVIOUS
  <2>2. f[i - 1] \in Nat /\ f[i] \in Nat
    BY <2>1
  <2> QED BY <1>1, <2>2
<1> QED BY <1>1, <1>2 DEF Line

\* Consecutive units.
LEMMA UnitsAre ==
  ASSUME NEW a \in Nat, NEW b \in Nat, a <= b
  PROVE  /\ Units(a + 1, b) \in Seq(Nat) /\ Len(Units(a + 1, b)) = b - a
         /\ DOMAIN Units(a + 1, b) = 1..(b - a)
         /\ \A i \in 1..(b - a) : Units(a + 1, b)[i] = a + i
         /\ a < b => Units(a + 1, b)[1] = a + 1
<1>1. b - (a + 1) + 1 = b - a /\ b - a \in Nat
  OBVIOUS
<1>2. \A i \in 1..(b - a) : (a + 1) + i - 1 = a + i /\ a + i \in Nat
  OBVIOUS
<1>3. Units(a + 1, b) = [i \in 1..(b - a) |-> a + i]
  BY <1>1, <1>2 DEF Units
<1>4. a < b => 1 \in 1..(b - a)
  OBVIOUS
<1> QED BY <1>1, <1>2, <1>3, <1>4

LEMMA UnitsEmpty == ASSUME NEW a \in Nat PROVE Units(a + 1, a) = <<>>
<1>1. a - (a + 1) + 1 = 0 /\ 1..0 = {}
  OBVIOUS
<1> QED BY <1>1 DEF Units

LEMMA AreUnits ==
  ASSUME NEW a \in Nat, NEW n \in Nat, NEW data, data = [i \in 1..n |-> a + i]
  PROVE  data = Units(a + 1, a + n)
<1>1. (a + n) - (a + 1) + 1 = n /\ \A i \in 1..n : (a + 1) + i - 1 = a + i
  OBVIOUS
<1> QED BY <1>1 DEF Units

\* A non-empty set of numbers has a least one.
LEMMA HasLeast ==
  ASSUME NEW Some \in SUBSET Nat, Some # {}
  PROVE  \E t \in Some : \A u \in Some : t <= u
<1> DEFINE R == {ss \in Nat \X Nat : ss[1] < ss[2]}
<1>1. IsWellFoundedOn(R, Nat)
  BY NatLessThanWellFounded DEF OpToRel
<1>2. \A x, y \in Nat : <<y, x>> \in R <=> y < x
  <2> TAKE x, y \in Nat
  <2>1. <<y, x>> \in Nat \X Nat /\ <<y, x>>[1] = y /\ <<y, x>>[2] = x
    OBVIOUS
  <2> QED BY <2>1
<1> HIDE DEF R
<1>3. \E x \in Some : \A y \in Some : ~(<<y, x>> \in R)
  BY <1>1, WFMin
<1>4. \A x, y \in Some : ~(<<y, x>> \in R) => x <= y
  BY <1>2
<1> QED BY <1>3, <1>4

\* A number is reached from 0 where every step leads on.
LEMMA Reached ==
  ASSUME NEW b \in Nat, NEW Some, 0 \in Some, \A n \in 0..b : n \in Some => n + 1 \in Some
  PROVE  \A n \in 0..(b + 1) : n \in Some
<1> DEFINE Missed == {n \in 0..(b + 1) : n \notin Some}
<1>1. SUFFICES ASSUME Missed # {} PROVE FALSE
  OBVIOUS
<1>2. PICK n \in Missed : \A u \in Missed : n <= u
  <2>1. Missed \in SUBSET Nat
    OBVIOUS
  <2> QED BY <1>1, <2>1, HasLeast
<1>3. n \in 1..(b + 1) /\ n - 1 \in 0..b /\ n - 1 \in 0..(b + 1)
  BY <1>2
<1>4. n - 1 \in Some
  BY <1>2, <1>3
<1> QED BY <1>2, <1>3, <1>4

-------------------------------------------------------------------------------
\* Sums in an int.

\* What div and mod are, for the steps below.
LEMMA DivMod ==
  ASSUME NEW a \in Int, NEW m \in Nat \ {0}
  PROVE  a = m * (a \div m) + (a % m) /\ a % m \in 0..(m - 1) /\ a \div m \in Int
OBVIOUS

\* The rest of a division is determined.
LEMMA SameRest ==
  ASSUME NEW m \in Nat \ {0}, NEW u \in Int, NEW v \in Int,
         NEW r \in 0..(m - 1), NEW s \in 0..(m - 1), m * u + r = m * v + s
  PROVE  r = s
<1>1. m * (u - v) = s - r /\ m * (v - u) = r - s
  OBVIOUS
<1>2. u - v >= 1 => m * (u - v) >= m
  OBVIOUS
<1>3. v - u >= 1 => m * (v - u) >= m
  OBVIOUS
<1>4. u = v => r = s
  OBVIOUS
<1> QED BY <1>1, <1>2, <1>3, <1>4

\* A sum that wraps around at every step wraps around as a whole.
LEMMA ToIntAdd ==
  ASSUME NEW x \in Int, NEW y \in Int
  PROVE  ToInt(ToInt(x) + y) = ToInt(x + y)
<1> DEFINE m == 2 * (IntMax + 1)
<1> DEFINE half == IntMax + 1
<1>1. m \in Nat \ {0} /\ half \in Nat
  BY IntAssumption
<1>2. ToInt(x) = ((x + half) % m) - half /\ ToInt(x + y) = ((x + y + half) % m) - half
  BY IntAssumption DEF ToInt
<1> DEFINE r == (x + half) % m
<1>3. ToInt(ToInt(x) + y) = ((r - half + y + half) % m) - half
  BY <1>2, IntAssumption DEF ToInt
<1> HIDE DEF m, half
<1> DEFINE q == (x + half) \div m
<1>4. x + half = m * q + r /\ r \in Int /\ q \in Int
  <2>1. x + half \in Int
    BY <1>1
  <2> QED BY <1>1, <2>1, DivMod
<1> HIDE DEF r, q
<1>5. r - half + y + half = r + y
  BY <1>1, <1>4
<1> DEFINE t == (r + y) % m
<1> DEFINE p == (r + y) \div m
<1>6. r + y = m * p + t /\ t \in 0..(m - 1) /\ p \in Int
  <2>1. r + y \in Int
    BY <1>4
  <2> QED BY <1>1, <2>1, DivMod
<1> DEFINE s == (x + y + half) % m
<1> DEFINE v == (x + y + half) \div m
<1>7. x + y + half = m * v + s /\ s \in 0..(m - 1) /\ v \in Int
  <2>1. x + y + half \in Int
    BY <1>1
  <2> QED BY <1>1, <2>1, DivMod
<1> HIDE DEF t, p, s, v
<1>8. m * (q + p) + t = m * v + s /\ q + p \in Int
  BY <1>1, <1>4, <1>6, <1>7
<1>9. t = s
  BY <1>1, <1>6, <1>7, <1>8, SameRest
<1> QED BY <1>2, <1>3, <1>5, <1>9 DEF t, s

LEMMA ToIntZero == ToInt(0) = 0
<1> DEFINE m == 2 * (IntMax + 1)
<1> DEFINE half == IntMax + 1
<1>1. m \in Nat \ {0} /\ half \in 0..(m - 1)
  BY IntAssumption
<1>2. ToInt(0) = (half % m) - half
  BY IntAssumption DEF ToInt
<1> HIDE DEF m, half
<1>3. half = m * (half \div m) + (half % m) /\ half % m \in 0..(m - 1) /\ half \div m \in Int
  BY <1>1, DivMod
<1>4. half = m * 0 + half
  BY <1>1
<1>5. half % m = half
  BY <1>1, <1>3, <1>4, SameRest
<1> QED BY <1>1, <1>2, <1>5

-------------------------------------------------------------------------------
\* The chunks of a file.

\* Where the chunk behind the first a units ends.
NextCut(a) == a + Smaller(file.cut[a + 1], file.len - a)

LEMMA CutWithin ==
  ASSUME file \in Files, NEW a \in Nat, a < file.len
  PROVE  NextCut(a) \in Nat /\ a < NextCut(a) /\ NextCut(a) <= file.len
<1>1. file.len \in Nat /\ file.cut \in [1..file.len -> 1..MaxChunk] /\ MaxChunk \in Nat
  BY PipelineAssumption
<1>2. file.cut[a + 1] \in 1..MaxChunk
  BY <1>1
<1> QED BY <1>1, <1>2 DEF NextCut, Smaller

\* The recursion of ChunksFrom is defined at every unit: each entry needs only
\* entries further on.
LEMMA ChunksFromAt ==
  ASSUME file \in Files
  PROVE  /\ ChunksFrom(file)[file.len + 1] = <<>>
         /\ \A a \in Nat : a < file.len =>
              ChunksFrom(file)[a + 1]
                = <<Units(a + 1, NextCut(a))>> \o ChunksFrom(file)[NextCut(a) + 1]
<1> DEFINE len == file.len
<1> DEFINE Size(i) == Smaller(file.cut[i], file.len - i + 1)
<1> DEFINE Entry(g, i) == IF i > file.len THEN <<>>
                          ELSE <<Units(i, i + Size(i) - 1)>> \o g[i + Size(i)]
<1> DEFINE Up(g, n) == [i \in (len + 1 - n)..(len + 1) |-> Entry(g, i)]
<1> DEFINE Built == {n \in Nat : n <= len => \E g : g = Up(g, n)}
<1>1. len \in Nat /\ file.cut \in [1..len -> 1..MaxChunk] /\ MaxChunk \in Nat
  BY PipelineAssumption
<1>2. \A i \in 1..len : Size(i) \in Nat /\ Size(i) >= 1 /\ i + Size(i) <= len + 1
  <2> TAKE i \in 1..len
  <2>1. file.cut[i] \in 1..MaxChunk
    BY <1>1
  <2> QED BY <1>1, <2>1 DEF Smaller
<1> HIDE DEF len, Size
<1>3. 0 \in Built
  <2> DEFINE g == [i \in {len + 1} |-> <<>>]
  <2>1. (len + 1 - 0)..(len + 1) = {len + 1} /\ len + 1 > len
    BY <1>1
  <2>2. g = Up(g, 0)
    BY <2>1 DEF len
  <2> QED BY <2>2
<1>4. ASSUME NEW n \in 0..len, n \in Built PROVE n + 1 \in Built
  <2> SUFFICES ASSUME n + 1 <= len PROVE \E g : g = Up(g, n + 1)
    BY <1>1
  <2>1. PICK g : g = Up(g, n)
    BY <1>1, <1>4
  <2> DEFINE low == len + 1 - n
  <2> DEFINE h == [i \in (low - 1)..(len + 1) |-> IF i >= low THEN g[i] ELSE Entry(g, i)]
  <2>2. n \in Nat /\ low \in Int /\ low >= 2 /\ low <= len + 1 /\ len + 1 - (n + 1) = low - 1
    BY <1>1
  <2>3. \A i \in low..(len + 1) : g[i] = Entry(g, i)
    BY <2>1
  <2> HIDE DEF low
  <2>4. ASSUME NEW i \in (low - 1)..(len + 1) PROVE Entry(h, i) = Entry(g, i)
    <3>1. CASE i > len
      BY <3>1 DEF len
    <3>2. CASE ~(i > len)
      <4>1. i \in 1..len
        BY <1>1, <2>2, <3>2
      <4>2. Size(i) \in Nat /\ Size(i) >= 1 /\ i + Size(i) <= len + 1
        BY <1>2, <4>1
      <4>3. i + Size(i) \in (low - 1)..(len + 1) /\ i + Size(i) >= low
        BY <1>1, <2>2, <4>1, <4>2
      <4>4. h[i + Size(i)] = g[i + Size(i)]
        BY <4>3
      <4> HIDE DEF h
      <4> QED BY <4>4
    <3> QED BY <3>1, <3>2
  <2>5. \A i \in (low - 1)..(len + 1) : h[i] = Entry(g, i)
    <3> TAKE i \in (low - 1)..(len + 1)
    <3>1. i >= low => i \in low..(len + 1)
      BY <1>1, <2>2
    <3> HIDE DEF Entry
    <3> QED BY <2>3, <3>1
  <2>6. h = [i \in (low - 1)..(len + 1) |-> h[i]]
    OBVIOUS
  <2> HIDE DEF h, Entry
  <2>7. h = [i \in (low - 1)..(len + 1) |-> Entry(h, i)]
    BY <2>4, <2>5, <2>6
  <2>8. h = Up(h, n + 1)
    BY <2>2, <2>7
  <2> QED BY <2>8
<1>5. len \in Built
  <2> HIDE DEF Built
  <2>1. \A n \in 0..(len + 1) : n \in Built
    BY <1>1, <1>3, <1>4, Reached
  <2> QED BY <1>1, <2>1
<1> DEFINE Whole(g) == [i \in 1..(file.len + 1) |-> Entry(g, i)]
<1>6. \E g : g = Whole(g)
  <2>1. PICK g : g = Up(g, len)
    BY <1>1, <1>5
  <2>2. len + 1 - len = 1
    BY <1>1
  <2>3. g = Whole(g)
    BY <2>1, <2>2 DEF len
  <2> QED BY <2>3
<1> DEFINE from == ChunksFrom(file)
<1>7. from = CHOOSE g : g = Whole(g)
  BY DEF ChunksFrom, Size
<1>8. from = Whole(from)
  <2> HIDE DEF Whole, from
  <2> QED BY <1>6, <1>7
<1> HIDE DEF from
<1>9. \A i \in 1..(file.len + 1) : from[i] = Entry(from, i)
  BY <1>8
<1>10. from[file.len + 1] = <<>>
  <2>1. file.len + 1 \in 1..(file.len + 1) /\ file.len + 1 > file.len
    BY <1>1 DEF len
  <2>2. Entry(from, file.len + 1) = <<>>
    BY <2>1
  <2> HIDE DEF Entry
  <2> QED BY <1>9, <2>1, <2>2
<1>11. ASSUME NEW a \in Nat, a < file.len
       PROVE  from[a + 1] = <<Units(a + 1, NextCut(a))>> \o from[NextCut(a) + 1]
  <2>1. a + 1 \in 1..(file.len + 1) /\ ~(a + 1 > file.len) /\ a + 1 \in 1..file.len
    BY <1>1, <1>11 DEF len
  <2>2. from[a + 1] = <<Units(a + 1, (a + 1) + Size(a + 1) - 1)>> \o from[(a + 1) + Size(a + 1)]
    BY <1>9, <2>1
  <2>3. Size(a + 1) \in Nat
    BY <1>2, <2>1 DEF len
  <2>4. Size(a + 1) = Smaller(file.cut[a + 1], file.len - a)
    <3>1. file.len - (a + 1) + 1 = file.len - a
      BY <1>1 DEF len
    <3> QED BY <3>1 DEF Size
  <2>5. NextCut(a) = a + Size(a + 1)
    BY <2>4 DEF NextCut
  <2>6. (a + 1) + Size(a + 1) - 1 = NextCut(a) /\ (a + 1) + Size(a + 1) = NextCut(a) + 1
    BY <2>3, <2>5
  <2> QED BY <2>2, <2>6
<1> QED BY <1>10, <1>11 DEF from

\* The chunks from a unit on are a sequence of sequences of units.
LEMMA ChunksTyped ==
  ASSUME file \in Files, NEW a \in Nat, a <= file.len
  PROVE  ChunksFrom(file)[a + 1] \in Seq(Seq(Nat))
<1> DEFINE len == file.len
<1> DEFINE Typed == {n \in Nat : \A b \in Nat : b <= len /\ len - b <= n =>
                                  ChunksFrom(file)[b + 1] \in Seq(Seq(Nat))}
<1>1. len \in Nat
  BY PipelineAssumption
<1>2. ChunksFrom(file)[len + 1] \in Seq(Seq(Nat))
  <2>1. ChunksFrom(file)[len + 1] = <<>>
    BY ChunksFromAt
  <2>2. <<>> \in Seq(Seq(Nat))
    OBVIOUS
  <2> QED BY <2>1, <2>2
<1>3. 0 \in Typed
  <2>1. ASSUME NEW b \in Nat, b <= len, len - b <= 0
        PROVE  ChunksFrom(file)[b + 1] \in Seq(Seq(Nat))
    <3>1. b = len
      BY <1>1, <2>1
    <3> QED BY <1>2, <3>1
  <2> QED BY <2>1
<1>4. ASSUME NEW n \in 0..len, n \in Typed PROVE n + 1 \in Typed
  <2>1. ASSUME NEW b \in Nat, b <= len, len - b <= n + 1
        PROVE  ChunksFrom(file)[b + 1] \in Seq(Seq(Nat))
    <3>1. CASE b = len
      BY <1>2, <3>1
    <3>2. CASE b # len
      <4>1. b < file.len
        BY <1>1, <2>1, <3>2
      <4>2. NextCut(b) \in Nat /\ b < NextCut(b) /\ NextCut(b) <= file.len
        BY <4>1, CutWithin
      <4>3. len - NextCut(b) <= n /\ NextCut(b) <= len
        BY <1>1, <2>1, <4>2
      <4>4. ChunksFrom(file)[NextCut(b) + 1] \in Seq(Seq(Nat))
        BY <1>4, <4>2, <4>3
      <4>5. Units(b + 1, NextCut(b)) \in Seq(Nat)
        BY <4>2, UnitsAre
      <4>6. ChunksFrom(file)[b + 1]
              = <<Units(b + 1, NextCut(b))>> \o ChunksFrom(file)[NextCut(b) + 1]
        BY <4>1, ChunksFromAt
      <4> QED BY <4>4, <4>5, <4>6
    <3> QED BY <3>1, <3>2
  <2>2. n + 1 \in Nat
    BY <1>1
  <2> QED BY <2>1, <2>2
<1>5. len \in Typed
  <2> HIDE DEF Typed
  <2>1. \A n \in 0..(len + 1) : n \in Typed
    BY <1>1, <1>3, <1>4, Reached
  <2> QED BY <1>1, <2>1
<1>6. len - a <= len
  BY <1>1
<1> QED BY <1>5, <1>6

-------------------------------------------------------------------------------
\* Where the units of the file are.

\* What the pieces of the queues, of the recipe and of the whole stream are to
\* their ends: a piece <<x, a, b>> is x with the units behind a up to b.
Blocks == {x \in Passed \X Nat \X Nat : x[2] <= x[3] /\ x[1].data = Units(x[2] + 1, x[3])}

Cuts ==
  {x \in Passed \X Nat \X Nat :
     IF x[1].flag = "NORMAL"
     THEN x[2] < file.len /\ x[3] = NextCut(x[2]) /\ x[1].data = Units(x[2] + 1, x[3])
     ELSE x[3] = x[2]}

Hashes == {x \in Cuts : x[1].flag = "NORMAL" => x[1].fp = x[1].data}

Chunks ==
  {x \in Seq(Nat) \X Nat \X Nat :
     x[2] < file.len /\ x[3] = NextCut(x[2]) /\ x[1] = Units(x[2] + 1, x[3])}

Slices == {x \in Seq(Nat) \X Nat \X Nat : x[2] <= x[3] /\ x[1] = Units(x[2] + 1, x[3])}

\* The entries of the recipe the index does not know.
Fresh == {i \in DOMAIN file_recipe : file_recipe[i][1] \notin file.known}

Left == SubSeq(ChunksOf(file), Len(file_recipe) + 1, Len(ChunksOf(file)))

\* dedup has had the first d units.
RecipeAt(d) ==
  /\ d <= file.len
  /\ Line(Chunks, file_recipe, 0, d)
  /\ Left = ChunksFrom(file)[d + 1]
  /\ jcr.data_size = ToInt(d)
  /\ jcr.chunk_num = ToInt(Len(file_recipe))
  /\ jcr.unique_chunk_num = ToInt(Cardinality(Fresh))
  /\ Fresh = DOMAIN file_recipe => jcr.unique_data_size = jcr.data_size

\* The hash thread has handed on the first h units and taken the first k.
HandAt(h, k) == IF pc["hash"] = "forward" THEN <<hand, h, k>> \in Hashes ELSE k = h

\* The chunk thread has cut the first w units.
WindowAt(w) == \A i \in 1..rest_size : block_buf[buf_off + i] = w + i

Places(d, h, k, w) ==
  /\ RecipeAt(d)
  /\ Line(Hashes, hq, d, h)
  /\ HandAt(h, k)
  /\ Line(Cuts, cq, k, w)
  /\ WindowAt(w)
  /\ Line(Blocks, rq, w + rest_size, pos)

\* At every moment there are four places in the file, how far dedup, hash (handed
\* on and taken) and chunk have come, and each stage holds what is between two.
StreamInv ==
  /\ file_recipe \in Seq(Seq(Nat))
  /\ ReadDone => pos = file.len
  /\ \E d, h, k, w \in Nat : Places(d, h, k, w)

\* The sets of pieces stay with the file.
LEMMA PiecesStay ==
  ASSUME file' = file
  PROVE  /\ Blocks' = Blocks /\ Cuts' = Cuts /\ Hashes' = Hashes /\ Chunks' = Chunks
         /\ \A a : NextCut(a)' = NextCut(a)
BY DEF Blocks, Cuts, Hashes, Chunks, NextCut, Passed, NormalItem

\* Nothing reaches the recipe.
LEMMA RecipeStays ==
  ASSUME UNCHANGED <<file, file_recipe>>, NEW d \in Nat, RecipeAt(d),
         \A f \in {"data_size", "chunk_num", "unique_chunk_num", "unique_data_size"} : jcr'[f] = jcr[f]
  PROVE  RecipeAt(d)'
<1>1. Chunks' = Chunks
  BY PiecesStay
<1>2. Left' = Left /\ ChunksFrom(file)' = ChunksFrom(file) /\ Fresh' = Fresh
  BY DEF Left, ChunksOf, ChunksFrom, Fresh
<1>3. Line(Chunks, file_recipe, 0, d)'
  BY <1>1 DEF RecipeAt, Line
<1>4. /\ jcr'.data_size = jcr.data_size /\ jcr'.chunk_num = jcr.chunk_num
      /\ jcr'.unique_chunk_num = jcr.unique_chunk_num
      /\ jcr'.unique_data_size = jcr.unique_data_size
  OBVIOUS
<1> QED BY <1>2, <1>3, <1>4 DEF RecipeAt

\* At first all of the file is still to be read.
LEMMA StreamInit == ASSUME Init PROVE StreamInv
<1>1. rq = <<>> /\ cq = <<>> /\ hq = <<>>
  BY DEF Init, rq, cq, hq, Q
<1>2. pc["read"] = "none" /\ pc["hash"] = "none"
  BY DEF Init, Threads
<1>3. file \in Files /\ file.len \in Nat /\ rest_size = 0 /\ pos = 0 /\ file_recipe = <<>>
      /\ jcr = init_jcr
  BY PipelineAssumption DEF Init
<1>4. RecipeAt(0)
  <2>1. Line(Chunks, file_recipe, 0, 0)
    BY <1>3, LineEmpty
  <2>2. Fresh = {} /\ Cardinality(Fresh) = 0 /\ Len(file_recipe) = 0
    BY <1>3, FS_EmptySet DEF Fresh
  <2>3. Left = ChunksFrom(file)[0 + 1]
    <3>1. ChunksFrom(file)[0 + 1] \in Seq(Seq(Nat)) /\ 0 + 1 = 1
      BY <1>3, ChunksTyped
    <3> DEFINE s == ChunksFrom(file)[1]
    <3>2. SubSeq(s, 1, Len(s)) = s
      BY <3>1
    <3> QED BY <2>2, <3>1, <3>2 DEF Left, ChunksOf
  <2>4. 0 <= file.len
    BY <1>3
  <2>5. /\ jcr.data_size = 0 /\ jcr.chunk_num = 0 /\ jcr.unique_chunk_num = 0
        /\ jcr.unique_data_size = 0
    BY <1>3 DEF init_jcr
  <2> QED BY <2>1, <2>2, <2>3, <2>4, <2>5, ToIntZero DEF RecipeAt
<1>5. Line(Hashes, hq, 0, 0) /\ Line(Cuts, cq, 0, 0) /\ Line(Blocks, rq, 0 + rest_size, pos)
  BY <1>1, <1>3, LineEmpty
<1>6. HandAt(0, 0) /\ WindowAt(0)
  BY <1>2, <1>3 DEF HandAt, WindowAt
<1>7. Places(0, 0, 0, 0) /\ 0 \in Nat
  BY <1>4, <1>5, <1>6 DEF Places
<1>8. \E d, h, k, w \in Nat : Places(d, h, k, w)
  BY <1>7
<1> QED BY <1>2, <1>3, <1>8 DEF StreamInv, ReadDone

\* Where the pieces are does not depend on what main does.
LEMMA StreamStays ==
  ASSUME StreamInv, UNCHANGED <<file, pos, block_buf, buf_off, rest_size, hand, file_recipe>>,
         \A f \in {"data_size", "chunk_num", "unique_chunk_num", "unique_data_size"} : jcr'[f] = jcr[f],
         rq' = rq, cq' = cq, hq' = hq, ReadDone' = ReadDone,
         (pc'["hash"] = "forward") = (pc["hash"] = "forward")
  PROVE  StreamInv'
<1>1. PICK d, h, k, w \in Nat : Places(d, h, k, w)
  BY DEF StreamInv
<1>2. Blocks' = Blocks /\ Cuts' = Cuts /\ Hashes' = Hashes
  BY PiecesStay
<1>3. RecipeAt(d)'
  BY <1>1, RecipeStays DEF Places
<1>4. HandAt(h, k)' /\ WindowAt(w)'
  BY <1>1, <1>2 DEF Places, HandAt, WindowAt
<1>5. Line(Hashes, hq, d, h)' /\ Line(Cuts, cq, k, w)' /\ Line(Blocks, rq, w + rest_size, pos)'
  BY <1>1, <1>2 DEF Places, Line
<1>6. Places(d, h, k, w)'
  BY <1>3, <1>4, <1>5 DEF Places
<1>7. \E dd, hh, kk, ww \in Nat : Places(dd, hh, kk, ww)'
  BY <1>6
<1> QED BY <1>7 DEF StreamInv

-------------------------------------------------------------------------------
\* Each step keeps the units in their places.

\* A mark stands for no units.
LEMMA MarkPieces ==
  ASSUME NEW a \in Nat
  PROVE  /\ <<Start, a, a>> \in Blocks /\ <<End, a, a>> \in Blocks
         /\ <<Start, a, a>> \in Cuts /\ <<End, a, a>> \in Cuts
         /\ \A b \in Nat, c \in {Start, End} : <<c, a, b>> \in Blocks => b = a
<1>1. Start \in Passed /\ End \in Passed /\ Units(a + 1, a) = <<>> /\ a <= a
  BY UnitsEmpty DEF Passed
<1>2. /\ <<Start, a, a>> \in Passed \X Nat \X Nat /\ <<End, a, a>> \in Passed \X Nat \X Nat
  BY <1>1
<1>3. <<Start, a, a>> \in Blocks /\ <<End, a, a>> \in Blocks
  BY <1>1, <1>2, Marks DEF Blocks
<1>4. <<Start, a, a>> \in Cuts /\ <<End, a, a>> \in Cuts
  <2>1. Start.flag # "NORMAL" /\ End.flag # "NORMAL"
    BY Marks
  <2> QED BY <1>2, <2>1 DEF Cuts
<1>5. ASSUME NEW b \in Nat, NEW c \in {Start, End}, <<c, a, b>> \in Blocks PROVE b = a
  <2>1. a <= b /\ <<>> = Units(a + 1, b)
    BY <1>5, Marks DEF Blocks
  <2>2. Len(Units(a + 1, b)) = b - a
    BY <2>1, UnitsAre
  <2>3. Len(<<>>) = 0
    OBVIOUS
  <2> QED BY <2>1, <2>2, <2>3
<1> QED BY <1>3, <1>4, <1>5

\* What read appends to its queue.
LEMMA ReadEffect ==
  ASSUME Inv, Read
  PROVE  /\ UNCHANGED <<file, jcr, block_buf, buf_off, rest_size, eof, hand, file_recipe, stored, report>>
         /\ cq' = cq /\ hq' = hq /\ \A u \in Threads \ {"read"} : pc'[u] = pc[u]
         /\ \E item \in Passed :
              /\ rq' = Append(rq, item)
              /\ \/ item = Start /\ pos' = pos /\ pc'["read"] = "blocks"
                 \/ /\ item = Normal(Block) /\ pos < file.len /\ pos' = pos + Len(Block)
                    /\ pc'["read"] = "blocks"
                 \/ item = End /\ pos = file.len /\ pos' = pos /\ pc'["read"] = "term"
<1>1. UNCHANGED <<file, jcr, block_buf, buf_off, rest_size, eof, hand, file_recipe, stored, report>>
  BY DEF Read, chunkVars
<1>2. PICK item, label :
        /\ Push("read", item, label) /\ pc["read"] \in {"run", "blocks"}
        /\ \/ item = Start /\ label = "blocks" /\ pos' = pos
           \/ item = Normal(Block) /\ label = "blocks" /\ pos < file.len /\ pos' = pos + Len(Block)
           \/ item = End /\ label = "term" /\ pos = file.len /\ pos' = pos
  BY DEF Read
<1>3. item \in Passed /\ label \in {"blocks", "term"}
  <2>1. Start \in Passed /\ End \in Passed
    BY DEF Passed
  <2>2. pos < file.len => Normal(Block) \in Passed
    BY BlockTyped DEF Inv, DataInv
  <2> QED BY <1>2, <2>1, <2>2
<1>4. "read_queue" \in DOMAIN queue /\ ~T("read_queue") /\ QueueInv
  BY <1>2, QueuesThere DEF Inv, ReadInv
<1>5. /\ Q("read_queue")' = Append(Q("read_queue"), item)
      /\ \A x : x # "read_queue" => Q(x)' = Q(x)
      /\ pc' = [pc EXCEPT !["read"] = label]
  BY <1>1, <1>2, <1>3, <1>4, QueueNames, PushEffect DEF Threads
<1>6. pc'["read"] = label /\ \A u \in Threads \ {"read"} : pc'[u] = pc[u]
  BY <1>3, <1>5, Moves DEF Threads, Labels
<1>7. rq' = Append(rq, item) /\ cq' = cq /\ hq' = hq
  BY <1>5 DEF rq, cq, hq
<1> QED BY <1>1, <1>2, <1>3, <1>6, <1>7

\* A block is what follows in the file.
LEMMA StreamRead == ASSUME Inv, StreamInv, Read PROVE StreamInv'
<1>1. PICK d, h, k, w \in Nat : Places(d, h, k, w)
  BY DEF StreamInv
<1>2. /\ UNCHANGED <<file, jcr, block_buf, buf_off, rest_size, eof, hand, file_recipe>>
      /\ cq' = cq /\ hq' = hq /\ pc'["hash"] = pc["hash"]
  BY ReadEffect DEF Threads
<1>3. PICK item \in Passed :
        /\ rq' = Append(rq, item)
        /\ \/ item = Start /\ pos' = pos /\ pc'["read"] = "blocks"
           \/ /\ item = Normal(Block) /\ pos < file.len /\ pos' = pos + Len(Block)
              /\ pc'["read"] = "blocks"
           \/ item = End /\ pos = file.len /\ pos' = pos /\ pc'["read"] = "term"
  BY ReadEffect
<1>4. file \in Files /\ file.len \in Nat /\ pos \in Nat /\ pos \in 0..file.len /\ BlockSize \in Nat \ {0}
  BY PipelineAssumption DEF Inv, DataInv
<1>5. <<item, pos, pos'>> \in Blocks /\ pos' \in Nat
  <2>1. CASE item \in {Start, End} /\ pos' = pos
    BY <1>4, <2>1, MarkPieces
  <2>2. CASE item = Normal(Block) /\ pos < file.len /\ pos' = pos + Len(Block)
    <3> DEFINE last == Smaller(pos + BlockSize, file.len)
    <3>1. last \in Nat /\ pos < last
      BY <1>4, <2>2 DEF Smaller
    <3>2. Block = Units(pos + 1, last)
      BY DEF Block
    <3> HIDE DEF last
    <3>3. Len(Block) = last - pos
      BY <1>4, <3>1, <3>2, UnitsAre
    <3>4. pos' = last
      BY <1>4, <2>2, <3>1, <3>3
    <3>5. item.data = Block
      BY <2>2 DEF Normal, Chunk
    <3> QED BY <1>4, <3>1, <3>2, <3>4, <3>5 DEF Blocks
  <2> QED BY <1>3, <2>1, <2>2
<1>6. Line(Blocks, rq', w + rest_size, pos')
  <2>1. rq \in Seq(Passed)
    BY QueuesTyped DEF Inv
  <2>2. Line(Blocks, rq, w + rest_size, pos)
    BY <1>1 DEF Places
  <2> QED BY <1>3, <1>5, <2>1, <2>2, LineAppend
<1>7. Blocks' = Blocks /\ Cuts' = Cuts /\ Hashes' = Hashes
  BY <1>2, PiecesStay
<1>8. RecipeAt(d)'
  BY <1>1, <1>2, RecipeStays DEF Places
<1>9. HandAt(h, k)' /\ WindowAt(w)'
  BY <1>1, <1>2, <1>7 DEF Places, HandAt, WindowAt
<1>10. Line(Hashes, hq, d, h)' /\ Line(Cuts, cq, k, w)' /\ Line(Blocks, rq, w + rest_size, pos)'
  BY <1>1, <1>2, <1>6, <1>7 DEF Places, Line
<1>11. Places(d, h, k, w)'
  BY <1>8, <1>9, <1>10 DEF Places
<1>12. ReadDone' => pos' = file'.len
  BY <1>2, <1>3 DEF ReadDone
<1>13. \E dd, hh, kk, ww \in Nat : Places(dd, hh, kk, ww)'
  BY <1>11
<1> QED BY <1>2, <1>12, <1>13 DEF StreamInv

\* chunk does not touch what is before and behind it.
LEMMA StreamOfChunk ==
  ASSUME StreamInv, NEW d \in Nat, NEW h \in Nat, NEW k \in Nat, NEW w \in Nat,
         RecipeAt(d), Line(Hashes, hq, d, h), HandAt(h, k),
         UNCHANGED <<file, jcr, pos, hand, file_recipe>>, hq' = hq,
         pc'["hash"] = pc["hash"], pc'["read"] = pc["read"],
         Line(Cuts, cq', k, w), WindowAt(w)', Line(Blocks, rq', w + rest_size', pos)
  PROVE  StreamInv'
<1>1. Blocks' = Blocks /\ Cuts' = Cuts /\ Hashes' = Hashes
  BY PiecesStay
<1>2. RecipeAt(d)'
  BY RecipeStays
<1>3. HandAt(h, k)'
  BY <1>1 DEF HandAt
<1>4. Line(Hashes, hq, d, h)' /\ Line(Cuts, cq, k, w)' /\ Line(Blocks, rq, w + rest_size, pos)'
  BY <1>1 DEF Line
<1>5. Places(d, h, k, w)'
  BY <1>2, <1>3, <1>4 DEF Places
<1>6. \E dd, hh, kk, ww \in Nat : Places(dd, hh, kk, ww)'
  BY <1>5
<1> QED BY <1>6 DEF StreamInv, ReadDone

\* chunk takes FILE_START, which holds nothing.
LEMMA StreamChunkStart == ASSUME Inv, StreamInv, ChunkStart PROVE StreamInv'
<1>1. PICK d, h, k, w \in Nat : Places(d, h, k, w)
  BY DEF StreamInv
<1>2. /\ pc["chunk"] = "run" /\ Pop("chunk")
      /\ UNCHANGED <<file, jcr, pos, block_buf, buf_off, rest_size, hand, file_recipe>>
      /\ pc'["hash"] = pc["hash"] /\ pc'["read"] = pc["read"]
  BY DEF ChunkStart, chunkVars, Goto, Inv, PcInv, Threads
<1>3. /\ cq' = cq /\ hq' = hq
      /\ \/ /\ rq # <<>> /\ rq \in Seq(Passed) /\ rq' = Tail(rq)
         \/ rq = <<>> /\ rq' = <<>>
  BY <1>2, ChunkPops
<1>4. Line(Blocks, rq', w + rest_size, pos)
  <2>1. CASE rq = <<>>
    <3>1. rq' = rq
      BY <1>3, <2>1
    <3> QED BY <1>1, <3>1 DEF Places
  <2>2. CASE rq # <<>>
    <3>1. rq \in Seq(Passed) /\ rq' = Tail(rq) /\ rq[1] = Start
      BY <1>2, <1>3, <2>2 DEF Inv, ReadInv
    <3>2. PICK x \in Nat : <<rq[1], w + rest_size, x>> \in Blocks /\ Line(Blocks, rq', x, pos)
      BY <1>1, <2>2, <3>1, LineTail DEF Places
    <3>3. w + rest_size \in Nat
      BY DEF Inv, WindowInv
    <3>4. x = w + rest_size
      BY <3>1, <3>2, <3>3, MarkPieces
    <3> QED BY <3>2, <3>4
  <2> QED BY <2>1, <2>2
<1>5. WindowAt(w)'
  BY <1>1, <1>2 DEF Places, WindowAt
<1> QED BY <1>1, <1>2, <1>3, <1>4, <1>5, StreamOfChunk DEF Places

\* A block goes behind the rest of the last ones in the order of the file.
LEMMA RefilledInOrder ==
  ASSUME Inv, NEW w \in Nat, WindowAt(w), NEW data \in Seq(1..file.len), NEW x \in Nat,
         rest_size < MaxChunk, Len(data) <= BlockSize,
         w + rest_size <= x, data = Units((w + rest_size) + 1, x)
  PROVE  /\ w + (rest_size + Len(data)) = x
         /\ \A i \in 1..(rest_size + Len(data)) : Refilled(data)[0 + i] = w + i
<1> DEFINE room == BlockSize + MaxChunk
<1> DEFINE moved == Moved(block_buf, buf_off, rest_size)
<1> DEFINE new == Refilled(data)
<1>1. /\ BlockSize \in Nat /\ MaxChunk \in Nat /\ Len(data) \in Nat
      /\ rest_size \in Nat /\ buf_off \in Nat /\ buf_off + rest_size <= room
      /\ DOMAIN block_buf = 1..room /\ w + rest_size \in Nat
  BY PipelineAssumption DEF Inv, WindowInv
<1>2. /\ Len(data) = x - (w + rest_size) /\ DOMAIN data = 1..(x - (w + rest_size))
      /\ \A i \in 1..(x - (w + rest_size)) : data[i] = (w + rest_size) + i
  BY <1>1, UnitsAre
<1>3. w + (rest_size + Len(data)) = x
  BY <1>1, <1>2
<1>4. moved = [i \in 1..room |-> IF i <= rest_size THEN block_buf[buf_off + i] ELSE block_buf[i]]
  BY <1>1 DEF Moved
<1>5. DOMAIN moved = 1..room
  BY <1>4
<1> HIDE DEF moved, room
<1>6. new = [i \in 1..room |->
               IF i - rest_size \in DOMAIN data THEN data[i - rest_size] ELSE moved[i]]
  BY <1>5 DEF Refilled, Copied, moved
<1> HIDE DEF new
<1>7. ASSUME NEW i \in 1..(rest_size + Len(data)) PROVE new[0 + i] = w + i
  <2>1. i \in 1..room /\ 0 + i = i
    BY <1>1 DEF room
  <2>2. CASE i <= rest_size
    <3>1. i - rest_size \notin DOMAIN data /\ i \in 1..rest_size
      BY <1>1, <1>2, <2>2
    <3>2. new[i] = block_buf[buf_off + i]
      BY <1>4, <1>6, <2>1, <2>2, <3>1
    <3> QED BY <2>1, <3>1, <3>2 DEF WindowAt
  <2>3. CASE ~(i <= rest_size)
    <3>1. i - rest_size \in DOMAIN data /\ (w + rest_size) + (i - rest_size) = w + i
      BY <1>1, <1>2, <2>3
    <3>2. new[i] = data[i - rest_size]
      BY <1>6, <2>1, <3>1
    <3> QED BY <1>2, <2>1, <3>1, <3>2
  <2> QED BY <2>2, <2>3
<1> QED BY <1>3, <1>7 DEF new

\* What chunk does with what it takes.
LEMMA ChunkFillEffect ==
  ASSUME Inv, ChunkFill
  PROVE  /\ UNCHANGED <<file, jcr, pos, hand, file_recipe, stored, report>>
         /\ cq' = cq /\ hq' = hq /\ \A u \in Threads \ {"chunk"} : pc'[u] = pc[u]
         /\ rest_size < MaxChunk /\ rq # <<>> /\ rq \in Seq(Passed) /\ rq' = Tail(rq)
         /\ \/ rq[1] = End /\ UNCHANGED <<block_buf, buf_off, rest_size>>
            \/ /\ rq[1] \in NormalItem /\ Len(rq[1].data) <= BlockSize
               /\ block_buf' = Refilled(rq[1].data) /\ buf_off' = 0
               /\ rest_size' = rest_size + Len(rq[1].data)
<1> DEFINE c == Item("chunk")
<1>1. /\ pc["chunk"] = "first" \/ (pc["chunk"] = "loop" /\ Filling)
      /\ Pop("chunk")
      /\ UNCHANGED <<file, jcr, pos, hand, file_recipe, stored, report>>
      /\ pc' = [pc EXCEPT !["chunk"] = IF c = NULL THEN "abort" ELSE "loop"]
      /\ IF c \in {NULL, End}
         THEN UNCHANGED <<block_buf, buf_off, rest_size>>
         ELSE /\ block_buf' = Refilled(c.data)
              /\ buf_off' = 0 /\ rest_size' = rest_size + Len(c.data)
  BY DEF ChunkFill, Goto
<1>2. ~eof /\ rest_size < MaxChunk
  <2>1. CASE pc["chunk"] = "first"
    <3>1. ~eof /\ rest_size = 0 /\ MaxChunk \in Nat \ {0}
      BY <2>1, PipelineAssumption DEF Inv, ReadInv, WindowInv
    <3> QED BY <3>1
  <2> QED BY <1>1, <2>1 DEF Filling
<1>3. ~ChunkMet
  BY <1>1, <1>2 DEF ChunkMet
<1>4. /\ cq' = cq /\ hq' = hq
      /\ rq # <<>> /\ rq \in Seq(Passed) /\ c = rq[1] /\ rq[1] \in Passed
      /\ rq' = Tail(rq) /\ 1 \in 1..Len(rq)
  <2>1. ReadDone => rq # <<>>
    BY <1>3 DEF Inv, ReadInv, EndsWith
  <2> QED BY <1>1, <2>1, ChunkPops
<1>5. rq[1] # Start /\ rq[1] # NULL
  <2>1. rq[1] # Start
    BY <1>1, <1>4 DEF Inv, ReadInv
  <2>2. NULL \notin Passed
    BY DEF NULL, Passed, Start, End, Chunk, NormalItem
  <2> QED BY <1>4, <2>1, <2>2
<1>6. \A u \in Threads \ {"chunk"} : pc'[u] = pc[u]
  BY <1>1 DEF Inv, PcInv
<1>7. Len(rq[1].data) <= BlockSize
  BY <1>4 DEF Inv, WindowInv
<1> HIDE DEF c
<1> QED BY <1>1, <1>2, <1>4, <1>5, <1>6, <1>7 DEF Passed

\* A block moves from read_queue into the window.
LEMMA StreamChunkFill == ASSUME Inv, StreamInv, ChunkFill PROVE StreamInv'
<1>1. PICK d, h, k, w \in Nat : Places(d, h, k, w)
  BY DEF StreamInv
<1>2. /\ UNCHANGED <<file, jcr, pos, hand, file_recipe>>
      /\ cq' = cq /\ hq' = hq /\ pc'["hash"] = pc["hash"] /\ pc'["read"] = pc["read"]
      /\ rest_size < MaxChunk /\ rq # <<>> /\ rq \in Seq(Passed) /\ rq' = Tail(rq)
  BY ChunkFillEffect DEF Threads
<1>3. PICK x \in Nat : <<rq[1], w + rest_size, x>> \in Blocks /\ Line(Blocks, rq', x, pos)
  BY <1>1, <1>2, LineTail DEF Places
<1>4. w + rest_size \in Nat
  BY DEF Inv, WindowInv
<1>5. WindowAt(w)' /\ w + rest_size' = x
  <2>1. CASE rq[1] = End /\ UNCHANGED <<block_buf, buf_off, rest_size>>
    <3>1. x = w + rest_size
      BY <1>3, <1>4, <2>1, MarkPieces
    <3> QED BY <1>1, <2>1, <3>1 DEF Places, WindowAt
  <2>2. CASE /\ rq[1] \in NormalItem /\ Len(rq[1].data) <= BlockSize
             /\ block_buf' = Refilled(rq[1].data) /\ buf_off' = 0
             /\ rest_size' = rest_size + Len(rq[1].data)
    <3> DEFINE data == rq[1].data
    <3>1. data \in Seq(1..file.len)
      BY <2>2 DEF NormalItem
    <3>2. w + rest_size <= x /\ data = Units((w + rest_size) + 1, x)
      BY <1>3 DEF Blocks
    <3>3. /\ block_buf' = Refilled(data) /\ buf_off' = 0 /\ rest_size' = rest_size + Len(data)
          /\ Len(data) <= BlockSize
      BY <2>2
    <3> HIDE DEF data
    <3>4. /\ w + (rest_size + Len(data)) = x
          /\ \A i \in 1..(rest_size + Len(data)) : Refilled(data)[0 + i] = w + i
      BY <1>1, <1>2, <3>1, <3>2, <3>3, RefilledInOrder DEF Places
    <3> QED BY <3>3, <3>4 DEF WindowAt
  <2> QED BY <2>1, <2>2, ChunkFillEffect
<1>6. Line(Cuts, cq', k, w) /\ Line(Blocks, rq', w + rest_size', pos)
  BY <1>1, <1>2, <1>3, <1>5 DEF Places
<1> QED BY <1>1, <1>2, <1>5, <1>6, StreamOfChunk DEF Places

\* What chunk hands on goes behind what is in its queue.
LEMMA ChunkPushes ==
  ASSUME Inv, NEW item \in Passed, NEW label \in Labels, pc["chunk"] \in {"forward", "loop"},
         Push("chunk", item, label), file' = file
  PROVE  /\ cq' = Append(cq, item) /\ rq' = rq /\ hq' = hq /\ cq \in Seq(Passed)
         /\ pc'["chunk"] = label /\ \A u \in Threads \ {"chunk"} : pc'[u] = pc[u]
<1>1. "chunk_queue" \in DOMAIN queue /\ ~T("chunk_queue") /\ QueueInv
  BY QueuesThere DEF Inv, EndInv
<1>2. /\ Q("chunk_queue")' = Append(Q("chunk_queue"), item)
      /\ \A x : x # "chunk_queue" => Q(x)' = Q(x)
      /\ pc' = [pc EXCEPT !["chunk"] = label]
  BY <1>1, QueueNames, PushEffect DEF Threads
<1>3. pc'["chunk"] = label /\ \A u \in Threads \ {"chunk"} : pc'[u] = pc[u]
  BY <1>2, Moves DEF Threads
<1> QED BY <1>1, <1>2, <1>3, QueuesTyped DEF rq, cq, hq

\* A cut ends where it would if all of the file were in view: the longest chunk
\* is in the window, or the rest of the file is.
LEMMA CutInOrder ==
  ASSUME Inv, StreamInv, NEW w \in Nat, WindowAt(w), Line(Blocks, rq, w + rest_size, pos),
         pc["chunk"] = "loop", ~Filling, rest_size > 0
  PROVE  /\ w < file.len /\ ChunkSize \in 1..rest_size /\ w + ChunkSize = NextCut(w)
         /\ Normal(SubSeq(block_buf, buf_off + 1, buf_off + ChunkSize)) \in Passed
         /\ SubSeq(block_buf, buf_off + 1, buf_off + ChunkSize) = Units(w + 1, w + ChunkSize)
<1> DEFINE n == ChunkSize
<1> DEFINE data == SubSeq(block_buf, buf_off + 1, buf_off + n)
<1>1. /\ BlockSize \in Nat /\ MaxChunk \in Nat /\ file.len \in Nat /\ file \in Files
      /\ file.cut \in [1..file.len -> 1..MaxChunk]
      /\ rest_size \in Nat /\ buf_off \in Nat
      /\ buf_off + rest_size <= BlockSize + MaxChunk
      /\ block_buf \in [1..(BlockSize + MaxChunk) -> 0..file.len]
  BY PipelineAssumption DEF Inv, WindowInv, DataInv
<1>2. \A i \in 1..rest_size : block_buf[buf_off + i] = w + i
  BY DEF WindowAt
<1>3. block_buf[buf_off + 1] = w + 1 /\ w + rest_size <= file.len /\ w < file.len
  <2>1. 1 \in 1..rest_size /\ rest_size \in 1..rest_size /\ buf_off + rest_size \in 1..(BlockSize + MaxChunk)
    BY <1>1
  <2>2. block_buf[buf_off + 1] = w + 1 /\ block_buf[buf_off + rest_size] = w + rest_size
    BY <1>2, <2>1
  <2>3. block_buf[buf_off + rest_size] \in 0..file.len
    BY <1>1, <2>1
  <2> QED BY <1>1, <2>2, <2>3
<1>4. file.cut[w + 1] \in 1..MaxChunk
  BY <1>1, <1>3
<1>5. rest_size >= MaxChunk \/ w + rest_size = file.len
  <2>1. CASE eof
    <3>1. ReadDone /\ rq = <<>>
      BY <2>1 DEF Inv, ReadInv
    <3>2. pos = file.len /\ Line(Blocks, <<>>, w + rest_size, pos)
      BY <3>1 DEF StreamInv
    <3> QED BY <3>2, LineOver
  <2>2. CASE ~eof
    BY <1>1, <2>2 DEF Filling
  <2> QED BY <2>1, <2>2
<1>6. n = Smaller(file.cut[w + 1], rest_size)
  BY <1>3 DEF ChunkSize
<1>7. n = Smaller(file.cut[w + 1], file.len - w) /\ n \in 1..rest_size
  <2> DEFINE m == file.cut[w + 1]
  <2> DEFINE len == file.len
  <2>1. /\ m \in Nat /\ 1 <= m /\ m <= MaxChunk /\ len \in Nat
        /\ n = IF m <= rest_size THEN m ELSE rest_size
    <3>1. m \in 1..MaxChunk /\ MaxChunk \in Nat /\ len \in Nat
      BY <1>1, <1>4
    <3>2. n = IF m <= rest_size THEN m ELSE rest_size
      BY <1>6 DEF Smaller
    <3> HIDE DEF m, len, n
    <3> QED BY <3>1, <3>2
  <2>2. w + rest_size <= len /\ (rest_size >= MaxChunk \/ w + rest_size = len)
    BY <1>3, <1>5
  <2> HIDE DEF m, len, n
  <2>3. (n = IF m <= len - w THEN m ELSE len - w) /\ n \in 1..rest_size
    BY <1>1, <2>1, <2>2
  <2> QED BY <2>3 DEF m, len, Smaller
<1>8. w + n = NextCut(w)
  BY <1>7 DEF NextCut
<1> HIDE DEF n
<1>9. data = [i \in 1..n |-> w + i]
  <2>1. data = [i \in 1..((buf_off + n) - (buf_off + 1) + 1) |-> block_buf[i + (buf_off + 1) - 1]]
    BY <1>1, <1>7
  <2>2. (buf_off + n) - (buf_off + 1) + 1 = n
    BY <1>1, <1>7
  <2>3. \A i \in 1..n : i + (buf_off + 1) - 1 = buf_off + i /\ i \in 1..rest_size
    BY <1>1, <1>7
  <2> HIDE DEF data
  <2> QED BY <1>2, <2>1, <2>2, <2>3
<1> HIDE DEF data
<1>10. data = Units(w + 1, w + n) /\ n \in Nat
  BY <1>7, <1>9, AreUnits
<1>11. data \in Seq(1..file.len)
  <2>1. \A i \in 1..n : w + i \in 1..file.len
    BY <1>1, <1>3, <1>7
  <2> QED BY <1>9, <1>10, <2>1
<1>12. Normal(data) \in Passed
  BY <1>11 DEF Normal, Chunk, NormalItem, Passed
<1> QED BY <1>3, <1>7, <1>8, <1>10, <1>12 DEF n, data

\* A chunk moves from the front of the window to chunk_queue.
LEMMA StreamChunkCut == ASSUME Inv, StreamInv, ChunkCut PROVE StreamInv'
<1> DEFINE item == Normal(SubSeq(block_buf, buf_off + 1, buf_off + ChunkSize))
<1>1. PICK d, h, k, w \in Nat : Places(d, h, k, w)
  BY DEF StreamInv
<1>2. /\ pc["chunk"] = "loop" /\ ~Filling /\ rest_size > 0 /\ Push("chunk", item, "loop")
      /\ rest_size' = rest_size - ChunkSize /\ buf_off' = buf_off + ChunkSize
      /\ UNCHANGED <<file, jcr, pos, block_buf, hand, file_recipe>>
  BY DEF ChunkCut
<1>3. PICK n \in Nat :
        /\ n = ChunkSize /\ w < file.len /\ n \in 1..rest_size /\ w + n = NextCut(w)
        /\ item \in Passed
        /\ SubSeq(block_buf, buf_off + 1, buf_off + n) = Units(w + 1, w + n)
  <2>1. /\ w < file.len /\ ChunkSize \in 1..rest_size /\ w + ChunkSize = NextCut(w)
        /\ item \in Passed
        /\ SubSeq(block_buf, buf_off + 1, buf_off + ChunkSize) = Units(w + 1, w + ChunkSize)
    BY <1>1, <1>2, CutInOrder DEF Places
  <2> QED BY <2>1
<1>4. item.data = Units(w + 1, w + n) /\ item.flag = "NORMAL"
  BY <1>3 DEF Normal, Chunk
<1> HIDE DEF item
<1>5. /\ cq' = Append(cq, item) /\ rq' = rq /\ hq' = hq /\ cq \in Seq(Passed)
      /\ pc'["hash"] = pc["hash"] /\ pc'["read"] = pc["read"]
  BY <1>2, <1>3, ChunkPushes DEF Labels, Threads
<1>6. rest_size \in Nat /\ buf_off \in Nat /\ w + n \in Nat
  BY <1>3 DEF Inv, WindowInv
<1>7. <<item, w, w + n>> \in Cuts
  BY <1>3, <1>4, <1>6 DEF Cuts
<1>8. Line(Cuts, cq', k, w + n)
  BY <1>1, <1>5, <1>6, <1>7, LineAppend DEF Places
<1>9. WindowAt(w + n)'
  <2>1. ASSUME NEW i \in 1..(rest_size - n) PROVE block_buf[(buf_off + n) + i] = (w + n) + i
    <3>1. n + i \in 1..rest_size /\ (buf_off + n) + i = buf_off + (n + i) /\ (w + n) + i = w + (n + i)
      BY <1>3, <1>6
    <3> QED BY <1>1, <3>1 DEF Places, WindowAt
  <2> QED BY <1>2, <1>3, <2>1 DEF WindowAt
<1>10. (w + n) + rest_size' = w + rest_size
  BY <1>2, <1>3, <1>6
<1>11. Line(Blocks, rq', (w + n) + rest_size', pos)
  BY <1>1, <1>5, <1>10 DEF Places
<1>12. RecipeAt(d) /\ Line(Hashes, hq, d, h) /\ HandAt(h, k)
  BY <1>1 DEF Places
<1>13. UNCHANGED <<file, jcr, pos, hand, file_recipe>>
  BY <1>2
<1> QED BY <1>5, <1>6, <1>8, <1>9, <1>11, <1>12, <1>13, StreamOfChunk

\* Marks are handed on between chunks.
LEMMA StreamChunkForward == ASSUME Inv, StreamInv, ChunkForward PROVE StreamInv'
<1>1. PICK d, h, k, w \in Nat : Places(d, h, k, w)
  BY DEF StreamInv
<1>2. UNCHANGED <<file, jcr, pos, block_buf, rest_size, hand, file_recipe>>
  BY DEF ChunkForward
<1>3. PICK item \in {Start, End}, label \in Labels :
         /\ pc["chunk"] \in {"forward", "loop"} /\ Push("chunk", item, label)
         /\ UNCHANGED buf_off \/ rest_size = 0
  BY DEF ChunkForward, Labels
<1>4. item \in Passed /\ <<item, w, w>> \in Cuts
  BY MarkPieces DEF Passed
<1>5. /\ cq' = Append(cq, item) /\ rq' = rq /\ hq' = hq /\ cq \in Seq(Passed)
      /\ pc'["hash"] = pc["hash"] /\ pc'["read"] = pc["read"]
  BY <1>2, <1>3, <1>4, ChunkPushes DEF Threads
<1>6. Line(Cuts, cq', k, w)
  BY <1>1, <1>4, <1>5, LineAppend DEF Places
<1>7. WindowAt(w)'
  BY <1>1, <1>2, <1>3 DEF Places, WindowAt
<1>8. Line(Blocks, rq', w + rest_size', pos)
  BY <1>1, <1>2, <1>5 DEF Places
<1> QED BY <1>1, <1>2, <1>5, <1>6, <1>7, <1>8, StreamOfChunk DEF Places

\* hash gives what it has taken its fingerprint and hands it on.
LEMMA HashPopEffect ==
  ASSUME Inv, HashPop
  PROVE  /\ UNCHANGED <<file, jcr, pos, block_buf, buf_off, rest_size, file_recipe>>
         /\ rq' = rq /\ hq' = hq /\ pc["hash"] = "run" /\ pc'["read"] = pc["read"]
         /\ \/ /\ cq # <<>> /\ cq \in Seq(Passed) /\ cq' = Tail(cq) /\ cq[1] \in Passed
               /\ pc'["hash"] = "forward" /\ hand' = Hashed(cq[1])
            \/ cq' = cq /\ pc'["hash"] = "term"
<1> DEFINE c == Item("hash")
<1>1. /\ pc["hash"] = "run" /\ Pop("hash")
      /\ IF c = NULL THEN Goto("hash", "term") ELSE Goto("hash", "forward") /\ hand' = Hashed(c)
      /\ UNCHANGED <<file, jcr, pos, block_buf, buf_off, rest_size, file_recipe>>
  BY DEF HashPop, chunkVars
<1>2. "chunk_queue" \in DOMAIN queue /\ QueueInv
  BY <1>1, QueuesThere DEF Inv
<1>3. /\ \A x : x # "chunk_queue" => Q(x)' = Q(x)
      /\ \/ /\ Q("chunk_queue") # <<>> /\ Q("chunk_queue") \in Seq(Passed)
            /\ c = Q("chunk_queue")[1] /\ c \in Passed /\ c # NULL
            /\ Q("chunk_queue")' = Tail(Q("chunk_queue"))
         \/ /\ Q("chunk_queue") = <<>> /\ c = NULL
            /\ Q("chunk_queue")' = <<>>
  BY <1>1, <1>2, QueueNames, PopEffect
<1> HIDE DEF c
<1>4. /\ pc'["read"] = pc["read"]
      /\ pc'["hash"] = IF c = NULL THEN "term" ELSE "forward"
  BY <1>1 DEF Inv, PcInv, Goto, Threads
<1> QED BY <1>1, <1>3, <1>4 DEF rq, cq, hq

\* A chunk moves into the hand of hash.
LEMMA StreamHashPop == ASSUME Inv, StreamInv, HashPop PROVE StreamInv'
<1>1. PICK d, h, k, w \in Nat : Places(d, h, k, w)
  BY DEF StreamInv
<1>2. /\ UNCHANGED <<file, jcr, pos, block_buf, buf_off, rest_size, file_recipe>>
      /\ rq' = rq /\ hq' = hq /\ pc["hash"] = "run" /\ pc'["read"] = pc["read"]
  BY HashPopEffect
<1>3. Blocks' = Blocks /\ Cuts' = Cuts /\ Hashes' = Hashes
  BY <1>2, PiecesStay
<1>4. RecipeAt(d)' /\ WindowAt(w)' /\ k = h
  BY <1>1, <1>2, RecipeStays DEF Places, WindowAt, HandAt
<1>5. \E x \in Nat : HandAt(h, x)' /\ Line(Cuts, cq', x, w)
  <2>1. CASE cq' = cq /\ pc'["hash"] = "term"
    <3>1. HandAt(h, k)'
      BY <1>4, <2>1 DEF HandAt
    <3> QED BY <1>1, <2>1, <3>1 DEF Places
  <2>2. CASE /\ cq # <<>> /\ cq \in Seq(Passed) /\ cq' = Tail(cq) /\ cq[1] \in Passed
             /\ pc'["hash"] = "forward" /\ hand' = Hashed(cq[1])
    <3>1. PICK x \in Nat : <<cq[1], k, x>> \in Cuts /\ Line(Cuts, cq', x, w)
      BY <1>1, <2>2, LineTail DEF Places
    <3> DEFINE c == cq[1]
    <3>2. CASE c.flag = "NORMAL"
      <4>1. c \in NormalItem
        BY <2>2, <3>2, Marks DEF Passed
      <4>2. hand' = [c EXCEPT !.fp = c.data]
        BY <2>2, <3>2 DEF Hashed
      <4> HIDE DEF c
      <4>3. hand' \in NormalItem /\ hand'.flag = "NORMAL" /\ hand'.data = c.data /\ hand'.fp = c.data
        BY <4>1, <4>2 DEF NormalItem
      <4>4. <<hand', h, x>> \in Cuts
        BY <1>4, <3>1, <3>2, <4>3 DEF Cuts, Passed, c
      <4>5. <<hand', h, x>> \in Hashes
        BY <4>3, <4>4 DEF Hashes
      <4> QED BY <1>3, <2>2, <3>1, <4>5 DEF HandAt
    <3>3. CASE c.flag # "NORMAL"
      <4>1. hand' = c
        BY <2>2, <3>3 DEF Hashed
      <4>2. <<hand', h, x>> \in Hashes
        BY <1>4, <3>1, <3>3, <4>1 DEF Hashes
      <4> QED BY <1>3, <2>2, <3>1, <4>2 DEF HandAt
    <3> QED BY <3>2, <3>3
  <2> QED BY <2>1, <2>2, HashPopEffect
<1>6. PICK x \in Nat : HandAt(h, x)' /\ Line(Cuts, cq', x, w)
  BY <1>5
<1>7. Line(Hashes, hq, d, h)' /\ Line(Cuts, cq, x, w)' /\ Line(Blocks, rq, w + rest_size, pos)'
  BY <1>1, <1>2, <1>3, <1>6 DEF Places, Line
<1>8. Places(d, h, x, w)'
  BY <1>4, <1>6, <1>7 DEF Places
<1>9. \E dd, hh, kk, ww \in Nat : Places(dd, hh, kk, ww)'
  BY <1>8
<1> QED BY <1>2, <1>9 DEF StreamInv, ReadDone

\* The chunk in the hand moves to hash_queue.
LEMMA StreamHashForward == ASSUME Inv, StreamInv, HashForward PROVE StreamInv'
<1>1. PICK d, h, k, w \in Nat : Places(d, h, k, w)
  BY DEF StreamInv
<1>2. /\ pc["hash"] = "forward" /\ Push("hash", hand, "run") /\ hand \in Passed
      /\ UNCHANGED <<file, jcr, pos, block_buf, buf_off, rest_size, hand, file_recipe>>
  BY DEF HashForward, chunkVars, Inv, DataInv
<1>3. "hash_queue" \in DOMAIN queue /\ ~T("hash_queue") /\ QueueInv
  BY <1>2, QueuesThere DEF Inv, EndInv
<1>4. /\ Q("hash_queue")' = Append(Q("hash_queue"), hand)
      /\ \A x : x # "hash_queue" => Q(x)' = Q(x)
      /\ pc' = [pc EXCEPT !["hash"] = "run"]
  BY <1>2, <1>3, QueueNames, PushEffect DEF Threads
<1>5. /\ hq' = Append(hq, hand) /\ rq' = rq /\ cq' = cq /\ hq \in Seq(Passed)
      /\ pc'["hash"] = "run" /\ pc'["read"] = pc["read"]
  BY <1>4, QueuesTyped DEF rq, cq, hq, Inv, PcInv, Threads
<1>6. Blocks' = Blocks /\ Cuts' = Cuts /\ Hashes' = Hashes
  BY <1>2, PiecesStay
<1>7. Line(Hashes, hq', d, k)
  <2>1. <<hand, h, k>> \in Hashes /\ Line(Hashes, hq, d, h)
    BY <1>1, <1>2 DEF Places, HandAt
  <2> QED BY <1>5, <2>1, LineAppend
<1>8. RecipeAt(d)' /\ WindowAt(w)' /\ HandAt(k, k)'
  BY <1>1, <1>2, <1>5, RecipeStays DEF Places, WindowAt, HandAt
<1>9. Line(Hashes, hq, d, k)' /\ Line(Cuts, cq, k, w)' /\ Line(Blocks, rq, w + rest_size, pos)'
  BY <1>1, <1>2, <1>5, <1>6, <1>7 DEF Places, Line
<1>10. Places(d, k, k, w)'
  BY <1>8, <1>9 DEF Places
<1>11. \E dd, hh, kk, ww \in Nat : Places(dd, hh, kk, ww)'
  BY <1>10
<1> QED BY <1>2, <1>5, <1>11 DEF StreamInv, ReadDone

\* What is left of a sequence once its next element is gone.
LEMMA LeftNext ==
  \A s, r \in Seq(Seq(Nat)), n \in Nat, x \in Seq(Nat) :
    SubSeq(s, n + 1, Len(s)) = <<x>> \o r => SubSeq(s, (n + 1) + 1, Len(s)) = r
<1> SUFFICES ASSUME NEW s \in Seq(Seq(Nat)), NEW r \in Seq(Seq(Nat)), NEW n \in Nat, NEW x \in Seq(Nat),
                    SubSeq(s, n + 1, Len(s)) = <<x>> \o r
             PROVE  SubSeq(s, (n + 1) + 1, Len(s)) = r
  OBVIOUS
<1> DEFINE len == Len(s)
<1>1. len \in Nat
  OBVIOUS
<1>2. /\ Len(<<x>> \o r) = Len(r) + 1 /\ Len(r) \in Nat
      /\ \A i \in 1..Len(r) : (<<x>> \o r)[i + 1] = r[i]
  <2>1. <<x>> \in Seq(Seq(Nat)) /\ r \in Seq(Seq(Nat)) /\ Len(<<x>>) = 1
    OBVIOUS
  <2> QED BY <2>1
<1>3. /\ SubSeq(s, n + 1, len) = [i \in 1..(len - n) |-> s[i + n]]
      /\ SubSeq(s, (n + 1) + 1, len) = [i \in 1..(len - (n + 1)) |-> s[i + (n + 1)]]
  <2>1. /\ SubSeq(s, n + 1, len) = [i \in 1..(len - (n + 1) + 1) |-> s[i + (n + 1) - 1]]
        /\ SubSeq(s, (n + 1) + 1, len)
             = [i \in 1..(len - ((n + 1) + 1) + 1) |-> s[i + ((n + 1) + 1) - 1]]
    BY <1>1
  <2>2. len - (n + 1) + 1 = len - n /\ len - ((n + 1) + 1) + 1 = len - (n + 1)
    BY <1>1
  <2>3. /\ \A i \in 1..(len - n) : i + (n + 1) - 1 = i + n
        /\ \A i \in 1..(len - (n + 1)) : i + ((n + 1) + 1) - 1 = i + (n + 1)
    BY <1>1
  <2> HIDE DEF len
  <2>4. SubSeq(s, n + 1, len) = [i \in 1..(len - n) |-> s[i + (n + 1) - 1]]
    BY <2>1, <2>2
  <2>5. SubSeq(s, (n + 1) + 1, len) = [i \in 1..(len - (n + 1)) |-> s[i + ((n + 1) + 1) - 1]]
    BY <2>1, <2>2
  <2>6. [i \in 1..(len - n) |-> s[i + (n + 1) - 1]] = [i \in 1..(len - n) |-> s[i + n]]
    BY <2>3
  <2>7. [i \in 1..(len - (n + 1)) |-> s[i + ((n + 1) + 1) - 1]]
          = [i \in 1..(len - (n + 1)) |-> s[i + (n + 1)]]
    BY <2>3
  <2> QED BY <2>4, <2>5, <2>6, <2>7
<1> HIDE DEF len
<1> DEFINE rest == SubSeq(s, n + 1, len)
<1>4. DOMAIN rest = 1..(len - n)
  BY <1>3
<1>5. rest = <<x>> \o r
  BY DEF len
<1>6. len - n = Len(r) + 1
  <2>1. DOMAIN (<<x>> \o r) = 1..(Len(r) + 1)
    BY <1>2
  <2>2. 1..(len - n) = 1..(Len(r) + 1)
    BY <1>4, <1>5, <2>1
  <2>3. Len(r) + 1 \in 1..(Len(r) + 1)
    BY <1>2
  <2>4. len - n \in Nat
    BY <1>1, <1>2, <2>2, <2>3
  <2>5. len - n \in 1..(len - n)
    BY <1>1, <1>2, <2>2, <2>3, <2>4
  <2> QED BY <1>1, <1>2, <2>2, <2>3, <2>5
<1>7. \A i \in 1..Len(r) : r[i] = s[i + (n + 1)]
  <2> TAKE i \in 1..Len(r)
  <2>1. i + 1 \in 1..(len - n) /\ (i + 1) + n = i + (n + 1)
    BY <1>2, <1>6
  <2>2. rest[i + 1] = s[i + (n + 1)]
    BY <1>3, <2>1
  <2> HIDE DEF rest
  <2> QED BY <1>2, <1>5, <2>2
<1>8. r = [i \in 1..Len(r) |-> r[i]] /\ len - (n + 1) = Len(r)
  BY <1>1, <1>2, <1>6
<1>9. SubSeq(s, (n + 1) + 1, len) = r
  BY <1>3, <1>7, <1>8
<1> QED BY <1>9 DEF len

\* The recipe gets one entry more, known to the index or not.
LEMMA FreshGrows ==
  ASSUME file_recipe \in Seq(Seq(Nat)), NEW fp \in Seq(Nat),
         file_recipe' = Append(file_recipe, fp), file' = file
  PROVE  /\ Len(file_recipe) \in Nat /\ Len(file_recipe') = Len(file_recipe) + 1
         /\ Cardinality(Fresh) \in Nat
         /\ fp[1] \notin file.known =>
              /\ Cardinality(Fresh') = Cardinality(Fresh) + 1
              /\ Fresh' = DOMAIN file_recipe' => Fresh = DOMAIN file_recipe
         /\ fp[1] \in file.known => Fresh' = Fresh /\ Fresh' # DOMAIN file_recipe'
<1> DEFINE n == Len(file_recipe)
<1>1. /\ n \in Nat /\ Len(file_recipe') = n + 1 /\ DOMAIN file_recipe = 1..n
      /\ DOMAIN file_recipe' = 1..(n + 1)
      /\ file_recipe'[n + 1] = fp /\ \A i \in 1..n : file_recipe'[i] = file_recipe[i]
  OBVIOUS
<1> HIDE DEF n
<1>2. /\ Fresh = {i \in 1..n : file_recipe[i][1] \notin file.known}
      /\ Fresh' = {i \in 1..(n + 1) : file_recipe'[i][1] \notin file.known}
  BY <1>1 DEF Fresh
<1>3. 1..(n + 1) = 1..n \cup {n + 1} /\ n + 1 \notin 1..n
  BY <1>1
<1>4. Fresh \subseteq 1..n /\ IsFiniteSet(1..n)
  BY <1>1, <1>2, FS_Interval
<1>5. IsFiniteSet(Fresh) /\ Cardinality(Fresh) \in Nat
  BY <1>4, FS_Subset, FS_CardinalityType
<1>6. ASSUME fp[1] \notin file.known
      PROVE  /\ Cardinality(Fresh') = Cardinality(Fresh) + 1
             /\ Fresh' = DOMAIN file_recipe' => Fresh = DOMAIN file_recipe
  <2>1. Fresh' = Fresh \cup {n + 1} /\ n + 1 \notin Fresh
    BY <1>1, <1>2, <1>3, <1>6
  <2>2. Cardinality(Fresh') = Cardinality(Fresh) + 1
    BY <1>5, <2>1, FS_AddElement
  <2>3. ASSUME Fresh' = DOMAIN file_recipe' PROVE Fresh = DOMAIN file_recipe
    BY <1>1, <1>3, <1>4, <2>1, <2>3
  <2> QED BY <2>2, <2>3
<1>7. ASSUME fp[1] \in file.known PROVE Fresh' = Fresh /\ Fresh' # DOMAIN file_recipe'
  <2>1. Fresh' = Fresh
    BY <1>1, <1>2, <1>3, <1>7
  <2> QED BY <1>1, <1>3, <1>4, <2>1
<1> QED BY <1>1, <1>5, <1>6, <1>7 DEF n

\* One chunk more has reached the recipe.
LEMMA RecipeGrows ==
  ASSUME Inv, file_recipe \in Seq(Seq(Nat)), file' = file, NEW d \in Nat, RecipeAt(d),
         NEW c, NEW x \in Nat, d < file.len, x = NextCut(d), c.data = Units(d + 1, x), c.fp = c.data,
         file_recipe' = Append(file_recipe, c.fp), jcr' = Counted(c)
  PROVE  RecipeAt(x)' /\ Left = <<c.fp>> \o Left' /\ Left' \in Seq(Seq(Nat)) /\ c.fp \in Seq(Nat)
<1> DEFINE fp == c.fp
<1>1. file \in Files /\ file.len \in Nat /\ d < x /\ x <= file.len
  BY CutWithin, PipelineAssumption DEF Inv, DataInv
<1>2. fp \in Seq(Nat) /\ Len(c.data) = x - d
  BY <1>1, UnitsAre
<1> HIDE DEF fp
<1>3. Line(Chunks, file_recipe', 0, x)
  <2>1. <<fp, d, x>> \in Chunks
    BY <1>2 DEF Chunks, fp
  <2>2. Line(Chunks, file_recipe, 0, d)
    BY DEF RecipeAt
  <2> QED BY <2>1, <2>2, LineAppend DEF fp
<1>4. Line(Chunks, file_recipe, 0, x)'
  BY <1>3, PiecesStay DEF Line
<1>5. Left' = ChunksFrom(file)[x + 1] /\ Left = <<fp>> \o ChunksFrom(file)[x + 1]
      /\ ChunksFrom(file)[x + 1] \in Seq(Seq(Nat))
  <2> DEFINE s == ChunksOf(file)
  <2> DEFINE n == Len(file_recipe)
  <2> DEFINE r == ChunksFrom(file)[x + 1]
  <2>1. s \in Seq(Seq(Nat)) /\ r \in Seq(Seq(Nat))
    <3>1. 0 + 1 = 1 /\ 0 <= file.len
      BY <1>1
    <3>2. ChunksFrom(file)[0 + 1] \in Seq(Seq(Nat))
      BY <1>1, <3>1, ChunksTyped
    <3> QED BY <1>1, <3>1, <3>2, ChunksTyped DEF ChunksOf
  <2>2. Left = <<fp>> \o r
    BY <1>1, ChunksFromAt DEF RecipeAt, fp
  <2>3. n \in Nat /\ Len(file_recipe') = n + 1
    BY <1>2 DEF fp
  <2>4. SubSeq(s, n + 1, Len(s)) = <<fp>> \o r
    BY <2>2 DEF Left
  <2>5. Left' = SubSeq(s, (n + 1) + 1, Len(s))
    <3>1. ChunksOf(file)' = s
      BY DEF ChunksOf, ChunksFrom
    <3> HIDE DEF s, n
    <3>2. Left' = SubSeq(ChunksOf(file)', Len(file_recipe') + 1, Len(ChunksOf(file)'))
      BY DEF Left
    <3> QED BY <2>3, <3>1, <3>2
  <2> HIDE DEF s, n, r
  <2>6. SubSeq(s, (n + 1) + 1, Len(s)) = r
    <3>1. \A ss, rr \in Seq(Seq(Nat)), nn \in Nat, xx \in Seq(Nat) :
            SubSeq(ss, nn + 1, Len(ss)) = <<xx>> \o rr => SubSeq(ss, (nn + 1) + 1, Len(ss)) = rr
      BY LeftNext
    <3> QED BY <1>2, <2>1, <2>3, <2>4, <3>1
  <2>7. Left' = r
    BY ONLY <2>5, <2>6
  <2> QED BY <2>1, <2>2, <2>7 DEF r
<1>6. Left' = ChunksFrom(file')[x + 1]
  BY <1>5
<1>7. /\ jcr'.chunk_num = ToInt(jcr.chunk_num + 1)
      /\ jcr'.data_size = ToInt(jcr.data_size + Len(c.data))
      /\ jcr'.unique_chunk_num = (IF Unique(c) THEN ToInt(jcr.unique_chunk_num + 1)
                                  ELSE jcr.unique_chunk_num)
      /\ jcr'.unique_data_size = (IF Unique(c) THEN ToInt(jcr.unique_data_size + Len(c.data))
                                  ELSE jcr.unique_data_size)
  BY CountedFields
<1>8. /\ jcr.data_size = ToInt(d) /\ jcr.chunk_num = ToInt(Len(file_recipe))
      /\ jcr.unique_chunk_num = ToInt(Cardinality(Fresh))
      /\ Fresh = DOMAIN file_recipe => jcr.unique_data_size = jcr.data_size
  BY DEF RecipeAt
<1>9. /\ Len(file_recipe) \in Nat /\ Len(file_recipe') = Len(file_recipe) + 1
      /\ Cardinality(Fresh) \in Nat
      /\ fp[1] \notin file.known =>
           /\ Cardinality(Fresh') = Cardinality(Fresh) + 1
           /\ Fresh' = DOMAIN file_recipe' => Fresh = DOMAIN file_recipe
      /\ fp[1] \in file.known => Fresh' = Fresh /\ Fresh' # DOMAIN file_recipe'
  BY <1>2, FreshGrows DEF fp
<1>10. jcr'.data_size = ToInt(x) /\ jcr'.chunk_num = ToInt(Len(file_recipe'))
  <2>1. d + Len(c.data) = x /\ Len(c.data) \in Int
    BY ONLY <1>1, <1>2, d \in Nat, x \in Nat
  <2>2. jcr'.data_size = ToInt(x)
    BY <1>7, <1>8, <2>1, ToIntAdd
  <2>3. jcr'.chunk_num = ToInt(Len(file_recipe) + 1)
    BY <1>7, <1>8, <1>9, ToIntAdd
  <2> QED BY <1>9, <2>2, <2>3
<1>11. /\ jcr'.unique_chunk_num = ToInt(Cardinality(Fresh'))
       /\ Fresh' = DOMAIN file_recipe' => jcr'.unique_data_size = jcr'.data_size
  <2>1. CASE Unique(c)
    <3>1. fp[1] \notin file.known
      BY <2>1 DEF Unique, fp
    <3>2. jcr'.unique_chunk_num = ToInt(ToInt(Cardinality(Fresh)) + 1)
      BY <1>7, <1>8, <2>1
    <3>3. jcr'.unique_chunk_num = ToInt(Cardinality(Fresh) + 1)
      BY <1>9, <3>2, ToIntAdd
    <3> QED BY <1>7, <1>8, <1>9, <2>1, <3>1, <3>3
  <2>2. CASE ~Unique(c)
    <3>1. fp[1] \in file.known
      BY <2>2 DEF Unique, fp
    <3> QED BY <1>7, <1>8, <1>9, <2>2, <3>1
  <2> QED BY <2>1, <2>2
<1>12. RecipeAt(x)'
  BY <1>1, <1>4, <1>6, <1>10, <1>11 DEF RecipeAt
<1> QED BY <1>2, <1>5, <1>12 DEF fp

\* A chunk moves into the recipe.
LEMMA StreamDedupPop == ASSUME Inv, StreamInv, DedupPop PROVE StreamInv'
<1>1. PICK d, h, k, w \in Nat : Places(d, h, k, w)
  BY DEF StreamInv
<1>2. /\ UNCHANGED <<file, pos, block_buf, buf_off, rest_size, hand>>
      /\ rq' = rq /\ cq' = cq /\ pc'["hash"] = pc["hash"] /\ pc'["read"] = pc["read"]
      /\ hq # <<>> /\ hq \in Seq(Passed) /\ hq[1] \in Passed /\ hq' = Tail(hq)
      /\ IF hq[1].flag = "NORMAL"
         THEN file_recipe' = Append(file_recipe, hq[1].fp) /\ jcr' = Counted(hq[1])
         ELSE UNCHANGED <<file_recipe, jcr>>
  BY DedupPopEffect DEF Threads
<1>3. PICK x \in Nat : <<hq[1], d, x>> \in Hashes /\ Line(Hashes, hq', x, h)
  BY <1>1, <1>2, LineTail DEF Places
<1>4. RecipeAt(x)' /\ file_recipe' \in Seq(Seq(Nat))
  <2>1. CASE hq[1].flag = "NORMAL"
    <3> DEFINE c == hq[1]
    <3>1. d < file.len /\ x = NextCut(d) /\ c.data = Units(d + 1, x) /\ c.fp = c.data
      BY <1>3, <2>1 DEF Hashes, Cuts
    <3>2. file_recipe' = Append(file_recipe, c.fp) /\ jcr' = Counted(c)
      BY <1>2, <2>1
    <3>3. file_recipe \in Seq(Seq(Nat)) /\ RecipeAt(d) /\ file' = file
      BY <1>1, <1>2 DEF StreamInv, Places
    <3> HIDE DEF c
    <3>4. RecipeAt(x)' /\ c.fp \in Seq(Nat)
      BY <3>1, <3>2, <3>3, RecipeGrows
    <3> QED BY <3>2, <3>3, <3>4
  <2>2. CASE hq[1].flag # "NORMAL"
    <3>1. UNCHANGED <<file, file_recipe, jcr>> /\ x = d
      BY <1>2, <1>3, <2>2 DEF Hashes, Cuts
    <3> QED BY <1>1, <3>1, RecipeStays DEF Places, StreamInv
  <2> QED BY <2>1, <2>2
<1>5. Blocks' = Blocks /\ Cuts' = Cuts /\ Hashes' = Hashes
  BY <1>2, PiecesStay
<1>6. HandAt(h, k)' /\ WindowAt(w)'
  BY <1>1, <1>2, <1>5 DEF Places, HandAt, WindowAt
<1>7. Line(Hashes, hq, x, h)' /\ Line(Cuts, cq, k, w)' /\ Line(Blocks, rq, w + rest_size, pos)'
  BY <1>1, <1>2, <1>3, <1>5 DEF Places, Line
<1>8. Places(x, h, k, w)'
  BY <1>4, <1>6, <1>7 DEF Places
<1>9. \E dd, hh, kk, ww \in Nat : Places(dd, hh, kk, ww)'
  BY <1>8
<1> QED BY <1>2, <1>4, <1>9 DEF StreamInv, ReadDone

\* Sleeping and waking move nothing.
LEMMA StreamQuiet == ASSUME StreamInv, Quiet PROVE StreamInv'
<1>1. rq' = rq /\ cq' = cq /\ hq' = hq
  BY DEF Quiet, rq, cq, hq
<1>2. UNCHANGED <<file, pc, jcr, pos, block_buf, buf_off, rest_size, hand, file_recipe>>
  BY DEF Quiet, chunkVars
<1> QED BY <1>1, <1>2, StreamStays DEF ReadDone

\* Every step keeps the units in order.
LEMMA StreamNext == Inv /\ StreamInv /\ [Next]_vars => StreamInv'
<1> SUFFICES ASSUME Inv, StreamInv, [Next]_vars PROVE StreamInv'
  OBVIOUS
<1>1. ASSUME NEW t \in {"read", "chunk", "hash", "dedup"}, Sleep(t) PROVE StreamInv'
  <2>1. InPush(t) => Out[t] \in DOMAIN queue
    BY QueueNames, QueuesThere DEF InPush
  <2>2. InPop(t) => In[t] \in DOMAIN queue
    BY QueueNames, QueuesThere DEF InPop
  <2>3. t \in Threads /\ QueueInv
    BY DEF Threads, Inv
  <2> QED BY <1>1, <2>1, <2>2, <2>3, SleepQuiet, StreamQuiet
<1>2. ASSUME NEW t \in {"read", "chunk", "hash"}, TermQueue(t) PROVE StreamInv'
  <2>1. /\ UNCHANGED <<file, jcr, pos, block_buf, buf_off, rest_size, hand, file_recipe>>
        /\ rq' = rq /\ cq' = cq /\ hq' = hq
        /\ \A u \in {"main", "read", "chunk", "hash", "dedup"} :
             pc'[u] = pc[u] \/ (u = t /\ pc[u] = "term" /\ pc'[u] = "end")
    BY <1>2, TermEffect
  <2>2. ReadDone' = ReadDone /\ (pc'["hash"] = "forward") = (pc["hash"] = "forward")
    BY <2>1 DEF ReadDone
  <2> QED BY <2>1, <2>2, StreamStays
<1>3. CASE SpuriousWakeup
  BY <1>3, WakeQuiet, StreamQuiet DEF Inv
<1>4. CASE UNCHANGED vars \/ StopPhases
  <2>1. /\ UNCHANGED <<file, queue, jcr, pos, block_buf, buf_off, rest_size, hand, file_recipe>>
        /\ pc'["hash"] = pc["hash"] /\ pc'["read"] = pc["read"]
    BY <1>4 DEF vars, StopPhases, chunkVars, Goto, Inv, PcInv, Threads
  <2>2. rq' = rq /\ cq' = cq /\ hq' = hq
    BY <2>1 DEF rq, cq, hq, Q
  <2> QED BY <2>1, <2>2, StreamStays DEF ReadDone
<1>5. CASE StartPhases
  <2>1. /\ UNCHANGED <<file, pos, block_buf, buf_off, rest_size, hand, file_recipe>>
        /\ \A x : Q(x)' = Q(x)
        /\ \A u \in {"read", "chunk", "hash", "dedup"} :
             pc'[u] = pc[u] \/ (pc[u] = "none" /\ pc'[u] = "run")
        /\ jcr' = jcr \/ jcr' = [jcr EXCEPT !.status = "RUNNING"]
    BY <1>5, StartEffect
  <2>2. rq' = rq /\ cq' = cq /\ hq' = hq
    BY <2>1 DEF rq, cq, hq
  <2>3. \A f \in {"data_size", "chunk_num", "unique_chunk_num", "unique_data_size"} : jcr'[f] = jcr[f]
    BY <2>1 DEF Inv, DataInv
  <2>4. ReadDone' = ReadDone /\ (pc'["hash"] = "forward") = (pc["hash"] = "forward")
    BY <2>1 DEF ReadDone
  <2> QED BY <2>1, <2>2, <2>3, <2>4, StreamStays
<1>6. CASE DedupFinish
  <2>1. /\ UNCHANGED <<file, queue, pos, block_buf, buf_off, rest_size, hand, file_recipe>>
        /\ jcr' = jcr \/ jcr' = [jcr EXCEPT !.status = "DONE"]
        /\ pc'["hash"] = pc["hash"] /\ pc'["read"] = pc["read"]
    BY <1>6 DEF DedupFinish, chunkVars, Goto, Inv, PcInv, Threads
  <2>2. rq' = rq /\ cq' = cq /\ hq' = hq
    BY <2>1 DEF rq, cq, hq, Q
  <2>3. \A f \in {"data_size", "chunk_num", "unique_chunk_num", "unique_data_size"} : jcr'[f] = jcr[f]
    BY <2>1 DEF Inv, DataInv
  <2> QED BY <2>1, <2>2, <2>3, StreamStays DEF ReadDone
<1>7. CASE ReadThread
  BY <1>1, <1>2, <1>7, StreamRead DEF ReadThread
<1>8. CASE ChunkThread
  BY <1>1, <1>2, <1>8, StreamChunkStart, StreamChunkFill, StreamChunkCut, StreamChunkForward
     DEF ChunkThread
<1>9. CASE HashThread
  BY <1>1, <1>2, <1>9, StreamHashPop, StreamHashForward DEF HashThread
<1>10. CASE DedupThread
  BY <1>1, <1>6, <1>10, StreamDedupPop DEF DedupThread
<1> QED BY <1>3, <1>4, <1>5, <1>7, <1>8, <1>9, <1>10 DEF Next, Main

LEMMA StreamAlways == Spec => []StreamInv
<1>1. Init => StreamInv
  BY StreamInit
<1> QED BY <1>1, StreamNext, InvAlways, PTL DEF Spec

-------------------------------------------------------------------------------
\* What was read, piece by piece.

\* The data of what is handed on.
Plain(s) == [i \in DOMAIN s |-> s[i].data]

\* The data of a queue are pieces of units.
LEMMA PlainTyped ==
  ASSUME file \in Files, NEW s \in Seq(Passed)
  PROVE  Plain(s) \in Seq(Seq(Nat)) /\ Len(Plain(s)) = Len(s) /\ Len(s) \in Nat
         /\ \A i \in 1..Len(s) : s[i] \in Passed /\ Plain(s)[i] = s[i].data /\ s[i].data \in Seq(Nat)
<1>1. Len(s) \in Nat /\ DOMAIN s = 1..Len(s) /\ \A i \in 1..Len(s) : s[i] \in Passed
  OBVIOUS
<1>2. file.len \in Nat /\ Seq(1..file.len) \subseteq Seq(Nat)
  BY PipelineAssumption
<1>3. \A c \in Passed : c.data \in Seq(Nat)
  <2>1. \A c \in NormalItem : c.data \in Seq(1..file.len)
    BY DEF NormalItem
  <2>2. <<>> \in Seq(Nat) /\ Start.data = <<>> /\ End.data = <<>>
    BY Marks
  <2> QED BY <1>2, <2>1, <2>2 DEF Passed
<1>4. Plain(s) = [i \in 1..Len(s) |-> s[i].data]
  BY <1>1 DEF Plain
<1> QED BY <1>1, <1>3, <1>4

\* A queue that does not exist yet holds no data.
LEMMA DataPlain == \A q : Data(q) = Plain(Q(q))
<1> TAKE q
<1>1. CASE q \in DOMAIN queue
  BY <1>1 DEF Data, Plain, Q
<1>2. CASE q \notin DOMAIN queue
  <2>1. Q(q) = <<>> /\ Data(q) = <<>> /\ DOMAIN <<>> = {}
    BY <1>2 DEF Data, Q
  <2>2. Plain(<<>>) = <<>>
    BY DEF Plain
  <2> QED BY <2>1, <2>2
<1> QED BY <1>1, <1>2

\* A mark holds no units.
LEMMA MarkSlice == ASSUME NEW a \in Nat PROVE <<<<>>, a, a>> \in Slices
<1> DEFINE none == <<>>
<1>1. none = Units(a + 1, a) /\ none \in Seq(Nat) /\ a <= a
  BY UnitsEmpty
<1> HIDE DEF none
<1>2. <<none, a, a>> \in Slices
  BY <1>1 DEF Slices
<1> QED BY <1>2 DEF none

\* The cuts hold the units between their ends, marks none.
LEMMA CutSlice ==
  ASSUME file \in Files, NEW c \in Passed, NEW a \in Nat, NEW b \in Nat, <<c, a, b>> \in Cuts
  PROVE  <<c.data, a, b>> \in Slices
<1>1. CASE c.flag = "NORMAL"
  <2>1. a < file.len /\ b = NextCut(a) /\ c.data = Units(a + 1, b)
    BY <1>1 DEF Cuts
  <2>2. a <= b
    BY <2>1, CutWithin
  <2>3. c.data \in Seq(Nat)
    BY <2>1, <2>2, UnitsAre
  <2> QED BY <2>1, <2>2, <2>3 DEF Slices
<1>2. CASE c.flag # "NORMAL"
  <2>1. b = a /\ c.data = <<>>
    BY <1>2, Marks DEF Cuts, Passed
  <2> QED BY <2>1, MarkSlice
<1> QED BY <1>1, <1>2

\* All that was read, piece by piece.
LEMMA PiecesLine ==
  ASSUME Inv, StreamInv
  PROVE  Line(Slices, Pieces, 0, pos) /\ Pieces \in Seq(Seq(Nat))
<1>1. PICK d, h, k, w \in Nat : Places(d, h, k, w)
  BY DEF StreamInv
<1>2. /\ file \in Files /\ rq \in Seq(Passed) /\ cq \in Seq(Passed) /\ hq \in Seq(Passed)
      /\ file_recipe \in Seq(Seq(Nat)) /\ rest_size \in Nat /\ hand \in Passed
  BY QueuesTyped DEF Inv, DataInv, WindowInv, StreamInv
<1>3. Line(Slices, file_recipe, 0, d)
  <2>1. Line(Chunks, file_recipe, 0, d) /\ Len(file_recipe) \in Nat
    BY <1>1, <1>2 DEF Places, RecipeAt
  <2>2. \A i \in 1..Len(file_recipe) : \A x, y \in Nat :
          <<file_recipe[i], x, y>> \in Chunks => <<file_recipe[i], x, y>> \in Slices
    <3> SUFFICES ASSUME NEW i \in 1..Len(file_recipe), NEW x \in Nat, NEW y \in Nat,
                        <<file_recipe[i], x, y>> \in Chunks
                 PROVE  <<file_recipe[i], x, y>> \in Slices
      OBVIOUS
    <3>1. x < file.len /\ y = NextCut(x) /\ file_recipe[i] = Units(x + 1, y) /\ file_recipe[i] \in Seq(Nat)
      BY DEF Chunks
    <3>2. x <= y
      BY <1>2, <3>1, CutWithin
    <3> QED BY <3>1, <3>2 DEF Slices
  <2> QED BY <2>1, <2>2, LineOther
<1>4. Line(Slices, Plain(hq), d, h) /\ Plain(hq) \in Seq(Seq(Nat))
  <2>1. \A i \in 1..Len(hq) : \A x, y \in Nat :
          <<hq[i], x, y>> \in Hashes => <<Plain(hq)[i], x, y>> \in Slices
    BY <1>2, PlainTyped, CutSlice DEF Hashes
  <2>2. Line(Hashes, hq, d, h)
    BY <1>1 DEF Places
  <2> QED BY <1>2, <2>1, <2>2, PlainTyped, LineOther
<1>5. Line(Slices, Plain(cq), k, w) /\ Plain(cq) \in Seq(Seq(Nat))
  <2>1. \A i \in 1..Len(cq) : \A x, y \in Nat :
          <<cq[i], x, y>> \in Cuts => <<Plain(cq)[i], x, y>> \in Slices
    BY <1>2, PlainTyped, CutSlice
  <2>2. Line(Cuts, cq, k, w)
    BY <1>1 DEF Places
  <2> QED BY <1>2, <2>1, <2>2, PlainTyped, LineOther
<1>6. Line(Slices, Plain(rq), w + rest_size, pos) /\ Plain(rq) \in Seq(Seq(Nat))
  <2>1. \A i \in 1..Len(rq) : \A x, y \in Nat :
          <<rq[i], x, y>> \in Blocks => <<Plain(rq)[i], x, y>> \in Slices
    BY <1>2, PlainTyped DEF Blocks, Slices
  <2>2. Line(Blocks, rq, w + rest_size, pos)
    BY <1>1 DEF Places
  <2> QED BY <1>2, <2>1, <2>2, PlainTyped, LineOther
<1> DEFINE held == IF pc["hash"] = "forward" THEN <<hand.data>> ELSE <<>>
<1>7. Line(Slices, held, h, k) /\ held \in Seq(Seq(Nat))
  <2>1. CASE pc["hash"] = "forward"
    <3>1. <<hand, h, k>> \in Hashes
      BY <1>1, <2>1 DEF Places, HandAt
    <3>2. <<hand.data, h, k>> \in Slices
      BY <1>2, <3>1, CutSlice DEF Hashes
    <3>3. hand.data \in Seq(Nat)
      BY <3>2 DEF Slices
    <3>4. Line(Slices, <<>>, h, h) /\ <<>> \in Seq(Seq(Nat))
      BY LineEmpty
    <3>5. Append(<<>>, hand.data) = <<hand.data>>
      BY <3>3
    <3>6. Line(Slices, Append(<<>>, hand.data), h, k)
      BY <3>2, <3>4, LineAppend
    <3> QED BY <2>1, <3>3, <3>5, <3>6
  <2>2. CASE pc["hash"] # "forward"
    <3>1. k = h /\ held = <<>>
      BY <1>1, <2>2 DEF Places, HandAt
    <3> QED BY <3>1, LineEmpty
  <2> QED BY <2>1, <2>2
<1> DEFINE window == SubSeq(block_buf, buf_off + 1, buf_off + rest_size)
<1>8. window = Units(w + 1, w + rest_size)
  <2>1. /\ BlockSize \in Nat /\ MaxChunk \in Nat /\ buf_off \in Nat
        /\ buf_off + rest_size <= BlockSize + MaxChunk
        /\ DOMAIN block_buf = 1..(BlockSize + MaxChunk)
    BY PipelineAssumption DEF Inv, WindowInv
  <2>2. \A i \in 1..rest_size : block_buf[buf_off + i] = w + i
    BY <1>1 DEF Places, WindowAt
  <2>3. window = [i \in 1..((buf_off + rest_size) - (buf_off + 1) + 1) |-> block_buf[i + (buf_off + 1) - 1]]
    BY <1>2, <2>1
  <2>4. (buf_off + rest_size) - (buf_off + 1) + 1 = rest_size
    BY <1>2, <2>1
  <2>5. \A i \in 1..rest_size : i + (buf_off + 1) - 1 = buf_off + i
    BY <1>2, <2>1
  <2> HIDE DEF window
  <2>6. window = [i \in 1..rest_size |-> w + i]
    BY <2>2, <2>3, <2>4, <2>5
  <2> QED BY <1>2, <2>6, AreUnits
<1>9. Line(Slices, <<window>>, w, w + rest_size) /\ <<window>> \in Seq(Seq(Nat))
  <2>1. w <= w + rest_size /\ w + rest_size \in Nat
    BY <1>2
  <2>2. window \in Seq(Nat)
    BY <1>8, <2>1, UnitsAre
  <2>3. <<window, w, w + rest_size>> \in Slices
    BY <1>8, <2>1, <2>2 DEF Slices
  <2> HIDE DEF window
  <2>4. Line(Slices, <<>>, w, w) /\ <<>> \in Seq(Seq(Nat))
    BY LineEmpty
  <2>5. Append(<<>>, window) = <<window>>
    BY <2>2
  <2>6. Line(Slices, Append(<<>>, window), w, w + rest_size)
    BY <2>1, <2>3, <2>4, LineAppend
  <2> QED BY <2>2, <2>5, <2>6
<1>10. Pieces = ((((file_recipe \o Plain(hq)) \o held) \o Plain(cq)) \o <<window>>) \o Plain(rq)
  BY DataPlain DEF Pieces, hq, cq, rq
<1> HIDE DEF held, window
<1> DEFINE p1 == file_recipe \o Plain(hq)
<1> DEFINE p2 == p1 \o held
<1> DEFINE p3 == p2 \o Plain(cq)
<1> DEFINE p4 == p3 \o <<window>>
<1>11. p1 \in Seq(Seq(Nat)) /\ Line(Slices, p1, 0, h)
  BY <1>2, <1>3, <1>4, LineJoin
<1> HIDE DEF p1
<1>12. p2 \in Seq(Seq(Nat)) /\ Line(Slices, p2, 0, k)
  BY <1>7, <1>11, LineJoin
<1> HIDE DEF p2
<1>13. p3 \in Seq(Seq(Nat)) /\ Line(Slices, p3, 0, w)
  BY <1>5, <1>12, LineJoin
<1> HIDE DEF p3
<1>14. p4 \in Seq(Seq(Nat)) /\ Line(Slices, p4, 0, w + rest_size)
  <2> DEFINE one == <<window>>
  <2>1. Line(Slices, one, w, w + rest_size) /\ one \in Seq(Seq(Nat)) /\ p4 = p3 \o one
    BY <1>9
  <2> HIDE DEF one, p4
  <2> QED BY <1>13, <2>1, LineJoin
<1> HIDE DEF p4
<1>15. p4 \o Plain(rq) \in Seq(Seq(Nat)) /\ Line(Slices, p4 \o Plain(rq), 0, pos)
  BY <1>6, <1>14, LineJoin
<1> QED BY <1>10, <1>15 DEF p1, p2, p3, p4

\* Where the pieces end is what their lengths add up to.
LEMMA LineUpto ==
  ASSUME NEW s \in Seq(Seq(Nat)), NEW b, Line(Slices, s, 0, b)
  PROVE  LET upto[n \in 0..Len(s)] == IF n = 0 THEN 0 ELSE upto[n - 1] + Len(s[n])
         IN  /\ \A n \in 1..Len(s) : s[n] = Units(upto[n - 1] + 1, upto[n])
             /\ upto[Len(s)] = b
<1> DEFINE Step(g) == [n \in 0..Len(s) |-> IF n = 0 THEN 0 ELSE g[n - 1] + Len(s[n])]
<1> DEFINE upto == CHOOSE g : g = Step(g)
<1>1. PICK f \in [0..Len(s) -> Nat] :
         /\ f[0] = 0 /\ f[Len(s)] = b
         /\ \A i \in 1..Len(s) : <<s[i], f[i - 1], f[i]>> \in Slices
  BY DEF Line
<1>2. Len(s) \in Nat
  OBVIOUS
<1>3. \A n \in 1..Len(s) : /\ f[n] = f[n - 1] + Len(s[n])
                           /\ s[n] = Units(f[n - 1] + 1, f[n])
  <2> TAKE n \in 1..Len(s)
  <2>1. f[n - 1] \in Nat /\ f[n] \in Nat
    <3>1. n - 1 \in 0..Len(s) /\ n \in 0..Len(s)
      OBVIOUS
    <3> QED BY <3>1
  <2>2. f[n - 1] <= f[n] /\ s[n] = Units(f[n - 1] + 1, f[n])
    BY <1>1 DEF Slices
  <2>3. Len(s[n]) = f[n] - f[n - 1]
    BY <2>1, <2>2, UnitsAre
  <2> QED BY <2>1, <2>2, <2>3
<1>4. f = Step(f)
  <2>1. \A n \in 0..Len(s) : n # 0 => n \in 1..Len(s)
    OBVIOUS
  <2>2. f = [n \in 0..Len(s) |-> f[n]]
    OBVIOUS
  <2>3. \A n \in 0..Len(s) : f[n] = IF n = 0 THEN 0 ELSE f[n - 1] + Len(s[n])
    BY <1>1, <1>3, <2>1
  <2> QED BY <2>2, <2>3
<1>5. upto = Step(upto)
  <2> HIDE DEF Step
  <2> QED BY <1>4
<1>6. \A n \in 0..Len(s) : upto[n] = f[n]
  <2> HIDE DEF upto
  <2> DEFINE Same == {n \in Nat : n <= Len(s) => upto[n] = f[n]}
  <2>1. 0 \in Same
    <3>1. 0 \in 0..Len(s)
      BY <1>2
    <3>2. upto[0] = 0
      BY <1>5, <3>1
    <3> QED BY <1>1, <3>2
  <2>2. ASSUME NEW n \in 0..Len(s), n \in Same PROVE n + 1 \in Same
    <3> SUFFICES ASSUME n + 1 <= Len(s) PROVE upto[n + 1] = f[n + 1]
      BY <1>2
    <3>1. n + 1 \in 0..Len(s) /\ n + 1 \in 1..Len(s) /\ n + 1 # 0 /\ (n + 1) - 1 = n
      BY <1>2
    <3>2. upto[n + 1] = upto[n] + Len(s[n + 1])
      BY <1>5, <3>1
    <3>3. upto[n] = f[n]
      BY <1>2, <2>2
    <3> QED BY <1>3, <3>1, <3>2, <3>3
  <2>3. \A n \in 0..(Len(s) + 1) : n \in Same
    <3> HIDE DEF Same
    <3> QED BY <1>2, <2>1, <2>2, Reached
  <2> QED BY <1>2, <2>3
<1>7. \A n \in 1..Len(s) : s[n] = Units(upto[n - 1] + 1, upto[n])
  <2> HIDE DEF upto
  <2>1. \A n \in 1..Len(s) : n \in 0..Len(s) /\ n - 1 \in 0..Len(s)
    OBVIOUS
  <2> QED BY <1>3, <1>6, <2>1
<1>8. upto[Len(s)] = b
  <2> HIDE DEF upto
  <2> QED BY <1>1, <1>2, <1>6
<1> QED BY <1>7, <1>8

\* Whatever was read is in exactly one place, the recipe, a queue, a hand or the
\* window, and the places hold it in the order of the file: no block is lost,
\* doubled or overtaken between the threads.
THEOREM BytesInOrderHolds == Spec => []BytesInOrder
<1>1. Inv /\ StreamInv => BytesInOrder
  <2> SUFFICES ASSUME Inv, StreamInv PROVE BytesInOrder
    OBVIOUS
  <2> QED BY PiecesLine, LineUpto DEF BytesInOrder
<1> QED BY <1>1, InvAlways, StreamAlways, PTL

-------------------------------------------------------------------------------
\* The end of the job, and who may be asleep in a push.

Others == {"read", "chunk", "hash", "dedup"}

\* main is told after the save, and leaves after all the others.
MainInv ==
  /\ stored <=> pc["dedup"] \in {"status", "end"}
  /\ jcr.status = "DONE" => pc["dedup"] = "end"
  /\ pc["main"] \in {"join", "end"} => jcr.status = "DONE"
  /\ pc["main"] = "end" => report = jcr /\ \A u \in Others : pc[u] = "end"

Entered(q) == IF q \in DOMAIN queue THEN queue[q].entered ELSE {}

Pushing(t) ==
  \/ t = "read" /\ pc[t] \in {"run", "blocks"}
  \/ t = "chunk" /\ pc[t] \in {"forward", "loop"}
  \/ t = "hash" /\ pc[t] = "forward"

\* Whoever is noted in a queue as being in a push is in that push.
PushInv == \A q : \A t \in Entered(q) : t \in {"read", "chunk", "hash"} /\ Out[t] = q /\ Pushing(t)

DoneInv == MainInv /\ PushInv

\* What the threads of the file do does not tell main.
LEMMA MainStays ==
  ASSUME MainInv, UNCHANGED <<jcr, stored, report>>,
         pc'["main"] = pc["main"], pc'["dedup"] = pc["dedup"],
         \A u \in Others : pc[u] = "end" => pc'[u] = "end"
  PROVE  MainInv'
BY DEF MainInv

\* Nobody enters a push and nobody in one leaves its place.
LEMMA PushStays ==
  ASSUME PushInv, \A q : Entered(q)' \subseteq Entered(q), \A t : Pushing(t) => Pushing(t)'
  PROVE  PushInv'
BY DEF PushInv

\* A thread that returns from its push is not in it any more.
LEMMA PushEnters ==
  ASSUME Inv, PushInv, NEW t \in {"read", "chunk", "hash"}, Out[t] \in DOMAIN queue,
         NEW item, NEW label, Push(t, item, label)
  PROVE  /\ PushInv' /\ pc' = [pc EXCEPT ![t] = label]
         /\ \A u \in Threads \ {t} : pc'[u] = pc[u]
<1> DEFINE q == Out[t]
<1>1. pc' = [pc EXCEPT ![t] = label] /\ q \in DOMAIN queue
  BY DEF Push, Goto
<1>2. \A u \in Threads \ {t} : pc'[u] = pc[u]
  BY <1>1 DEF Inv, PcInv
<1>3. /\ Entered(q)' \subseteq Entered(q) \ {t}
      /\ \A x : x # q => Entered(x)' = Entered(x)
  <2>1. CASE Drops(queue[q], t)
    <3>1. queue' = queue /\ t \notin queue[q].entered
      BY <2>1 DEF Push, Drops
    <3> QED BY <1>1, <3>1 DEF Entered
  <2>2. CASE ~Drops(queue[q], t)
    <3>1. queue' = [queue EXCEPT ![q] = Pushed(queue[q], t, item)]
      BY <2>2 DEF Push
    <3>2. queue[q] \in QueueType(q)
      BY <1>1 DEF Inv, QueueInv
    <3>3. Pushed(queue[q], t, item).entered = queue[q].entered \ {t}
      BY <3>2 DEF Pushed, QueueType
    <3> HIDE DEF q
    <3> QED BY <1>1, <3>1, <3>3 DEF Entered
  <2> QED BY <2>1, <2>2
<1>4. ASSUME NEW x, NEW u \in Entered(x)'
      PROVE  u \in {"read", "chunk", "hash"} /\ Out[u] = x /\ Pushing(u)'
  <2>1. u \in Entered(x) /\ (x = q => u # t)
    BY <1>3, <1>4
  <2>2. u \in {"read", "chunk", "hash"} /\ Out[u] = x /\ Pushing(u)
    BY <2>1 DEF PushInv
  <2>3. u # t /\ u \in Threads
    BY <2>1, <2>2 DEF Threads
  <2> QED BY <1>2, <2>2, <2>3 DEF Pushing
<1> QED BY <1>1, <1>2, <1>4 DEF PushInv

\* A pop does not touch the threads in a push.
LEMMA PopEnters ==
  ASSUME Inv, NEW t, In[t] \in DOMAIN queue, Pop(t)
  PROVE  \A x : Entered(x)' = Entered(x)
<1> DEFINE q == In[t]
<1>1. CASE Gives(queue[q])
  <2>1. queue' = [queue EXCEPT ![q] = Popped(queue[q])]
    BY <1>1 DEF Pop
  <2>2. queue[q] \in QueueType(q)
    BY DEF Inv, QueueInv
  <2>3. Popped(queue[q]).entered = queue[q].entered
    BY <2>2 DEF Popped, QueueType
  <2> HIDE DEF q
  <2> QED BY <2>1, <2>3 DEF Entered
<1>2. CASE ~Gives(queue[q])
  BY <1>2 DEF Pop, Entered
<1> QED BY <1>1, <1>2

LEMMA DoneInit == ASSUME Init PROVE DoneInv
<1>1. /\ pc["main"] = "start_read" /\ pc["dedup"] = "none" /\ stored = FALSE
      /\ jcr = init_jcr /\ DOMAIN queue = {}
  BY DEF Init, Threads
<1>2. MainInv
  BY <1>1 DEF MainInv, init_jcr
<1>3. PushInv
  BY <1>1 DEF PushInv, Entered
<1> QED BY <1>2, <1>3 DEF DoneInv

LEMMA DoneRead == ASSUME Inv, DoneInv, Read PROVE DoneInv'
<1>1. UNCHANGED <<jcr, stored, report>>
  BY DEF Read
<1>2. pc["read"] \in {"run", "blocks"} /\ \E item, label : Push("read", item, label)
  BY DEF Read
<1>3. Out["read"] \in DOMAIN queue
  BY <1>2, QueueNames, QueuesThere
<1>4. PushInv' /\ \A u \in Threads \ {"read"} : pc'[u] = pc[u]
  BY <1>2, <1>3, PushEnters DEF DoneInv
<1> QED BY <1>1, <1>2, <1>4, MainStays DEF DoneInv, Threads, Others

LEMMA DoneChunk ==
  ASSUME Inv, DoneInv, ChunkStart \/ ChunkFill \/ ChunkCut \/ ChunkForward
  PROVE  DoneInv'
<1>1. /\ UNCHANGED <<jcr, stored, report>>
      /\ pc["chunk"] \in {"run", "first", "loop", "forward"}
  BY DEF ChunkStart, ChunkFill, ChunkCut, ChunkForward
<1>2. Out["chunk"] \in DOMAIN queue /\ In["chunk"] \in DOMAIN queue
  BY <1>1, QueueNames, QueuesThere
<1>3. PushInv' /\ \A u \in Threads \ {"chunk"} : pc'[u] = pc[u]
  <2>1. CASE \E item, label : Push("chunk", item, label)
    BY <1>2, <2>1, PushEnters DEF DoneInv
  <2>2. CASE /\ pc["chunk"] \in {"run", "first", "loop"} /\ Pop("chunk")
             /\ \E label : Goto("chunk", label) /\ (pc["chunk"] = "loop" => label = "loop")
    <3>1. \A x : Entered(x)' = Entered(x)
      BY <1>2, <2>2, PopEnters
    <3>2. \A u \in Threads \ {"chunk"} : pc'[u] = pc[u]
      BY <2>2 DEF Goto, Inv, PcInv
    <3>3. pc["chunk"] = "loop" => pc'["chunk"] = "loop"
      BY <2>2 DEF Goto, Inv, PcInv, Threads
    <3>4. \A t : Pushing(t) => Pushing(t)'
      BY <2>2, <3>2, <3>3 DEF Pushing, Threads
    <3> QED BY <3>1, <3>2, <3>4, PushStays DEF DoneInv
  <2>3. CASE ChunkFill
    <3>1. pc'["chunk"] # "abort"
      BY <2>3, NextKeeps DEF Next, ChunkThread, Inv, PcInv
    <3>2. \E label : Goto("chunk", label) /\ label = "loop"
      BY <2>3, <3>1 DEF ChunkFill, Goto, Inv, PcInv, Threads
    <3> QED BY <2>2, <2>3, <3>2 DEF ChunkFill
  <2>4. CASE ChunkStart
    BY <2>2, <2>4 DEF ChunkStart
  <2>5. CASE ChunkCut \/ ChunkForward
    BY <2>1, <2>5 DEF ChunkCut, ChunkForward
  <2> QED BY <2>3, <2>4, <2>5
<1> QED BY <1>1, <1>3, MainStays DEF DoneInv, Threads, Others

LEMMA DoneHash == ASSUME Inv, DoneInv, HashPop \/ HashForward PROVE DoneInv'
<1>1. UNCHANGED <<jcr, stored, report>> /\ pc["hash"] \in {"run", "forward"}
  BY DEF HashPop, HashForward
<1>2. Out["hash"] \in DOMAIN queue /\ In["hash"] \in DOMAIN queue
  BY <1>1, QueueNames, QueuesThere
<1>3. PushInv' /\ \A u \in Threads \ {"hash"} : pc'[u] = pc[u]
  <2>1. CASE HashForward
    <3>1. \E item, label : Push("hash", item, label)
      BY <2>1 DEF HashForward
    <3> QED BY <1>2, <3>1, PushEnters DEF DoneInv
  <2>2. CASE HashPop
    <3>1. pc["hash"] = "run" /\ Pop("hash") /\ \E label : Goto("hash", label)
      BY <2>2 DEF HashPop
    <3>2. \A x : Entered(x)' = Entered(x)
      BY <1>2, <3>1, PopEnters
    <3>3. \A u \in Threads \ {"hash"} : pc'[u] = pc[u]
      BY <3>1 DEF Goto, Inv, PcInv
    <3>4. \A t : Pushing(t) => Pushing(t)'
      BY <3>1, <3>3 DEF Pushing, Threads
    <3> QED BY <3>2, <3>3, <3>4, PushStays DEF DoneInv
  <2> QED BY <2>1, <2>2
<1> QED BY <1>1, <1>3, MainStays DEF DoneInv, Threads, Others

LEMMA DoneDedup == ASSUME Inv, DoneInv, DedupPop \/ DedupFinish PROVE DoneInv'
<1>1. pc["dedup"] \in {"run", "save", "status"} /\ UNCHANGED report
  BY DEF DedupPop, DedupFinish
<1>2. \A u \in Threads \ {"dedup"} : pc'[u] = pc[u]
  BY DEF DedupPop, DedupFinish, Goto, Inv, PcInv
<1>3. \A x : Entered(x)' = Entered(x)
  <2>1. CASE DedupPop
    <3>1. In["dedup"] \in DOMAIN queue /\ Pop("dedup")
      BY <2>1, QueueNames, QueuesThere DEF DedupPop
    <3> QED BY <3>1, PopEnters
  <2>2. CASE DedupFinish
    BY <2>2 DEF DedupFinish, Entered
  <2> QED BY <2>1, <2>2
<1>4. PushInv'
  BY <1>2, <1>3, PushStays DEF DoneInv, Pushing, Threads
<1>5. pc'["main"] = pc["main"] /\ jcr.status # "DONE" /\ pc["main"] \notin {"join", "end"}
  BY <1>1, <1>2 DEF DoneInv, MainInv, Threads
<1>6. MainInv'
  <2>1. CASE DedupPop
    <3>1. /\ pc["dedup"] = "run" /\ pc'["dedup"] \in {"run", "save"} /\ stored' = stored
          /\ jcr'.status = jcr.status
      BY <2>1, DedupPopEffect, CountedFields
    <3> QED BY <1>5, <3>1 DEF DoneInv, MainInv
  <2>2. CASE DedupFinish
    <3>1. \/ pc["dedup"] = "save" /\ pc'["dedup"] = "status" /\ stored' = TRUE /\ jcr' = jcr
          \/ pc["dedup"] = "status" /\ pc'["dedup"] = "end" /\ stored' = stored
      BY <2>2 DEF DedupFinish, Goto, Inv, PcInv, Threads
    <3> QED BY <1>5, <3>1 DEF DoneInv, MainInv
  <2> QED BY <2>1, <2>2
<1> QED BY <1>4, <1>6 DEF DoneInv

LEMMA DoneTerm ==
  ASSUME Inv, DoneInv, NEW t \in {"read", "chunk", "hash"}, TermQueue(t)
  PROVE  DoneInv'
<1>1. /\ UNCHANGED <<jcr, stored, report>>
      /\ \A u \in {"main", "read", "chunk", "hash", "dedup"} :
           pc'[u] = pc[u] \/ (u = t /\ pc[u] = "term" /\ pc'[u] = "end")
  BY TermEffect
<1>2. \A x : Entered(x)' = Entered(x)
  <2> DEFINE q == Out[t]
  <2>1. pc[t] = "term" /\ queue' = [queue EXCEPT ![q] = Terminated(queue[q])]
    BY DEF TermQueue
  <2>2. q \in DOMAIN queue
    BY <2>1, QueueNames, QueuesThere
  <2>3. queue[q] \in QueueType(q)
    BY <2>2 DEF Inv, QueueInv
  <2>4. Terminated(queue[q]).entered = queue[q].entered
    BY <2>3 DEF Terminated, QueueType
  <2> HIDE DEF q
  <2> QED BY <2>1, <2>4 DEF Entered
<1>3. \A u : Pushing(u) => Pushing(u)'
  BY <1>1 DEF Pushing
<1>4. PushInv'
  BY <1>2, <1>3, PushStays DEF DoneInv
<1>5. MainInv'
  BY <1>1, MainStays DEF DoneInv, Others
<1> QED BY <1>4, <1>5 DEF DoneInv

LEMMA DoneSleep ==
  ASSUME Inv, DoneInv, NEW t \in {"read", "chunk", "hash", "dedup"}, Sleep(t)
  PROVE  DoneInv'
<1>1. UNCHANGED <<pc, jcr, stored, report>>
  BY DEF Sleep, SleepPushing, SleepPopping
<1>2. MainInv' /\ \A u : Pushing(u)' = Pushing(u)
  BY <1>1 DEF MainInv, DoneInv, Pushing
<1>3. CASE InPush(t) /\ SleepPushing(t)
  <2> DEFINE q == Out[t]
  <2>1. q \in DOMAIN queue /\ t \in {"read", "chunk", "hash"} /\ Pushing(t)
    BY <1>3, QueueNames, QueuesThere DEF InPush, Pushing
  <2>2. queue' = [queue EXCEPT ![q] = SleepInPush(queue[q], t)]
    BY <1>3 DEF SleepPushing
  <2>3. queue[q] \in QueueType(q)
    BY <2>1 DEF Inv, QueueInv
  <2>4. SleepInPush(queue[q], t).entered = queue[q].entered \cup {t}
    BY <2>3 DEF SleepInPush, QueueType
  <2> HIDE DEF q
  <2>5. Entered(q)' = Entered(q) \cup {t} /\ \A x : x # q => Entered(x)' = Entered(x)
    BY <2>1, <2>2, <2>4 DEF Entered
  <2>6. PushInv'
    BY <1>2, <2>1, <2>5 DEF PushInv, DoneInv, q
  <2> QED BY <1>2, <2>6 DEF DoneInv
<1>4. CASE InPop(t) /\ SleepPopping(t)
  <2> DEFINE q == In[t]
  <2>1. q \in DOMAIN queue
    BY <1>4, QueueNames, QueuesThere DEF InPop
  <2>2. queue' = [queue EXCEPT ![q] = SleepInPop(queue[q], t)]
    BY <1>4 DEF SleepPopping
  <2>3. queue[q] \in QueueType(q)
    BY <2>1 DEF Inv, QueueInv
  <2>4. SleepInPop(queue[q], t).entered = queue[q].entered
    BY <2>3 DEF SleepInPop, QueueType
  <2> HIDE DEF q
  <2>5. \A x : Entered(x)' = Entered(x)
    BY <2>2, <2>4 DEF Entered
  <2> QED BY <1>2, <2>5, PushStays DEF DoneInv
<1> QED BY <1>3, <1>4 DEF Sleep

LEMMA DoneWake == ASSUME Inv, DoneInv, SpuriousWakeup PROVE DoneInv'
<1>1. UNCHANGED <<pc, jcr, stored, report>>
  BY DEF SpuriousWakeup
<1>2. PICK q \in DOMAIN queue, t \in Threads : queue' = [queue EXCEPT ![q] = Woken(queue[q], t)]
  BY DEF SpuriousWakeup
<1>3. queue[q] \in QueueType(q)
  BY DEF Inv, QueueInv
<1>4. Woken(queue[q], t).entered = queue[q].entered
  BY <1>3 DEF Woken, QueueType
<1>5. \A x : Entered(x)' = Entered(x)
  BY <1>2, <1>4 DEF Entered
<1> QED BY <1>1, <1>5, PushStays, MainStays DEF DoneInv, Pushing

LEMMA DoneStart == ASSUME Inv, DoneInv, StartPhases PROVE DoneInv'
<1>1. /\ UNCHANGED <<stored, report>>
      /\ \A u \in {"read", "chunk", "hash", "dedup"} :
           pc'[u] = pc[u] \/ (pc[u] = "none" /\ pc'[u] = "run")
      /\ pc["main"] \notin {"wait", "join", "end"} /\ pc'["main"] \notin {"join", "end"}
      /\ jcr' = jcr \/ jcr' = [jcr EXCEPT !.status = "RUNNING"]
  BY StartEffect
<1>2. pc["dedup"] = "none" /\ jcr.status # "DONE"
  BY <1>1 DEF DoneInv, MainInv, Inv, StartInv, PcInv
<1>3. pc'["dedup"] \in {"none", "run"} /\ jcr'.status # "DONE"
  BY <1>1, <1>2 DEF Inv, DataInv
<1>4. MainInv'
  BY <1>1, <1>2, <1>3 DEF DoneInv, MainInv
<1>5. \A x : Entered(x)' \subseteq Entered(x)
  <2>1. CASE queue' = queue
    BY <2>1 DEF Entered
  <2>2. ASSUME NEW q \in Queues, q \notin DOMAIN queue, Create(q)
        PROVE  \A x : Entered(x)' \subseteq Entered(x)
    <3>1. /\ DOMAIN queue' = DOMAIN queue \cup {q} /\ queue'[q] = New(QueueSize[q])
          /\ \A x \in DOMAIN queue : queue'[x] = queue[x]
      BY <2>2 DEF Create
    <3>2. queue'[q].entered = {}
      BY <3>1 DEF New
    <3> QED BY <3>1, <3>2 DEF Entered
  <2>3. \/ queue' = queue
        \/ pc["main"] = "start_read" /\ Create("read_queue")
        \/ pc["main"] = "start_chunk" /\ Create("chunk_queue")
        \/ pc["main"] = "start_hash" /\ Create("hash_queue")
    BY DEF StartPhases
  <2> QED BY <2>1, <2>2, <2>3 DEF Inv, StartInv, Queues
<1>6. \A t : Pushing(t) => Pushing(t)'
  BY <1>1 DEF Pushing
<1> QED BY <1>4, <1>5, <1>6, PushStays DEF DoneInv

LEMMA DoneStop == ASSUME Inv, DoneInv, StopPhases PROVE DoneInv'
<1>1. UNCHANGED <<queue, jcr, stored>> /\ \A u \in Others : pc'[u] = pc[u]
  <2>1. UNCHANGED <<queue, jcr, stored>>
    BY DEF StopPhases
  <2>2. \E label : pc' = [pc EXCEPT !["main"] = label]
    BY DEF StopPhases, Goto
  <2> QED BY <2>1, <2>2 DEF Inv, PcInv, Others
<1>2. \/ pc["main"] = "wait" /\ jcr.status = "DONE" /\ pc'["main"] = "join"
      \/ /\ pc["main"] = "join" /\ pc'["main"] = "end" /\ report' = jcr
         /\ \A t \in Threads \ {"main"} : pc[t] = "end"
  BY DEF StopPhases, Goto, Inv, PcInv, Threads, show_backup_jcr
<1>3. MainInv'
  BY <1>1, <1>2 DEF DoneInv, MainInv, Others, Threads
<1>4. PushInv'
  BY <1>1, PushStays DEF DoneInv, Entered, Pushing, Others
<1> QED BY <1>3, <1>4 DEF DoneInv

\* Every step keeps what main has been told true.
LEMMA DoneNext == Inv /\ DoneInv /\ [Next]_vars => DoneInv'
<1> SUFFICES ASSUME Inv, DoneInv, [Next]_vars PROVE DoneInv'
  OBVIOUS
<1>1. CASE UNCHANGED vars
  BY <1>1, PushStays, MainStays DEF vars, DoneInv, Entered, Pushing
<1>2. CASE Main
  BY <1>2, DoneStart, DoneStop DEF Main
<1>3. CASE ReadThread
  BY <1>3, DoneRead, DoneTerm, DoneSleep DEF ReadThread
<1>4. CASE ChunkThread
  BY <1>4, DoneChunk, DoneTerm, DoneSleep DEF ChunkThread
<1>5. CASE HashThread
  BY <1>5, DoneHash, DoneTerm, DoneSleep DEF HashThread
<1>6. CASE DedupThread
  BY <1>6, DoneDedup, DoneSleep DEF DedupThread
<1> QED BY <1>1, <1>2, <1>3, <1>4, <1>5, <1>6, DoneWake DEF Next

LEMMA DoneAlways == Spec => []DoneInv
<1>1. Init => DoneInv
  BY DoneInit
<1> QED BY <1>1, DoneNext, InvAlways, PTL DEF Spec

\* Once FILE_END has come to dedup it has had all of the file.
LEMMA PastAll ==
  ASSUME Inv, StreamInv, Past
  PROVE  RecipeAt(file.len) /\ rq = <<>> /\ cq = <<>> /\ hq = <<>> /\ file.len \in Nat
<1>1. EndCut /\ cq = <<>> /\ hq = <<>> /\ pc["hash"] # "forward"
  BY DEF Inv, EndInv
<1>2. rq = <<>> /\ ReadDone /\ pc["chunk"] # "loop"
  BY <1>1 DEF EndCut, Inv, ReadInv
<1>3. rest_size = 0 /\ pos = file.len /\ file.len \in Nat
  BY <1>2, PipelineAssumption DEF Inv, WindowInv, StreamInv, DataInv
<1>4. PICK d, h, k, w \in Nat : Places(d, h, k, w)
  BY DEF StreamInv
<1>5. d = h /\ h = k /\ k = w /\ w + 0 = pos
  BY <1>1, <1>2, <1>3, <1>4, LineOver DEF Places, HandAt
<1> QED BY <1>1, <1>2, <1>3, <1>4, <1>5 DEF Places

\* When main sees JCR_STATUS_DONE the recipe and the index are on disk, and when
\* it leaves nobody holds anything back and the counters it shows are those of
\* the whole file, modulo the width of an int.
THEOREM DoneMeansStoredHolds == Spec => []DoneMeansStored
<1>1. Inv /\ StreamInv /\ DoneInv => DoneMeansStored
  <2> SUFFICES ASSUME Inv, StreamInv, DoneInv PROVE DoneMeansStored
    OBVIOUS
  <2>1. pc["main"] \in {"join", "end"} => stored
    BY DEF DoneInv, MainInv
  <2>2. ASSUME pc["main"] = "end"
        PROVE  /\ \A q \in DOMAIN queue : queue[q].queue = <<>> /\ queue[q].entered = {}
               /\ report = jcr /\ RecipeAt(file.len)
    <3>1. report = jcr /\ \A u \in Others : pc[u] = "end"
      BY <2>2 DEF DoneInv, MainInv
    <3>2. Past
      BY <3>1 DEF Past, Others
    <3>3. RecipeAt(file.len) /\ rq = <<>> /\ cq = <<>> /\ hq = <<>>
      BY <3>2, PastAll
    <3>4. ASSUME NEW q \in DOMAIN queue PROVE queue[q].queue = <<>> /\ queue[q].entered = {}
      <4>1. q \in Queues
        BY DEF Inv, QueueInv
      <4>2. Q(q) = <<>>
        BY <3>3, <4>1 DEF Queues, rq, cq, hq
      <4>3. \A t : ~Pushing(t)
        BY <3>1 DEF Pushing, Others
      <4>4. Entered(q) = {}
        BY <4>3 DEF DoneInv, PushInv
      <4> QED BY <4>2, <4>4 DEF Q, Entered
    <3> QED BY <3>1, <3>3, <3>4
  <2> QED BY <2>1, <2>2 DEF DoneMeansStored, RecipeAt, Fresh
<1> QED BY <1>1, InvAlways, StreamAlways, DoneAlways, PTL

-------------------------------------------------------------------------------
\* The pipeline as an implementation of ChunkStream.

\* At first everything is to do.
LEMMA StartsWithAll == ASSUME Init PROVE Stream!Init
<1>1. file \in Files /\ file_recipe = <<>> /\ stored = FALSE /\ file.len \in Nat
  BY PipelineAssumption DEF Init
<1> DEFINE s == ChunksOf(file)
<1>2. s \in Seq(Seq(Nat))
  <2>1. 0 + 1 = 1 /\ 0 <= file.len
    BY <1>1
  <2> QED BY <1>1, <2>1, ChunksTyped DEF ChunksOf
<1>3. SubSeq(s, Len(file_recipe) + 1, Len(s)) = s
  <2>1. Len(file_recipe) = 0
    BY <1>1
  <2> HIDE DEF s
  <2> QED BY <1>2, <2>1
<1> QED BY <1>1, <1>3 DEF Stream!Init

\* Each step is one of ChunkStream, or not visible there.
LEMMA StepsOn ==
  ASSUME Inv, StreamInv, DoneInv, [Next]_vars
  PROVE  [Stream!Dedup \/ Stream!Save]_<<Left, file_recipe, stored>>
<1>1. CASE UNCHANGED <<file, file_recipe, stored>>
  <2>1. Left' = Left
    BY <1>1 DEF Left, ChunksOf, ChunksFrom
  <2> QED BY <1>1, <2>1
<1>2. CASE DedupPop
  <2>1. /\ file' = file /\ stored' = stored
        /\ hq # <<>> /\ hq \in Seq(Passed)
        /\ IF hq[1].flag = "NORMAL"
           THEN file_recipe' = Append(file_recipe, hq[1].fp) /\ jcr' = Counted(hq[1])
           ELSE UNCHANGED <<file_recipe, jcr>>
    BY <1>2, DedupPopEffect
  <2>2. CASE hq[1].flag = "NORMAL"
    <3> DEFINE c == hq[1]
    <3>1. PICK d, h, k, w \in Nat : Places(d, h, k, w)
      BY DEF StreamInv
    <3>2. PICK x \in Nat : <<hq[1], d, x>> \in Hashes
      BY <2>1, <3>1, LineTail DEF Places
    <3>3. d < file.len /\ x = NextCut(d) /\ c.data = Units(d + 1, x) /\ c.fp = c.data
      BY <2>2, <3>2 DEF Hashes, Cuts
    <3>4. file_recipe' = Append(file_recipe, c.fp) /\ jcr' = Counted(c)
      BY <2>1, <2>2
    <3>5. file_recipe \in Seq(Seq(Nat)) /\ RecipeAt(d)
      BY <3>1 DEF StreamInv, Places
    <3> HIDE DEF c
    <3>6. Left = <<c.fp>> \o Left' /\ Left' \in Seq(Seq(Nat)) /\ c.fp \in Seq(Nat)
      BY <2>1, <3>3, <3>4, <3>5, RecipeGrows
    <3>7. Left # <<>> /\ Head(Left) = c.fp /\ Tail(Left) = Left'
      <4> DEFINE r == Left'
      <4> DEFINE l == Left
      <4>1. l = <<c.fp>> \o r /\ r \in Seq(Seq(Nat)) /\ c.fp \in Seq(Nat)
        BY <3>6
      <4> HIDE DEF l, r
      <4>2. l # <<>> /\ Head(l) = c.fp /\ Tail(l) = r
        BY <4>1
      <4> QED BY <4>2 DEF l, r
    <3>8. Stream!Dedup
      BY <2>1, <3>4, <3>7 DEF Stream!Dedup, Left
    <3> QED BY <3>8
  <2>3. CASE hq[1].flag # "NORMAL"
    BY <1>1, <2>1, <2>3
  <2> QED BY <2>2, <2>3
<1>3. CASE DedupFinish
  <2>1. CASE stored' = stored
    BY <1>1, <1>3, <2>1 DEF DedupFinish
  <2>2. CASE stored' # stored
    <3>1. pc["dedup"] = "save" /\ stored' = TRUE /\ UNCHANGED <<file, file_recipe>>
      BY <1>3, <2>2 DEF DedupFinish
    <3>2. ~stored /\ Past
      BY <3>1 DEF DoneInv, MainInv, Past
    <3>3. Left = <<>>
      <4>1. RecipeAt(file.len)
        BY <3>2, PastAll
      <4> QED BY <4>1, ChunksFromAt DEF RecipeAt, Inv, DataInv
    <3>4. Left' = Left
      BY <3>1 DEF Left, ChunksOf, ChunksFrom
    <3>5. Stream!Save
      BY <3>1, <3>2, <3>3, <3>4 DEF Stream!Save, Left
    <3> QED BY <3>5
  <2> QED BY <2>1, <2>2
<1>4. CASE UNCHANGED vars
  BY <1>1, <1>4 DEF vars
<1>5. ASSUME NEW t, Sleep(t) \/ TermQueue(t) PROVE UNCHANGED <<file, file_recipe, stored>>
  BY <1>5 DEF Sleep, SleepPushing, SleepPopping, TermQueue
<1>6. CASE Main \/ ReadThread \/ SpuriousWakeup
  BY <1>1, <1>5, <1>6 DEF Main, StartPhases, StopPhases, ReadThread, Read, SpuriousWakeup
<1>7. CASE ChunkThread
  BY <1>1, <1>5, <1>7 DEF ChunkThread, ChunkStart, ChunkFill, ChunkCut, ChunkForward
<1>8. CASE HashThread
  BY <1>1, <1>5, <1>8 DEF HashThread, HashPop, HashForward
<1>9. CASE DedupThread
  BY <1>1, <1>2, <1>3, <1>5, <1>9 DEF DedupThread
<1> QED BY <1>4, <1>6, <1>7, <1>8, <1>9 DEF Next

\* The recipe gets the chunks one chunking of the whole file would give, one by
\* one and in order, and is stored when it has them all: the threads, the blocks
\* and the queues cannot be told from the outside.
THEOREM ImplementsChunkStreamHolds == Spec => ImplementsChunkStream
<1>1. Init => Stream!Init
  BY StartsWithAll
<1>2. Inv /\ StreamInv /\ DoneInv /\ [Next]_vars
        => [Stream!Dedup \/ Stream!Save]_<<Left, file_recipe, stored>>
  BY StepsOn
<1> QED BY <1>1, <1>2, InvAlways, StreamAlways, DoneAlways, PTL
     DEF Spec, ImplementsChunkStream, Stream!Spec, Left

===============================================================================
