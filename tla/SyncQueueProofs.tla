--------------------------- MODULE SyncQueueProofs ---------------------------
(***************************************************************************)
(* The safety properties of SyncQueueClients, for any number of producers  *)
(* and consumers, any limit and any number of pushes.                      *)
(***************************************************************************)
EXTENDS SyncQueueClients, SequenceTheorems, TLAPS

\* The head of the second sequence may move to the end of the first.
LEMMA ConcatHeadTail ==
  ASSUME NEW S, NEW u \in Seq(S), NEW v \in Seq(S), v # <<>>
  PROVE  Append(u, Head(v)) \o Tail(v) = u \o v
<1>1. Head(v) \in S /\ Tail(v) \in Seq(S) /\ <<Head(v)>> \in Seq(S)
  OBVIOUS
<1>2. Append(u, Head(v)) = u \o <<Head(v)>>
  BY <1>1, AppendIsConcat
<1>3. (u \o <<Head(v)>>) \o Tail(v) = u \o (<<Head(v)>> \o Tail(v))
  BY <1>1, ConcatAssociative
<1>4. <<Head(v)>> \o Tail(v) = v
  OBVIOUS
<1> QED BY <1>2, <1>3, <1>4

\* Every variable has its type, for every number of threads and every limit.
THEOREM QueueTypeCorrect == Spec => []TypeOK
<1>1. Init => TypeOK
  BY ClientsAssumption DEF Init, TypeOK, New, Entries
<1>2. TypeOK /\ [Next]_vars => TypeOK'
  <2> SUFFICES ASSUME TypeOK, [Next]_vars PROVE TypeOK'
    OBVIOUS
  <2> USE ClientsAssumption
  <2>1. ASSUME NEW p \in Producers, Push(p) PROVE TypeOK'
    <3>1. Item(p) \in Entries
      BY <2>1 DEF Push, Item, Entries, TypeOK
    <3>2. pushes[p] + 1 \in 0..MaxPushes
      BY <2>1 DEF Push, TypeOK
    <3>3. CASE Drops(s, p) /\ UNCHANGED <<s, accepted>>
               /\ pushes' = [pushes EXCEPT ![p] = @ + 1]
      BY <2>1, <3>2, <3>3 DEF Push, TypeOK
    <3>4. CASE s' = SleepInPush(s, p) /\ UNCHANGED <<pushes, accepted>>
      BY <2>1, <3>4 DEF Push, TypeOK, SleepInPush
    <3>5. CASE /\ s' = Pushed(s, p, Item(p)) /\ accepted' = Append(accepted, Item(p))
               /\ pushes' = [pushes EXCEPT ![p] = @ + 1]
      <4>1. Append(s.queue, Item(p)) \in Seq(Entries) /\ accepted' \in Seq(Entries)
        BY <3>1, <3>5 DEF TypeOK
      <4>2. s' \in [queue : Seq(Entries), max_size : {Size}, term : BOOLEAN,
                    entered : SUBSET Producers, max_work : SUBSET Producers,
                    min_work : SUBSET Consumers]
        BY <4>1, <3>5 DEF TypeOK, Pushed
      <4> QED BY <2>1, <3>2, <3>5, <4>1, <4>2 DEF Push, TypeOK
    <3> QED BY <2>1, <3>3, <3>4, <3>5 DEF Push
  <2>2. ASSUME NEW c \in Consumers, Pop(c) PROVE TypeOK'
    <3>1. CASE Gives(s) /\ s' = Popped(s) /\ taken' = Append(taken, Head(s.queue))
               /\ UNCHANGED finished
      <4>1. Tail(s.queue) \in Seq(Entries) /\ taken' \in Seq(Entries)
        BY <3>1 DEF TypeOK, Gives
      <4>2. s' \in [queue : Seq(Entries), max_size : {Size}, term : BOOLEAN,
                    entered : SUBSET Producers, max_work : SUBSET Producers,
                    min_work : SUBSET Consumers]
        BY <4>1, <3>1 DEF TypeOK, Popped
      <4> QED BY <2>2, <3>1, <4>1, <4>2 DEF Pop, TypeOK
    <3>2. CASE finished' = finished \cup {c} /\ UNCHANGED <<s, taken>>
      BY <2>2, <3>2 DEF Pop, TypeOK
    <3>3. CASE s' = SleepInPop(s, c) /\ UNCHANGED <<taken, finished>>
      BY <2>2, <3>3 DEF Pop, TypeOK, SleepInPop
    <3> QED BY <2>2, <3>1, <3>2, <3>3 DEF Pop
  <2>3. CASE Term
    BY <2>3 DEF Term, Terminated, TypeOK
  <2>4. ASSUME NEW t \in Producers \cup Consumers, SpuriousWakeup(t) PROVE TypeOK'
    BY <2>4 DEF SpuriousWakeup, Woken, TypeOK
  <2>5. CASE UNCHANGED vars
    BY <2>5 DEF vars, TypeOK
  <2> QED BY <2>1, <2>2, <2>3, <2>4, <2>5 DEF Next
<1> QED BY <1>1, <1>2, PTL DEF Spec

\* No broadcast is missing: a thread is asleep only while the queue is full,
\* or empty and not terminated (sync_queue_push, sync_queue_pop,
\* sync_queue_term).
THEOREM NoLostWakeup == Spec => []SleepersHaveReason
<1>1. Init => SleepersHaveReason
  BY DEF Init, SleepersHaveReason, New
<1>2. TypeOK /\ SleepersHaveReason /\ [Next]_vars => SleepersHaveReason'
  <2> SUFFICES ASSUME TypeOK, SleepersHaveReason, [Next]_vars
               PROVE  SleepersHaveReason'
    OBVIOUS
  <2> USE DEF SleepersHaveReason, Full
  <2>1. ASSUME NEW p \in Producers, Push(p) PROVE SleepersHaveReason'
    <3>1. CASE UNCHANGED s
      BY <3>1
    <3>2. CASE SleepsInPush(s, p) /\ s' = SleepInPush(s, p)
      BY <3>2 DEF TypeOK, SleepsInPush, SleepInPush
    <3>3. CASE Accepts(s, p) /\ s' = Pushed(s, p, Item(p))
      <4>1. s.max_work = {}
        BY <3>3 DEF Accepts
      <4> QED BY <3>3, <4>1 DEF TypeOK, Pushed
    <3> QED BY <2>1, <3>1, <3>2, <3>3 DEF Push
  <2>2. ASSUME NEW c \in Consumers, Pop(c) PROVE SleepersHaveReason'
    <3>1. CASE Gives(s) /\ s' = Popped(s)
      BY <3>1 DEF TypeOK, Gives, Popped
    <3>2. CASE UNCHANGED s
      BY <3>2
    <3>3. CASE SleepsInPop(s) /\ s' = SleepInPop(s, c)
      BY <3>3 DEF TypeOK, SleepsInPop, SleepInPop
    <3> QED BY <2>2, <3>1, <3>2, <3>3 DEF Pop
  <2>3. CASE Term
    BY <2>3 DEF Term, Terminated, TypeOK
  <2>4. ASSUME NEW t \in Producers \cup Consumers, SpuriousWakeup(t)
        PROVE  SleepersHaveReason'
    BY <2>4 DEF SpuriousWakeup, Woken, TypeOK
  <2>5. CASE UNCHANGED vars
    BY <2>5 DEF vars
  <2> QED BY <2>1, <2>2, <2>3, <2>4, <2>5 DEF Next
<1> QED BY <1>1, <1>2, QueueTypeCorrect, PTL DEF Spec

\* However many producers wake up at once, the limit given to sync_queue_new
\* holds: each of them tests the size again before it appends.
THEOREM LimitHolds == Spec => []WithinLimit
<1>1. Init => WithinLimit
  BY ClientsAssumption DEF Init, WithinLimit, New
<1>2. TypeOK /\ WithinLimit /\ [Next]_vars => WithinLimit'
  <2> SUFFICES ASSUME TypeOK, WithinLimit, [Next]_vars PROVE WithinLimit'
    OBVIOUS
  <2> USE ClientsAssumption DEF WithinLimit
  <2>1. ASSUME NEW p \in Producers, Push(p) PROVE WithinLimit'
    <3>1. CASE s'.queue = s.queue
      BY <3>1
    <3>2. CASE Accepts(s, p) /\ s' = Pushed(s, p, Item(p))
      <4>1. s'.queue = Append(s.queue, Item(p)) /\ s.queue \in Seq(Entries)
        BY <3>2 DEF TypeOK, Pushed
      <4>2. Size > 0 => Len(s.queue) < Size
        BY <3>2, <4>1 DEF TypeOK, Accepts, Full
      <4> QED BY <4>1, <4>2
    <3> QED BY <2>1, <3>1, <3>2 DEF Push, SleepInPush, TypeOK
  <2>2. ASSUME NEW c \in Consumers, Pop(c) PROVE WithinLimit'
    <3>1. CASE Gives(s) /\ s' = Popped(s)
      BY <3>1 DEF TypeOK, Gives, Popped
    <3>2. CASE s'.queue = s.queue
      BY <3>2
    <3> QED BY <2>2, <3>1, <3>2 DEF Pop, SleepInPop, TypeOK
  <2>3. CASE s'.queue = s.queue
    BY <2>3
  <2> QED BY <2>1, <2>2, <2>3
        DEF Next, Term, Terminated, SpuriousWakeup, Woken, vars, TypeOK
<1> QED BY <1>1, <1>2, QueueTypeCorrect, PTL DEF Spec

\* What sync_queue_push accepted, sync_queue_pop gives out once and in order.
THEOREM QueueIsFifo == Spec => []FifoOnce
<1>1. Init => FifoOnce
  BY DEF Init, FifoOnce, New
<1>2. TypeOK /\ FifoOnce /\ [Next]_vars => FifoOnce'
  <2> SUFFICES ASSUME TypeOK, FifoOnce, [Next]_vars PROVE FifoOnce'
    OBVIOUS
  <2> USE DEF FifoOnce
  <2>1. ASSUME NEW p \in Producers, Push(p) PROVE FifoOnce'
    <3>1. CASE s'.queue = s.queue /\ UNCHANGED accepted
      BY <2>1, <3>1 DEF Push
    <3>2. CASE s' = Pushed(s, p, Item(p)) /\ accepted' = Append(accepted, Item(p))
      <4>1. s'.queue = Append(s.queue, Item(p))
        BY <3>2 DEF TypeOK, Pushed
      <4>2. taken' = taken
        BY <2>1 DEF Push
      <4>3. Item(p) \in Entries
        BY <2>1, ClientsAssumption DEF Item, Push, TypeOK, Entries
      <4>4. taken \in Seq(Entries) /\ s.queue \in Seq(Entries)
        BY DEF TypeOK
      <4>5. Append(taken \o s.queue, Item(p)) = taken \o Append(s.queue, Item(p))
        BY <4>3, <4>4
      <4> QED BY <3>2, <4>1, <4>2, <4>5
    <3> QED BY <2>1, <3>1, <3>2 DEF Push, SleepInPush, TypeOK
  <2>2. ASSUME NEW c \in Consumers, Pop(c) PROVE FifoOnce'
    <3>1. CASE Gives(s) /\ s' = Popped(s) /\ taken' = Append(taken, Head(s.queue))
      <4>1. s'.queue = Tail(s.queue) /\ s.queue # <<>>
        BY <3>1 DEF TypeOK, Gives, Popped
      <4>2. taken \in Seq(Entries) /\ s.queue \in Seq(Entries)
        BY DEF TypeOK
      <4>3. Append(taken, Head(s.queue)) \o Tail(s.queue) = taken \o s.queue
        BY <4>1, <4>2, ConcatHeadTail
      <4> QED BY <2>2, <3>1, <4>1, <4>3 DEF Pop
    <3>2. CASE s'.queue = s.queue /\ UNCHANGED taken
      BY <2>2, <3>2 DEF Pop
    <3> QED BY <2>2, <3>1, <3>2 DEF Pop, SleepInPop, TypeOK
  <2>3. CASE s'.queue = s.queue /\ UNCHANGED <<accepted, taken>>
    BY <2>3
  <2> QED BY <2>1, <2>2, <2>3
        DEF Next, Term, Terminated, SpuriousWakeup, Woken, vars, TypeOK
<1> QED BY <1>1, <1>2, QueueTypeCorrect, PTL DEF Spec
=============================================================================
