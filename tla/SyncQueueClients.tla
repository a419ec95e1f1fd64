--------------------------- MODULE SyncQueueClients ---------------------------
(***************************************************************************)
(* One SyncQueue with any number of producers and consumers and one call   *)
(* of sync_queue_term at any moment: more than the pipeline makes of it,   *)
(* which has one thread at either end and terminates behind the last push. *)
(***************************************************************************)
EXTENDS SyncQueue, FiniteSets

CONSTANTS
    Producers, Consumers,
    Size,        \* the argument of sync_queue_new
    MaxPushes    \* bound on the pushes of one producer

ASSUME ClientsAssumption ==
    /\ Producers \cap Consumers = {}
    /\ Size \in Nat
    /\ MaxPushes \in Nat

VARIABLES
    s,         \* the SyncQueue
    pushes,    \* per producer, the push calls that returned
    accepted,  \* the items that went into the queue, in this order
    taken,     \* the items that came out, in this order
    finished   \* the consumers that were given NULL

vars == <<s, pushes, accepted, taken, finished>>

Init ==
    /\ s = New(Size)
    /\ pushes = [p \in Producers |-> 0]
    /\ accepted = <<>> /\ taken = <<>> /\ finished = {}

Item(p) == <<p, pushes[p] + 1>>

Push(p) ==
    /\ Awake(s, p) /\ pushes[p] < MaxPushes
    /\ \/ /\ Drops(s, p)
          /\ pushes' = [pushes EXCEPT ![p] = @ + 1]
          /\ UNCHANGED <<s, accepted>>
       \/ /\ SleepsInPush(s, p)
          /\ s' = SleepInPush(s, p)
          /\ UNCHANGED <<pushes, accepted>>
       \/ /\ Accepts(s, p)
          /\ s' = Pushed(s, p, Item(p))
          /\ accepted' = Append(accepted, Item(p))
          /\ pushes' = [pushes EXCEPT ![p] = @ + 1]
    /\ UNCHANGED <<taken, finished>>

Pop(c) ==
    /\ Awake(s, c) /\ c \notin finished
    /\ \/ /\ Gives(s)
          /\ s' = Popped(s)
          /\ taken' = Append(taken, Head(s.queue))
          /\ UNCHANGED finished
       \/ /\ GivesNull(s)
          /\ finished' = finished \cup {c}
          /\ UNCHANGED <<s, taken>>
       \/ /\ SleepsInPop(s)
          /\ s' = SleepInPop(s, c)
          /\ UNCHANGED <<taken, finished>>
    /\ UNCHANGED <<pushes, accepted>>

Term ==
    /\ ~s.term
    /\ s' = Terminated(s)
    /\ UNCHANGED <<pushes, accepted, taken, finished>>

SpuriousWakeup(t) ==
    /\ ~Awake(s, t)
    /\ s' = Woken(s, t)
    /\ UNCHANGED <<pushes, accepted, taken, finished>>

Next ==
    \/ \E p \in Producers : Push(p)
    \/ \E c \in Consumers : Pop(c)
    \/ Term
    \/ \E t \in Producers \cup Consumers : SpuriousWakeup(t)

Spec == Init /\ [][Next]_vars

\* Threads that can run are run; nobody has to wake up without a reason.
Fairness ==
    /\ \A p \in Producers : WF_vars(Push(p))
    /\ \A c \in Consumers : WF_vars(Pop(c))

FairSpec == Spec /\ Fairness

-------------------------------------------------------------------------------
Entries == Producers \X (1..MaxPushes)

TypeOK ==
    /\ s \in [queue : Seq(Entries), max_size : {Size}, term : BOOLEAN,
              entered : SUBSET Producers, max_work : SUBSET Producers,
              min_work : SUBSET Consumers]
    /\ pushes \in [Producers -> 0..MaxPushes]
    /\ accepted \in Seq(Entries) /\ taken \in Seq(Entries)
    /\ finished \subseteq Consumers

\* A thread is asleep only while what it waits for is not there: no broadcast
\* is missing, between any two of push, pop and term.
SleepersHaveReason ==
    /\ s.max_work # {} => Full(s)
    /\ s.min_work # {} => s.queue = <<>> /\ ~s.term

\* The limit holds however many producers wake up at once.
WithinLimit == Size > 0 => Len(s.queue) <= Size

\* What was accepted comes out once, in the order in which it was accepted.
FifoOnce == accepted = taken \o s.queue

\* After term every consumer is given NULL in the end.
ConsumersReturn == s.term ~> finished = Consumers

\* While the queue is not terminated, a producer that has gone to sleep on a
\* full queue gets its item in: there are consumers, and they wake it up.  (A
\* push that sleeps when sync_queue_term is called may sleep for ever, once
\* the consumers have been given NULL.)
PushesReturn ==
    \A p \in Producers : p \in s.entered ~> (p \notin s.entered \/ s.term)
=============================================================================
