------------------------------ MODULE SyncQueue ------------------------------
(***************************************************************************)
(* The bounded queue of src/src/sync_queue.cpp over the list of            *)
(* src/src/queue.cpp, as operators on the struct SyncQueue.  Every         *)
(* function body runs under the queue's mutex, so that what a thread does  *)
(* between taking the mutex and giving it back (by returning or by going   *)
(* to sleep on a condition variable) is one step.  The fields max_work and *)
(* min_work are the threads asleep on these condition variables; entered   *)
(* are the threads in a push that are past the test of term.               *)
(***************************************************************************)
EXTENDS Integers, Sequences

\* sync_queue_new
New(size) ==
    [queue |-> <<>>, max_size |-> size, term |-> FALSE,
     entered |-> {}, max_work |-> {}, min_work |-> {}]

Full(s) == s.max_size > 0 /\ Len(s.queue) >= s.max_size
Awake(s, t) == t \notin s.max_work \cup s.min_work

\* sync_queue_push: the item is dropped when the queue was terminated before
\* the call; a thread that comes back from its sleep tests the size again, and
\* term no more.
Drops(s, t) == s.term /\ t \notin s.entered
SleepsInPush(s, t) == ~Drops(s, t) /\ Full(s)

\* Mutant: the thread that wakes up does not test the size again.
Accepts_NoRetest(s, t) == ~Drops(s, t) /\ (~Full(s) \/ t \in s.entered)

Accepts(s, t) == ~Drops(s, t) /\ ~Full(s)

SleepInPush(s, t) ==
    [s EXCEPT !.entered = @ \cup {t}, !.max_work = @ \cup {t}]

\* Mutant: the broadcast to the consumers is forgotten.
Pushed_Silent(s, t, item) ==
    [s EXCEPT !.queue = Append(@, item), !.entered = @ \ {t}]

\* Mutant: the new element is linked in front of the list.
Pushed_InFront(s, t, item) ==
    [s EXCEPT !.queue = <<item>> \o @, !.entered = @ \ {t}, !.min_work = {}]

\* queue_push and the broadcast of min_work.
Pushed(s, t, item) ==
    [s EXCEPT !.queue = Append(@, item), !.entered = @ \ {t}, !.min_work = {}]

\* sync_queue_pop: NULL once the queue is terminated and drained.
Gives(s) == s.queue # <<>>
GivesNull(s) == s.queue = <<>> /\ s.term
SleepsInPop(s) == s.queue = <<>> /\ ~s.term

SleepInPop(s, t) == [s EXCEPT !.min_work = @ \cup {t}]

\* Mutant: the broadcast to the producers is forgotten.
Popped_Silent(s) == [s EXCEPT !.queue = Tail(@)]

\* queue_pop and the broadcast of max_work.
Popped(s) == [s EXCEPT !.queue = Tail(@), !.max_work = {}]

\* Mutant: the broadcast is forgotten.
Terminated_Silent(s) == [s EXCEPT !.term = TRUE]

\* sync_queue_term
Terminated(s) == [s EXCEPT !.term = TRUE, !.min_work = {}]

\* pthread_cond_wait may return without a broadcast.
Woken(s, t) == [s EXCEPT !.max_work = @ \ {t}, !.min_work = @ \ {t}]
=============================================================================
