------------------------------ MODULE FileLibrary ------------------------------
(***************************************************************************)
(* What full-file deduplication promises its users: every content is kept  *)
(* once, under a number that was never given out before, for as long as    *)
(* it has been stored more often than its number was given up.             *)
(***************************************************************************)
EXTENDS Integers

CONSTANT Contents

VARIABLES
    held,      \* number -> [content, count]
    issued,    \* how many numbers have been given out
    reliable   \* nothing went wrong so far

vars == <<held, issued, reliable>>

Init ==
    /\ held = [id \in {} |-> {}] /\ issued = 0
    /\ reliable = TRUE

\* The content is there already: its users get the number it has.
StoreAgain(id) ==
    /\ held' = [held EXCEPT ![id].count = @ + 1]
    /\ UNCHANGED issued

\* A content nobody holds gets the next number.
StoreNew(content) ==
    /\ \A id \in DOMAIN held : held[id].content # content
    /\ held' = [id \in DOMAIN held \cup {issued} |->
                  IF id = issued THEN [content |-> content, count |-> 1] ELSE held[id]]
    /\ issued' = issued + 1

\* A number is given up; the content goes with its last user.
GiveUp(id) ==
    /\ held' = IF held[id].count > 1
               THEN [held EXCEPT ![id].count = @ - 1]
               ELSE [other \in DOMAIN held \ {id} |-> held[other]]
    /\ UNCHANGED issued

\* Nothing is promised any more.
Fail == reliable' = FALSE

Next ==
    \/ /\ \/ \E id \in DOMAIN held : StoreAgain(id) \/ GiveUp(id)
          \/ \E content \in Contents : StoreNew(content)
       /\ UNCHANGED reliable
    \/ Fail

Spec == Init /\ [][Next]_vars
===============================================================================
