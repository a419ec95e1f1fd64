----------------------------- MODULE Restoration -----------------------------
(***************************************************************************)
(* What a restore promises: the file at the restore path takes on the      *)
(* content of the version from its beginning on, never a byte that is      *)
(* wrong or out of order, and success is reported when all of it is there. *)
(* What was behind the content before stays.  Of a damaged store nothing   *)
(* is promised.                                                            *)
(***************************************************************************)
EXTENDS Integers, Sequences

CONSTANT OverlayOf(_, _)   \* a file with its beginning replaced

VARIABLES
    sound,     \* the store can be relied on
    content,   \* the bytes of the version
    old,       \* the file before
    file,      \* the file
    given,     \* how many bytes were written
    outcome    \* "running", "done", "refused" or "failed"

vars == <<sound, content, old, file, given, outcome>>

Init == file = old /\ given = 0 /\ outcome = "running"

Deliver ==
    /\ given' >= given /\ given' <= Len(content)
    /\ file' = OverlayOf(SubSeq(content, 1, given'), old)
    /\ outcome' = IF outcome' = "done" /\ given' = Len(content) THEN "done" ELSE "running"

Refuse == outcome' = "refused" /\ given = 0 /\ UNCHANGED <<file, given>>

NothingPromised == ~sound

Next ==
    /\ outcome = "running"
    /\ UNCHANGED <<sound, content, old>>
    /\ Deliver \/ Refuse \/ NothingPromised

Spec == Init /\ [][Next]_vars
=============================================================================
