----------------------------- MODULE VersionStore -----------------------------
(***************************************************************************)
(* What the chunk store promises its user: versions, each the content of   *)
(* one file, stored under a number of its own and deleted one at a time.   *)
(* Deduplication, containers and the index are not visible.                *)
(***************************************************************************)
EXTENDS Naturals

CONSTANTS
    Content,   \* the contents a file may have
    Number     \* the version numbers

VARIABLE versions

Init == versions = [v \in {} |-> {}]

\* A write stores the content under a number no stored version has.
Write(v, content) ==
    /\ v \notin DOMAIN versions
    /\ versions' = [w \in DOMAIN versions \cup {v} |->
                      IF w = v THEN content ELSE versions[w]]

\* A delete takes away the chosen version and leaves every other one alone.
Delete(v) ==
    /\ v \in DOMAIN versions
    /\ versions' = [w \in DOMAIN versions \ {v} |-> versions[w]]

Next ==
    \/ \E v \in Number, content \in Content : Write(v, content)
    \/ \E v \in Number : Delete(v)

Spec == Init /\ [][Next]_versions
=============================================================================
