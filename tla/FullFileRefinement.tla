--------------------------- MODULE FullFileRefinement ---------------------------
(***************************************************************************)
(* The full-file store as an implementation of FileLibrary: fingerprint    *)
(* file and directory together, without the history of the users.          *)
(***************************************************************************)
EXTENDS FullFileStore

\* The files an id restores to, but for the one that a running delete has
\* counted down to nothing and is about to remove.
InUse == {id \in DOMAIN files : ~(pc = "remove" /\ id = file_id)}

Held == [id \in InUse |-> [content |-> files[id], count |-> Entry(id).count]]

\* A write has given its id out when the file is saved.
Issued == Len(entries) - (IF pc = "save" THEN 1 ELSE 0)

Library == INSTANCE FileLibrary WITH
              held <- Held, issued <- Issued, reliable <- Unharmed

\* Until a process dies or an input cannot be opened, a write gives a content that is held the id it has
\* and any other content an id that was never in use, and a delete gives up
\* exactly the id it names, or nothing if nobody holds that.
ImplementsFileLibrary == Library!Spec
===============================================================================
