-------------------------- MODULE RestoreRefinement --------------------------
(***************************************************************************)
(* RestoreTask as an implementation of Restoration: buffers, caches and    *)
(* the order in which containers are read are not visible in the file.     *)
(***************************************************************************)
EXTENDS RestoreTask, SequencesExt

\* The bytes of the version asked for.
Content ==
    IF version \in DOMAIN recipes
    THEN FlattenSeq([i \in DOMAIN Recipe |-> AppendChunk(<<>>, Recipe[i])])
    ELSE <<>>

\* An empty recipe is beyond what the forward assembly can restore.
Reliable == Sound /\ ~(method = "faa_fixed" /\ Content = <<>>)

Outcome ==
    CASE pc = "done" -> "done"
      [] pc \in {"missing", "unsupported"} -> "refused"
      [] pc \in {"fatal", "thrown", "undefined"} -> "failed"
      [] OTHER -> "running"

Promise == INSTANCE Restoration WITH
              OverlayOf <- Overlay, sound <- Reliable, content <- Content,
              file <- out, given <- written, outcome <- Outcome

\* From a sound store every method with an implementation writes the content
\* of the version and nothing else, in order, and reports success when it is
\* all there (main.cpp:550-683).
ImplementsRestoration == Promise!Spec
=============================================================================
