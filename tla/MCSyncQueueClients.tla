------------------------- MODULE MCSyncQueueClients -------------------------
(***************************************************************************)
(* Values for the constants of SyncQueueClients.                           *)
(***************************************************************************)
EXTENDS SyncQueueClients

CONSTANTS p1, p2, p3, c1, c2

MCProducers == {p1, p2, p3}
MCConsumers == {c1, c2}
=============================================================================
