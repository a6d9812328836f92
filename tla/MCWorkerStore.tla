--------------------------- MODULE MCWorkerStore ---------------------------
(* Three requests at a time, two configurations.                             *)
EXTENDS WorkerStore

MCClients == {"c1", "c2", "c3"}
=============================================================================
