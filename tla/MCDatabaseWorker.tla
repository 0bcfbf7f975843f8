-------------------------- MODULE MCDatabaseWorker --------------------------
(* Two worker threads and four operations. *)
EXTENDS DatabaseWorker

CONSTANTS w1, w2

MCWorkers == {w1, w2}
=============================================================================
