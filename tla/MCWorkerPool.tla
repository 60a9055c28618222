---------------------------- MODULE MCWorkerPool ----------------------------
(* Two adders, two workers and three functions for WorkerPool. *)
EXTENDS WorkerPool
=============================================================================
