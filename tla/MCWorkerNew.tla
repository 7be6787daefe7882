----------------------------- MODULE MCWorkerNew -----------------------------
(* Small instances of WorkerNew for TLC. *)
EXTENDS WorkerNewProps
=============================================================================
