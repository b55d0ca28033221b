-------------------------- MODULE MCLockFreeQueue --------------------------
(* One producer, the ingest listener, and one consumer, the worker: the way *)
(* main.cpp wires the queue.                                                *)
EXTENDS LockFreeQueue
=============================================================================
