--------------------------- MODULE MCSentinelLab ---------------------------
(* Two sources and a kernel map of one entry, a queue of one event, so that   *)
(* the map fills, the queue refuses events and the worker falls behind.       *)
EXTENDS SentinelLab, TLC

Symmetry == Permutations(Sources)
=============================================================================
