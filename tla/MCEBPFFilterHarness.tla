------------------------ MODULE MCEBPFFilterHarness ------------------------
(* Two threads that block and unblock three addresses in a map of two.     *)
EXTENDS EBPFFilterHarness, TLC

Symmetry == Permutations(Callers) \cup Permutations(Ips)
=============================================================================
