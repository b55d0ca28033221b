---------------------- MODULE MCNetworkIngestReceiver ----------------------
(* A buffer of 32 bytes holds the header and three features, one more than   *)
(* the two that stand for the documents' 1024.  Counts are seven bits wide,  *)
(* so that in seven bits 20 + n * 4 would wrap to a small number for some.   *)
EXTENDS NetworkIngestReceiver

MCSizes == {0, 3, 19, 20, 21, 23, 24, 27, 28, 31, 32, 33, 40}
MCCounts == {0, 1, 2, 3, 4, 5, 31, 32, 33, 127}
=============================================================================
