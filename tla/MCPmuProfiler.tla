--------------------------- MODULE MCPmuProfiler ---------------------------
(* Two threads share one profiler in a process with room for five              *)
(* descriptors, so that opening also fails for want of a number.              *)
EXTENDS PmuProfiler, TLC

Symmetry == Permutations(Callers)

(* The processor counts only while one of the threads has not read anything.    *)
Bounds == (\E d \in Descriptors : value[d] > 0) =>
             \E t \in Callers : \A u \in Callers \ {t} :
                pc[u] = "idle" /\ result[u] = NoMetrics
=============================================================================
