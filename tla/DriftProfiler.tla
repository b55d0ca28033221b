--------------------------- MODULE DriftProfiler ---------------------------
(***************************************************************************)
(* Forgetting in continual learning (src/drift_profiler.cpp): scores are     *)
(* recorded in any order in a sparse matrix, row trained, column tested, and *)
(* the metrics compare the last row with the diagonal.  Scores and           *)
(* thresholds in percent; the means are kept as sums over N - 1 tasks.       *)
(***************************************************************************)
EXTENDS Integers, FiniteSetsExt

CONSTANTS Cells,            \* pairs of tasks <<trained, tested>> that are recorded
          Scores,           \* scores that occur
          BwtMinThreshold   \* bwt_min_threshold

VARIABLE matrix   \* matrix_raw_: a score for each pair recorded

vars == <<matrix>>

Init == matrix = [c \in {} |-> 0]

RecordTaskScore(i, j, score) ==
    matrix' = [c \in DOMAIN matrix \cup {<<i, j>>} |->
                  IF c = <<i, j>> THEN score ELSE matrix[c]]

Reset == matrix' = [c \in {} |-> 0]

Next == \/ \E c \in Cells, score \in Scores : RecordTaskScore(c[1], c[2], score)
        \/ Reset
-----------------------------------------------------------------------------
NumTasks == 1 + Max({0} \cup {c[1] : c \in DOMAIN matrix} \cup {c[2] : c \in DOMAIN matrix})

(* task_matrix_R: what was never recorded counts as 0. *)
R(i, j) == IF <<i, j>> \in DOMAIN matrix THEN matrix[<<i, j>>] ELSE 0

Baseline == 50

(* Wrong on purpose: against the first row instead of the diagonal. *)
BackwardTransferWrong ==
    SumFunction([j \in 0 .. NumTasks - 2 |-> R(NumTasks - 1, j) - R(0, j)])

BackwardTransfer ==
    SumFunction([j \in 0 .. NumTasks - 2 |-> R(NumTasks - 1, j) - R(j, j)])

ForwardTransfer ==
    SumFunction([j \in 1 .. NumTasks - 1 |-> R(j - 1, j) - Baseline])

(* One task alone, or none, satisfies the threshold by default. *)
ComputeDriftMetrics ==
    IF NumTasks < 2
    THEN [valid |-> DOMAIN matrix # {}, bwt |-> 0, fwt |-> 0, retention |-> <<>>, satisfied |-> TRUE]
    ELSE [valid     |-> TRUE,
          bwt       |-> BackwardTransfer,
          fwt       |-> ForwardTransfer,
          retention |-> [i \in 1 .. NumTasks |-> R(i - 1, 0)],
          satisfied |-> BackwardTransfer >= BwtMinThreshold * (NumTasks - 1)]
-----------------------------------------------------------------------------
(* Every task was tested after each training from its own on. *)
Complete == \A i \in 0 .. NumTasks - 1 : \A j \in 0 .. i : <<i, j>> \in DOMAIN matrix

(* In whatever order and however often the scores of a complete evaluation are    *)
(* recorded, the backward transfer is what the tasks lost and gained from one     *)
(* training to the next; the threshold is met when no task lost more than it       *)
(* allows and missed when all of them did; what task 0 lost shows in its retention. *)
ForgettingIsSeen ==
    LET m == ComputeDriftMetrics
        last == NumTasks - 1
        gained(j) == SumFunction([i \in j + 1 .. last |-> R(i, j) - R(i - 1, j)])
    IN  Complete /\ NumTasks >= 2 =>
            /\ m.bwt = SumFunction([j \in 0 .. last - 1 |-> gained(j)])
            /\ (\A j \in 0 .. last - 1 : gained(j) >= BwtMinThreshold) => m.satisfied
            /\ (\A j \in 0 .. last - 1 : gained(j) < BwtMinThreshold) => ~ m.satisfied
            /\ m.retention[NumTasks] - m.retention[1] = gained(0)
=============================================================================
