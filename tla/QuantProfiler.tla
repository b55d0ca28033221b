--------------------------- MODULE QuantProfiler ---------------------------
(***************************************************************************)
(* The drift of a quantised model (src/quant_profiler.cpp): its logits must  *)
(* point the same way and its attributions must rank the features the same.  *)
(* Values are integers, the cosine is compared squared; the mean square      *)
(* error, which no verdict uses, is left out.                               *)
(***************************************************************************)
EXTENDS Integers, Sequences, FiniteSetsExt

Comparable(a, b) == a # <<>> /\ Len(a) = Len(b)

Dot(a, b) == SumFunction([i \in 1 .. Len(a) |-> a[i] * b[i]])

(* cosine_similarity >= min_cosine_similarity, 0.985 = 197 / 200 *)
CosineSuffices(a, b) ==
    /\ Comparable(a, b)
    /\ Dot(a, b) > 0
    /\ 200 * 200 * Dot(a, b) * Dot(a, b) >= 197 * 197 * Dot(a, a) * Dot(b, b)

(* The orders std::sort may leave: it is not stable, ties come in any order. *)
Rankings(a) == {r \in [1 .. Len(a) -> 1 .. Len(a)] :
                   \A i, j \in 1 .. Len(a) : i < j => r[i] # r[j] /\ a[r[i]] >= a[r[j]]}

Inversions(ra, rb) == Cardinality({i \in 1 .. Len(ra) : ra[i] # rb[i]})

(* The counts that calculate_rank_inversion_pct may take the percentage of: 0 for  *)
(* vectors it cannot compare.                                                    *)
InversionCounts(a, b) ==
    IF Comparable(a, b) THEN {Inversions(ra, rb) : ra \in Rankings(a), rb \in Rankings(b)}
    ELSE {0}

(* Wrong on purpose: each pair where the other belongs. *)
EvaluateBackendDriftWrong(logits, quantLogits, attr, quantAttr) ==
    {CosineSuffices(attr, quantAttr) /\ 100 * count <= 5 * Len(logits) :
        count \in InversionCounts(logits, quantLogits)}

(* The verdicts precision_sla_satisfied there may be: the logits point the same    *)
(* way, and at most 5 percent of the ranks of the attributions differ.             *)
EvaluateBackendDrift(logits, quantLogits, attr, quantAttr) ==
    {CosineSuffices(logits, quantLogits) /\ 100 * count <= 5 * Len(attr) :
        count \in InversionCounts(attr, quantAttr)}
-----------------------------------------------------------------------------
StrictlyOrdered(a) == \A i, j \in 1 .. Len(a) : i # j => a[i] # a[j]
SameOrder(a, b) == \A i, j \in 1 .. Len(a) : a[i] > a[j] => b[i] > b[j]

(* With fewer than 20 features a satisfied SLA means that some logit kept its sign,  *)
(* and that no two features changed places, whatever order ties were sorted in,      *)
(* unless the attributions cannot be compared at all.                              *)
SlaKeepsRanking(logits, quantLogits, attr, quantAttr) ==
    TRUE \in EvaluateBackendDrift(logits, quantLogits, attr, quantAttr) /\ Len(attr) < 20 =>
        /\ Comparable(logits, quantLogits)
        /\ \E i \in 1 .. Len(logits) : logits[i] * quantLogits[i] > 0
        /\ Comparable(attr, quantAttr) =>
              \A i, j \in 1 .. Len(attr) : attr[i] > attr[j] => quantAttr[i] >= quantAttr[j]

(* A back end that changes no logit, and keeps a strict order of the features, is    *)
(* never found wanting.                                                            *)
FaithfulSatisfies(logits, attr, quantAttr) ==
    /\ \E i \in 1 .. Len(logits) : logits[i] # 0
    /\ Comparable(attr, quantAttr) /\ StrictlyOrdered(attr) /\ SameOrder(attr, quantAttr)
    => FALSE \notin EvaluateBackendDrift(logits, logits, attr, quantAttr)

(* Two orders never differ in a single rank. *)
RankingKept(logits, quantLogits, attr, quantAttr) ==
    /\ SlaKeepsRanking(logits, quantLogits, attr, quantAttr)
    /\ FaithfulSatisfies(logits, attr, quantAttr)
    /\ 1 \notin InversionCounts(attr, quantAttr)
=============================================================================
