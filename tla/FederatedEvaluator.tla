------------------------- MODULE FederatedEvaluator -------------------------
(***************************************************************************)
(* Robust aggregation (src/federated_evaluator.cpp): Krum selects the        *)
(* gradient with the smallest sum of distances to its nearest neighbours.    *)
(* A gradient has a number of components, all but one of them zero, and that  *)
(* one whole, so that distances are exact; a client has a gradient and may   *)
(* be Byzantine.                                                            *)
(***************************************************************************)
EXTENDS Integers, Sequences, FiniteSetsExt, Folds

Byzantine(clients) == {i \in 1 .. Len(clients) : clients[i].byzantine}
Honest(clients) == (1 .. Len(clients)) \ Byzantine(clients)

Abs(x) == IF x < 0 THEN - x ELSE x

(* Gradients that cannot be compared are as near as can be.                      *)
EuclideanDistance(v, w) ==
    IF v.size = 0 \/ v.size # w.size THEN 0 ELSE Abs(v.value - w.value)

(* Wrong on purpose: the fall-back of small federations for all of them. *)
NeighborsCountWrong(n, k) == 1

NeighborsCount(n, k) == IF n > k + 2 THEN n - k - 2 ELSE 1

(* The sum over the nearest neighbours is the least over as many neighbours; the  *)
(* one of a federation of one client reads past its distances, hence n >= 2.      *)
KrumScore(clients, i) ==
    LET others == (1 .. Len(clients)) \ {i}
        count == NeighborsCount(Len(clients), Cardinality(Byzantine(clients)))
        distance == [j \in others |-> EuclideanDistance(clients[i].gradient, clients[j].gradient)]
    IN  Min({SumFunctionOnSet(distance, near) : near \in kSubset(count, others)})

(* min_element: the first of the best *)
BestIdx(clients) ==
    LET scores == [i \in 1 .. Len(clients) |-> KrumScore(clients, i)]
    IN  Min({i \in 1 .. Len(clients) : \A j \in 1 .. Len(clients) : scores[i] <= scores[j]})

(* The success rate in percent is 0 or 100, on both sides of any limit. *)
EvaluateAggregationRobustness(clients) ==
    LET best == BestIdx(clients)
    IN  [best |-> best, defended |-> best \notin Byzantine(clients)]
-----------------------------------------------------------------------------
Gap(clients, i, others) ==
    Min({EuclideanDistance(clients[i].gradient, clients[j].gradient) : j \in others})

Diameter(clients) ==
    Max({EuclideanDistance(clients[i].gradient, clients[j].gradient) :
            i \in Honest(clients), j \in Honest(clients)})

(* The honest clients trained the same model. *)
Alike(clients) ==
    \E size \in {clients[i].gradient.size : i \in Honest(clients)} \ {0} :
        \A i \in Honest(clients) : clients[i].gradient.size = size

(* What Krum is for: with k Byzantine clients among n > 2k + 2, colluding ones      *)
(* included, the gradient selected is no further from an honest one than the bound  *)
(* that the honest clients' own spread gives; where they all agree it is theirs,    *)
(* and a Byzantine client can be selected only by agreeing too.  The one way around  *)
(* this is a gradient of another size than theirs, which is no gradient of their    *)
(* model at all.                                                                  *)
StaysNear(clients) ==
    LET n == Len(clients)
        k == Cardinality(Byzantine(clients))
        m == EvaluateAggregationRobustness(clients)
        gap == Gap(clients, m.best, Honest(clients))
        sizes == {clients[i].gradient.size : i \in Honest(clients)}
    IN  n > 2 * k + 2 /\ Alike(clients) /\ clients[m.best].gradient.size \in sizes =>
            /\ (n - 2 * k - 1) * gap <= (n - k - 2) * Diameter(clients)
            /\ Diameter(clients) = 0 /\ ~ m.defended => gap = 0
=============================================================================
