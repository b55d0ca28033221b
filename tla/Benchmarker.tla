---------------------------- MODULE Benchmarker ----------------------------
(***************************************************************************)
(* The metric engine (src/benchmarker.cpp).  Every operation holds           *)
(* bench_mutex_ from its first line to its last, so each is one step.        *)
(* Ratios are kept as pairs <<numerator, denominator>>.                      *)
(***************************************************************************)
EXTENDS Integers, Sequences, FiniteSets, Functions

CONSTANTS EventsNumber(_),  \* the events that may be recorded k-th
          MaxEvents         \* bound: events recorded between two resets

Labels == {-1, 0, 1}
Actions == {"Passed", "Logged", "KernelDropped"}
Event == [latency : Nat, label : Labels, action : Actions]

VARIABLES latencies,   \* latencies_us_
          recorded,    \* recorded_events_
          metrics      \* what the last compute_metrics returned

vars == <<latencies, recorded, metrics>>
-----------------------------------------------------------------------------
(* Wrong on purpose, as is CellWrong below: the rank just below. *)
PercentileWrong(sorted, percent) ==
    sorted[(IF Len(sorted) * percent = 0 THEN 0
            ELSE (Len(sorted) * percent - 1) \div 100) + 1]

Percentile(sorted, percent) == sorted[(Len(sorted) * percent) \div 100 + 1]

(* std::sort: an element follows the smaller ones, and of its equals, which nobody  *)
(* can tell apart, those recorded before it.                                     *)
Sorted(seq) ==
    LET upTo(k) == {i \in 1 .. Len(seq) : seq[i] < seq[k] \/ (seq[i] = seq[k] /\ i <= k)}
        place == [k \in 1 .. Len(seq) |-> Cardinality(upTo(k))]
    IN  [r \in 1 .. Len(seq) |-> seq[CHOOSE k \in 1 .. Len(seq) : place[k] = r]]

(* unlabelled events count as benign *)
CellWrong(label, dropped) ==
    Cardinality({k \in 1 .. Len(recorded) :
                    /\ recorded[k].label \in {label, -1}
                    /\ (recorded[k].action = "KernelDropped") = dropped})

Cell(label, dropped) ==
    Cardinality({k \in 1 .. Len(recorded) :
                    /\ recorded[k].label = label
                    /\ (recorded[k].action = "KernelDropped") = dropped})

Ratio(num, den, otherwise) == IF den > 0 THEN <<num, den>> ELSE otherwise

(* 2 p r / (p + r), and 0 when p + r is 0 *)
F1Score(p, r) ==
    Ratio(2 * p[1] * r[1], p[1] * r[2] + r[1] * p[2], <<0, 1>>)

NoMetrics == [total |-> 0]

Metrics ==
    LET sorted == Sorted(latencies)
        tp == Cell(1, TRUE)
        fn == Cell(1, FALSE)
        fp == Cell(0, TRUE)
        tn == Cell(0, FALSE)
        precision == Ratio(tp, tp + fp, <<1, 1>>)
        recall == Ratio(tp, tp + fn, <<1, 1>>)
        evaluated == tp + fp + tn + fn > 0
    IN  [total     |-> Len(latencies),
         min       |-> sorted[1],
         max       |-> sorted[Len(sorted)],
         mean      |-> <<SumFunction(sorted), Len(sorted)>>,
         p50       |-> Percentile(sorted, 50),
         p90       |-> Percentile(sorted, 90),
         p95       |-> Percentile(sorted, 95),
         p99       |-> Percentile(sorted, 99),
         tp |-> tp, fp |-> fp, tn |-> tn, fn |-> fn,
         accuracy  |-> Ratio(tp + tn, tp + fp + tn + fn, <<0, 1>>),
         precision |-> IF evaluated THEN precision ELSE <<0, 1>>,
         recall    |-> IF evaluated THEN recall ELSE <<0, 1>>,
         f1        |-> IF evaluated THEN F1Score(precision, recall) ELSE <<0, 1>>]
-----------------------------------------------------------------------------
Init == /\ latencies = <<>>
        /\ recorded = <<>>
        /\ metrics = NoMetrics

RecordEvent(e) ==
    /\ latencies' = Append(latencies, e.latency)
    /\ recorded' = Append(recorded, e)
    /\ UNCHANGED metrics

Reset == /\ latencies' = <<>>
         /\ recorded' = <<>>
         /\ UNCHANGED metrics

ComputeMetrics ==
    /\ UNCHANGED <<latencies, recorded>>
    /\ metrics' = IF latencies = <<>> THEN NoMetrics ELSE Metrics

Next == \/ /\ Len(recorded) < MaxEvents
           /\ \E e \in EventsNumber(Len(recorded) + 1) : RecordEvent(e)
        \/ Reset
        \/ ComputeMetrics

-----------------------------------------------------------------------------
(* Of n latencies, more than k percent are at most the k-th percentile and at   *)
(* most k percent are below it; the percentiles, the mean and the extremes are  *)
(* in order.  The index n * k / 100 stays within the sample for every n.        *)
AtMost(v) == Cardinality({k \in 1 .. Len(latencies) : latencies[k] <= v})
Below(v) == Cardinality({k \in 1 .. Len(latencies) : latencies[k] < v})

Bracketed(v, percent) ==
    /\ 100 * AtMost(v) > percent * Len(latencies)
    /\ 100 * Below(v) <= percent * Len(latencies)

PercentilesBracketed ==
    [][ComputeMetrics /\ latencies # <<>> =>
          LET m == metrics'
          IN  /\ Bracketed(m.p50, 50) /\ Bracketed(m.p90, 90)
              /\ Bracketed(m.p95, 95) /\ Bracketed(m.p99, 99)
              /\ m.min <= m.p50 /\ m.p50 <= m.p90 /\ m.p90 <= m.p95
              /\ m.p95 <= m.p99 /\ m.p99 <= m.max
              /\ m.min * m.mean[2] <= m.mean[1] /\ m.mean[1] <= m.max * m.mean[2]]_vars

(* The four counts are those of the labelled events of this very sample, and      *)
(* accuracy, precision, recall and F1 are the textbook's wherever it defines them. *)
Equal(x, y) == x[1] * y[2] = y[1] * x[2]

Numbered(labels, actions) ==
    Cardinality({k \in 1 .. Len(recorded) :
                    recorded[k].label \in labels /\ recorded[k].action \in actions})

MatrixIsTextbook ==
    [][ComputeMetrics /\ latencies # <<>> =>
          LET m == metrics'
              labelled == Numbered({0, 1}, Actions)
              malicious == Numbered({1}, Actions)
              alarms == Numbered({0, 1}, {"KernelDropped"})
              hits == Numbered({1}, {"KernelDropped"})
              correct == hits + Numbered({0}, {"Passed", "Logged"})
          IN  /\ m.total = Len(recorded)
              /\ m.tp = hits /\ m.tp + m.fp = alarms /\ m.tp + m.fn = malicious
              /\ m.tp + m.fp + m.tn + m.fn = labelled
              /\ labelled > 0 => Equal(m.accuracy, <<correct, labelled>>)
              /\ alarms > 0 => Equal(m.precision, <<hits, alarms>>)
              /\ malicious > 0 => Equal(m.recall, <<hits, malicious>>)
              /\ alarms + malicious > 0 => Equal(m.f1, <<2 * hits, alarms + malicious>>)
              /\ \A x \in {m.accuracy, m.precision, m.recall, m.f1} :
                    0 <= x[1] /\ x[1] <= x[2] /\ 0 < x[2]]_vars
=============================================================================
