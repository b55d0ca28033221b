---------------------------- MODULE MCEvaluators ----------------------------
(* The inputs the evaluators are checked on.                                     *)
EXTENDS Evaluators

(* any label, any action, two latencies that alternate *)
AnyEvent(k) == [latency : {k % 2}, label : {-1, 0, 1},
                action : {"Passed", "Logged", "KernelDropped"}]

(* The latency jumps around, with repetitions. *)
ScrambledEvent(k) == [latency |-> 2 + ((k * 37) % 89),
                      label   |-> (k % 3) - 1,
                      action  |-> IF k % 2 = 0 THEN "Passed" ELSE "KernelDropped"]

MCEventsFor(k) == {ScrambledEvent(k)} \cup (IF k <= 3 THEN AnyEvent(k) ELSE {})

MCCells == {<<0, 0>>, <<0, 1>>, <<1, 0>>, <<1, 1>>, <<1, 2>>, <<2, 0>>, <<2, 1>>, <<2, 2>>}
MCBwtMinThreshold == -1

(* Two clients of one model, honest or not, and the ways to lie: with a far value,  *)
(* with one in between, with a gradient of another size, with none at all.        *)
Of(size, value) == [size |-> size, value |-> value]
MCHonestGradients == {Of(1, 0), Of(1, 2)}
MCByzantineGradients == {Of(1, 1), Of(1, 5), Of(2, 5), Of(0, 0)}

(* Equal, near, turned, opposed, null, incomparable and missing logits.            *)
MCLogitPairs == {<< <<1, -2>>, <<1, -2>> >>, << <<10, 1>>, <<10, 2>> >>,
                 << <<1, 2>>, <<2, 1>> >>, << <<1>>, <<-1>> >>, << <<0, 0>>, <<0, 0>> >>,
                 << <<1, 2>>, <<1>> >>, << <<>>, <<>> >>}

(* Every sample of up to three events; only the scrambled sample goes on.  No sample *)
(* goes on beside the metrics of another, which nothing reads.  With more Byzantine *)
(* clients than this, Krum promises nothing for MaxClients clients or fewer.       *)
Bounds == /\ Len(recorded) > 3 =>
                 \A k \in 1 .. Len(recorded) : recorded[k] = ScrambledEvent(k)
          /\ recorded # <<>> => metrics.total \in {0, Len(recorded)}
          /\ unit = "krum" => 2 * Cardinality(Byzantine(input)) + 2 < MaxClients
=============================================================================
